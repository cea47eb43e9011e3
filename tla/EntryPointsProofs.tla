-------------------------- MODULE EntryPointsProofs --------------------------
(***************************************************************************)
(* Proofs about module EntryPoints, for every set of values the setters    *)
(* are called with, in every order and number, and every closure.          *)
(*                                                                         *)
(* What was checked when the parser was built is what a parse relies on,   *)
(* because nothing of it changes in between: the only field that a parse   *)
(* writes, in a copy, is the count of fields, which no check of try_build  *)
(* reads.                                                                  *)
(***************************************************************************)
EXTENDS EntryPoints, TLAPS

Fields == DOMAIN Default

(* A configuration has the fields of the default one, and no count.        *)
ConfigOK ==
  /\ config = [f \in Fields |-> config[f]]
  /\ config.field_count = NoCount
  /\ config.flexible => mode = "Variadic"
  /\ config.parser_backend \in ParserBackends
  /\ config.io_backend \in IoBackends \cup {"Auto"}

(* Once a parser is built, its configuration has passed the checks.        *)
Checked == stage \in {"built", "running"} => IsBuildable(config, encoding)

(* A parse that runs has a copy with its own count, and a parser for it.   *)
Pinned ==
  stage = "running" =>
    /\ run.arity \in ArityOf /\ run.config = PinnedConfig(run.arity)
    /\ Supports(run.parser, run.config)

(* No answer of an earlier call is left where a new one is under way.      *)
Unanswered == stage \in {"building", "running"} => answer = "none"

IInv == TypeOK /\ ConfigOK /\ Checked /\ Pinned /\ Unanswered
        /\ NeverPanics /\ AutoNeverRefuses /\ ProbeAgrees

-----------------------------------------------------------------------------
LEMMA DefaultFields ==
  Fields = {"delimiter", "terminator", "quote", "escape", "comment", "quote_handling",
            "trim", "flexible", "field_count", "parser_backend", "io_backend",
            "buffer_size", "buffer_limit", "io_buffer_limit"}
BY DEF Fields, Default

(* arity_config changes the count and nothing that is validated.           *)
LEMMA PinningKeepsTheRest ==
  ASSUME ConfigOK, NEW arity
  PROVE  /\ \A f \in Fields \ {"field_count"} : PinnedConfig(arity)[f] = config[f]
         /\ PinnedConfig(arity).field_count = IF mode = "Arity" THEN arity ELSE NoCount
<1>1. "field_count" \in Fields
  BY DefaultFields
<1> QED BY <1>1 DEF ConfigOK, PinnedConfig, ArityConfig

LEMMA PinnedIsBuildable ==
  ASSUME ConfigOK, NEW arity, IsBuildable(config, encoding)
  PROVE  IsBuildable(PinnedConfig(arity), encoding)
<1>1. \A f \in Fields \ {"field_count"} : PinnedConfig(arity)[f] = config[f]
  BY PinningKeepsTheRest
<1>2. /\ PinnedConfig(arity).quote_handling = config.quote_handling
      /\ PinnedConfig(arity).delimiter = config.delimiter
      /\ PinnedConfig(arity).terminator = config.terminator
      /\ PinnedConfig(arity).quote = config.quote
      /\ PinnedConfig(arity).escape = config.escape
      /\ PinnedConfig(arity).comment = config.comment
      /\ PinnedConfig(arity).io_backend = config.io_backend
      /\ PinnedConfig(arity).buffer_size = config.buffer_size
      /\ PinnedConfig(arity).buffer_limit = config.buffer_limit
      /\ PinnedConfig(arity).io_buffer_limit = config.io_buffer_limit
  BY <1>1, DefaultFields
<1> HIDE DEF PinnedConfig
<1> QED BY <1>2 DEF IsBuildable, Validated, ValidDialect, ControlBytes, Terminators

(* resolve_parser_backend decides.                                         *)
LEMMA ChosenIsConcrete ==
  ASSUME NEW c, c.parser_backend \in ParserBackends
  PROVE  /\ Chosen(c) \in ChunkParsers
         /\ ~Supports(Chosen(c), c) => c.parser_backend = "Simd" /\ ~SimdSupports(c)
BY DEF Chosen, Supports, ParserBackends, ChunkParsers

-----------------------------------------------------------------------------
LEMMA InitIInv == Init => IInv
<1> SUFFICES ASSUME Init PROVE IInv
  OBVIOUS
<1>1. ConfigOK
  BY DEF Init, ConfigOK, Fields, Default, ParserBackends
<1>2. TypeOK
  <2>1. stage = "building" /\ mode \in Modes /\ encoding \in Encodings /\ answer \in Answers
    BY DEF Init, Modes, Encodings, Answers
  <2>2. run.entry = "none" /\ run.parser = "Auto" /\ run.io = "Auto"
    BY DEF Init, NotRun
  <2>3. settings \in 0..MaxSettings /\ parses \in 0..MaxParses /\ handed \subseteq Widths
    BY EntryPointsAssumption DEF Init
  <2> QED BY <1>1, <2>1, <2>2, <2>3 DEF TypeOK, ConfigOK, ParserBackends
<1> QED BY <1>1, <1>2 DEF Init, IInv, Checked, Pinned, Unanswered, NeverPanics,
          AutoNeverRefuses, ProbeAgrees

(* The builder's steps: nothing is built yet, and nothing was answered.    *)
LEMMA BuilderStep ==
  ASSUME IInv, Set \/ Variadic \/ Flexible \/ Bytes
  PROVE  IInv'
<1> USE DEF IInv
<1>1. /\ stage = "building" /\ answer = "none"
      /\ UNCHANGED <<stage, parses, run, handed, answer>>
  BY DEF Set, Variadic, Flexible, Bytes, Builds, Unanswered
<1>2. ConfigOK' /\ mode' \in Modes /\ encoding' \in Encodings
  <2>1. CASE Set
    <3>1. PICK f \in DOMAIN Choices : \E v \in Choices[f] : config' = [config EXCEPT ![f] = v]
      BY <2>1 DEF Set
    <3>2. PICK v \in Choices[f] : config' = [config EXCEPT ![f] = v]
      BY <3>1
    <3>3. f \in Fields \ {"flexible", "field_count"}
      BY EntryPointsAssumption DEF Fields
    <3>4. /\ f = "parser_backend" => v \in ParserBackends
          /\ f = "io_backend" => v \in IoBackends \cup {"Auto"}
      BY EntryPointsAssumption
    <3>5. mode' = mode /\ encoding' = encoding
      BY <2>1 DEF Set
    <3>6. /\ config' = [g \in Fields |-> config'[g]]
          /\ \A g \in Fields : config'[g] = IF g = f THEN v ELSE config[g]
      BY <3>2 DEF ConfigOK
    <3>7. {"field_count", "flexible", "parser_backend", "io_backend"} \subseteq Fields
      BY DefaultFields
    <3>8. /\ config'.field_count = config.field_count
          /\ config'.flexible = config.flexible
          /\ config'.parser_backend \in ParserBackends
          /\ config'.io_backend \in IoBackends \cup {"Auto"}
      BY <3>3, <3>4, <3>6, <3>7 DEF ConfigOK
    <3> QED BY <3>5, <3>6, <3>8 DEF ConfigOK, TypeOK
  <2>2. CASE Variadic \/ Bytes
    BY <2>2 DEF Variadic, Bytes, ConfigOK, TypeOK, Modes, Encodings
  <2>3. CASE Flexible
    <3>1. /\ config' = [config EXCEPT !.flexible = TRUE]
          /\ mode' = "Variadic" /\ encoding' = encoding
      BY <2>3 DEF Flexible
    <3>2. {"field_count", "flexible", "parser_backend", "io_backend"} \subseteq Fields
      BY DefaultFields
    <3> QED BY <3>1, <3>2 DEF ConfigOK, TypeOK, Modes
  <2> QED BY <2>1, <2>2, <2>3
<1>3. settings' \in 0..MaxSettings
  BY EntryPointsAssumption DEF Set, Variadic, Flexible, Bytes, TypeOK
<1>4. TypeOK'
  BY <1>1, <1>2, <1>3 DEF TypeOK, ConfigOK
<1> QED BY <1>1, <1>2, <1>4 DEF Checked, Pinned, Unanswered, NeverPanics,
          AutoNeverRefuses, ProbeAgrees

LEMMA TryBuildStep ==
  ASSUME IInv, TryBuild \/ TryBuildRefuses
  PROVE  IInv'
<1> USE DEF IInv
<1>1. /\ stage' \in {"built", "refused"} /\ answer' \in {"Ok", "InvalidConfig"}
      /\ stage' = "built" => IsBuildable(config, encoding) /\ answer' = "Ok"
      /\ UNCHANGED <<mode, encoding, config, settings, parses, run, handed>>
  BY DEF TryBuild, TryBuildRefuses, built_as
<1>2. TypeOK' /\ ConfigOK'
  BY <1>1 DEF TypeOK, ConfigOK, Answers
<1>3. Checked'
  BY <1>1 DEF Checked
<1> QED BY <1>1, <1>2, <1>3 DEF Pinned, Unanswered, NeverPanics,
          AutoNeverRefuses, ProbeAgrees

(* A call that ends at once.                                               *)
LEMMA CallStep ==
  ASSUME IInv, ParseRefuses \/ NoSuchFile \/ NothingToParse
  PROVE  IInv'
<1> USE DEF IInv
<1>1. /\ stage = "built" /\ stage' = "built"
      /\ parses' \in 0..MaxParses /\ handed' = {}
      /\ UNCHANGED <<mode, encoding, config, settings>>
  BY EntryPointsAssumption
     DEF ParseRefuses, NoSuchFile, NothingToParse, Called, Answer, built_as, TypeOK
<1>2. ConfigOK' /\ Checked' /\ Pinned' /\ Unanswered'
  BY <1>1 DEF ConfigOK, Checked, Pinned, Unanswered, IsBuildable
<1>3. ASSUME NEW arity
      PROVE  /\ PinnedConfig(arity).parser_backend = config.parser_backend
             /\ Chosen(PinnedConfig(arity)) \in ParserBackends
  <2>1. PinnedConfig(arity).parser_backend = config.parser_backend
    BY PinningKeepsTheRest, DefaultFields
  <2> QED BY <2>1, ChosenIsConcrete DEF ConfigOK, ParserBackends
<1>4. /\ run'.entry \in Entries /\ run'.parser \in ParserBackends
      /\ run'.io = "Auto"
      /\ answer' \in {"InvalidConfig", "IO", "Ok"}
  <2>1. CASE ParseRefuses
    BY <2>1, <1>3 DEF ParseRefuses, Calls, Answer
  <2>2. CASE NoSuchFile
    BY <2>2 DEF NoSuchFile, Calls, Answer, Entries, ParserBackends
  <2>3. CASE NothingToParse
    BY <2>3, <1>3 DEF NothingToParse, Calls, Answer
  <2> QED BY <2>1, <2>2, <2>3
<1>5. TypeOK'
  BY <1>1, <1>2, <1>4 DEF TypeOK, ConfigOK, Answers
<1>6. ASSUME answer' = "InvalidConfig"
      PROVE  /\ config.parser_backend = "Simd"
             /\ \E arity \in ArityOf :
                  run'.arity = arity /\ ~SimdSupports(PinnedConfig(arity))
  <2>1. PICK entry \in Entries, arity \in ArityOf :
          /\ ~Supports(Chosen(PinnedConfig(arity)), PinnedConfig(arity))
          /\ Calls(entry, arity, PinnedConfig(arity), Chosen(PinnedConfig(arity)), "Auto")
    BY <1>6 DEF ParseRefuses, NoSuchFile, NothingToParse, Answer
  <2>2. run'.arity = arity
    BY <2>1 DEF Calls
  <2>3. PinnedConfig(arity).parser_backend \in ParserBackends
    BY <1>3 DEF ConfigOK
  <2> QED BY <1>3, <2>1, <2>2, <2>3, ChosenIsConcrete
<1>7. AutoNeverRefuses'
  BY <1>1, <1>6 DEF AutoNeverRefuses
<1>8. ProbeAgrees'
  <2> SUFFICES ASSUME mode = "Arity", answer' = "InvalidConfig",
                      SupportsBackend(config.parser_backend, config),
                      run'.arity \in 1..FixedMaxArity
               PROVE  FALSE
    BY <1>1 DEF ProbeAgrees, SupportsBackend, Supports, SimdSupports
  <2>1. PICK arity \in ArityOf : run'.arity = arity /\ ~SimdSupports(PinnedConfig(arity))
    BY <1>6
  <2>2. SimdSupports([config EXCEPT !.field_count = 1])
    BY <1>6 DEF SupportsBackend, Supports
  <2>3. PinnedConfig(arity) = [config EXCEPT !.field_count = arity]
    BY DEF PinnedConfig, ArityConfig
  <2>4. "field_count" \in Fields
    BY DefaultFields
  <2> QED BY <2>1, <2>2, <2>3, <2>4, DefaultFields DEF SimdSupports, ConfigOK
<1>9. NeverPanics'
  BY <1>4 DEF NeverPanics
<1> QED BY <1>2, <1>5, <1>7, <1>8, <1>9

(* A call that runs: nothing it dispatches on is left undecided.           *)
LEMMA DispatchStep ==
  ASSUME IInv, Dispatch
  PROVE  IInv'
<1> USE DEF IInv
<1>1. /\ stage = "built" /\ parses' \in 0..MaxParses /\ handed' = {}
      /\ UNCHANGED <<mode, encoding, config, settings>>
  BY EntryPointsAssumption DEF Dispatch, Called, built_as, TypeOK
<1>2. PICK entry \in Entries, arity \in ArityOf :
        /\ Supports(Chosen(PinnedConfig(arity)), PinnedConfig(arity))
        /\ \E io \in ResolvedIo(entry, PinnedConfig(arity)) :
             Calls(entry, arity, PinnedConfig(arity), Chosen(PinnedConfig(arity)), io)
  BY DEF Dispatch
<1> DEFINE c == PinnedConfig(arity)
<1>3. PICK io \in ResolvedIo(entry, c) : Calls(entry, arity, c, Chosen(c), io)
  BY <1>2
<1>4. /\ c.parser_backend = config.parser_backend /\ c.io_backend = config.io_backend
      /\ c.quote = config.quote /\ c.escape = config.escape
  BY PinningKeepsTheRest, DefaultFields
<1>5. run' = [entry |-> entry, arity |-> arity, config |-> c,
              parser |-> Chosen(c), io |-> io]
  BY <1>3 DEF Calls
<1> HIDE DEF c
<1>6. Chosen(c) \in ChunkParsers
  BY <1>4, ChosenIsConcrete DEF ConfigOK
<1>7. io \in IoBackends /\ (entry # "parse" => io = "RingBuf")
  <2>1. CASE entry # "parse"
    <3>1. ResolvedIo(entry, c) = {"RingBuf"}
      BY <2>1 DEF ResolvedIo
    <3> QED BY <3>1 DEF IoBackends
  <2>2. CASE entry = "parse" /\ c.io_backend # "Auto"
    <3>1. ResolvedIo(entry, c) = {c.io_backend}
      BY <2>2 DEF ResolvedIo
    <3> QED BY <1>4, <2>2, <3>1 DEF ConfigOK
  <2>3. CASE entry = "parse" /\ c.io_backend = "Auto"
    <3>1. ResolvedIo(entry, c) = {"InMemory", "RingBuf"}
      BY <2>3 DEF ResolvedIo
    <3> QED BY <2>3, <3>1 DEF IoBackends
  <2> QED BY <2>1, <2>2, <2>3
<1>8. c.quote = NoByte => c.escape = NoByte
  BY <1>1, <1>4 DEF Checked, IsBuildable, Validated, ValidDialect
<1>9. ~IsUnreachable(run')
  <2>1. "Auto" \notin {run'.parser, run'.io}
    BY <1>5, <1>6, <1>7 DEF ChunkParsers, IoBackends
  <2>2. ~(run'.entry = "parse_slice" /\ run'.io # "RingBuf")
    BY <1>5, <1>7
  <2>3. ~(run'.config.quote = NoByte /\ run'.config.escape # NoByte)
    BY <1>5, <1>8
  <2> QED BY <2>1, <2>2, <2>3 DEF IsUnreachable
<1>10. stage' = "running" /\ answer' = "none"
  BY <1>9 DEF Dispatch
<1>11. TypeOK' /\ ConfigOK' /\ Checked'
  BY <1>1, <1>5, <1>6, <1>7, <1>10
     DEF TypeOK, ConfigOK, Checked, ParserBackends, Answers, IsBuildable
<1>12. Pinned'
  <2>1. /\ run'.arity = arity /\ run'.config = c /\ run'.parser = Chosen(c)
    BY <1>5
  <2>2. ArityOf' = ArityOf /\ PinnedConfig(arity)' = c
    BY <1>1 DEF ArityOf, PinnedConfig, c
  <2> QED BY <1>1, <1>2, <1>10, <2>1, <2>2 DEF Pinned, PinnedConfig, ArityOf, c
<1> QED BY <1>10, <1>11, <1>12 DEF Unanswered, NeverPanics, AutoNeverRefuses, ProbeAgrees

(* The closure is handed an array of its own length, or none.              *)
LEMMA RunningStep ==
  ASSUME IInv, HandOut \/ RejectRecord \/ Fail \/ Complete
  PROVE  IInv'
<1> USE DEF IInv
<1>1. /\ stage = "running" /\ stage' \in {"running", "built"}
      /\ UNCHANGED <<mode, encoding, config, settings, parses, run>>
  BY DEF HandOut, RejectRecord, Fail, Complete, Running, Return, built_as
<1>2. ASSUME NEW width \in Widths, HasTheFields(run.config, width)
      PROVE  FieldsAsArray(width)
  <2> SUFFICES ASSUME mode = "Arity" PROVE run.arity = width
    BY DEF FieldsAsArray
  <2>1. run.arity \in Nat /\ run.config = PinnedConfig(run.arity)
    BY <1>1, EntryPointsAssumption DEF Pinned, ArityOf
  <2>2. run.config.field_count = run.arity
    BY <2>1, PinningKeepsTheRest
  <2>3. run.arity # NoCount
    BY <2>1 DEF NoCount
  <2> QED BY <1>2, <2>2, <2>3 DEF HasTheFields
<1>3. /\ answer' \in Answers \ {"InvalidConfig", "unreachable", "assertion"}
      /\ stage' = "running" => answer' = "none"
      /\ handed' \subseteq Widths
  <2>1. CASE HandOut
    <3>1. PICK width \in Widths :
            /\ HasTheFields(run.config, width)
            /\ IF FieldsAsArray(width)
               THEN handed' = handed \cup {width} /\ UNCHANGED <<stage, answer>>
               ELSE Return("assertion")
      BY <2>1 DEF HandOut
    <3>2. handed' = handed \cup {width} /\ answer' = answer
      BY <1>2, <3>1
    <3>3. answer = "none" /\ answer \in Answers \ {"InvalidConfig", "unreachable", "assertion"}
      BY <1>1 DEF TypeOK, NeverPanics, Unanswered, Answers
    <3> QED BY <3>2, <3>3 DEF TypeOK
  <2>2. CASE RejectRecord \/ Fail \/ Complete
    BY <2>2 DEF RejectRecord, Fail, Complete, Return, Answers, TypeOK
  <2> QED BY <2>1, <2>2
<1>4. TypeOK' /\ ConfigOK' /\ Checked' /\ Unanswered'
  BY <1>1, <1>3 DEF TypeOK, ConfigOK, Checked, Unanswered, IsBuildable
<1>5. Pinned'
  BY <1>1 DEF Pinned, ArityOf, PinnedConfig
<1> QED BY <1>3, <1>4, <1>5 DEF NeverPanics, AutoNeverRefuses, ProbeAgrees

LEMMA Step == IInv /\ [Next]_vars => IInv'
<1>1. IInv /\ Next => IInv'
  BY BuilderStep, TryBuildStep, CallStep, DispatchStep, RunningStep DEF Next
<1>2. IInv /\ UNCHANGED vars => IInv'
  BY DEF vars, built_as, IInv, TypeOK, ConfigOK, Checked, Pinned, Unanswered, NeverPanics,
       AutoNeverRefuses, ProbeAgrees, ArityOf, PinnedConfig
<1> QED BY <1>1, <1>2

LEMMA Invariance == Spec => []IInv
BY InitIInv, Step, PTL DEF Spec

-----------------------------------------------------------------------------
(* The state of builder, parser and parse is as their types promise.       *)
THEOREM TypeCorrect == Spec => []TypeOK
<1>1. IInv => TypeOK
  BY DEF IInv
<1> QED BY <1>1, Invariance, PTL

(* No configuration that try_build lets through reaches an `unreachable!`  *)
(* of the dispatch, and no record a closure of another length              *)
(* (fields_as_array).                                                      *)
THEOREM NoCallPanics == Spec => []NeverPanics
<1>1. IInv => NeverPanics
  BY DEF IInv
<1> QED BY <1>1, Invariance, PTL

(* A parse that runs has a dialect that is consistent, bytes that cut no   *)
(* character, and a parser that models both (try_from_config and           *)
(* resolve_parser_backend, far from the parse that relies on them).        *)
THEOREM ParsesAreSupported == Spec => []RunsWhatItSupports
<1>1. IInv => RunsWhatItSupports
  <2> SUFFICES ASSUME IInv, stage = "running" PROVE RunsWhatItSupports
    BY DEF RunsWhatItSupports
  <2>1. /\ run.arity \in ArityOf /\ run.config = PinnedConfig(run.arity)
        /\ Supports(run.parser, run.config)
    BY DEF IInv, Pinned
  <2>2. IsBuildable(run.config, encoding)
    BY <2>1, PinnedIsBuildable DEF IInv, Checked
  <2>3. run.config.field_count = run.arity
    BY <2>1, PinningKeepsTheRest DEF IInv, ArityOf
  <2> QED BY <2>1, <2>2, <2>3 DEF RunsWhatItSupports, IsBuildable
<1> QED BY <1>1, Invariance, PTL

(* Auto falls back to the DFA parser, whatever the configuration           *)
(* (resolve_parser_backend).                                               *)
THEOREM AutoFallsBack == Spec => []AutoNeverRefuses
<1>1. IInv => AutoNeverRefuses
  BY DEF IInv
<1> QED BY <1>1, Invariance, PTL

(* supports_backend answers for every count of fields from one to the      *)
(* parser's limit, though it is asked before there is one.                 *)
THEOREM ProbesAgree == Spec => []ProbeAgrees
<1>1. IInv => ProbeAgrees
  BY DEF IInv
<1> QED BY <1>1, Invariance, PTL

=============================================================================
