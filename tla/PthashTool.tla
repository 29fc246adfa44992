----------------------------- MODULE PthashTool -----------------------------
(***************************************************************************)
(* string_bimap_pthash_tool: a few command lines run one after another on  *)
(* one snapshot, argument by argument, with the readers of ValueReaders    *)
(* and a PthashBimap that is the set of its strings.  A call also says     *)
(* what the input files hold; a path is "here", or it cannot be opened.    *)
(***************************************************************************)
EXTENDS ValueReaders

CONSTANTS
    Calls,            \* records [lines, tokens, table]: command lines, the JSON file, the CSV file
    ColumnName(_),    \* the characters of an argument
    Number(_)         \* strtoull of an argument

VARIABLES call, files, todo, argi, mode, spec, paths, snapshot, answers

tool == <<call, files, todo, argi, mode, spec, paths, snapshot, answers>>
vars == <<tool, readers>>

NoSpec  == [json |-> "", csv |-> "", column |-> "", index |-> 0, header |-> TRUE]
NoPaths == [output |-> "", input |-> "", value |-> "", plain |-> FALSE]
NoFile  == [absent |-> TRUE]

Line0 == Head(todo)
Arg   == Line0[argi]
More  == argi <= Len(Line0)
Operand == Line0[argi + 1]

Answer(what) ==
    /\ answers' = Append(answers, what)
    /\ todo' = Tail(todo)
    /\ mode' = "main"
    /\ argi' = 1
    /\ UNCHANGED <<call, files, spec, paths>>

Failure == [exit |-> 1]

\* usage(), and an exception that main() reports.
Fails == Answer(Failure) /\ UNCHANGED <<snapshot, readers>>

-----------------------------------------------------------------------------

Commands == {"build", "dump", "stats", "lookup"}

Main ==
    /\ mode = "main" /\ todo # <<>>
    /\ IF More /\ Arg \in Commands
       THEN /\ mode' = (IF Arg = "build" THEN "build" ELSE "query")
            /\ argi' = 2 /\ spec' = NoSpec /\ paths' = NoPaths
            /\ UNCHANGED <<call, files, todo, snapshot, answers, readers>>
       ELSE Fails

\* require_arg with no argument left.
OperandMissing ==
    /\ mode # "main" /\ More /\ argi = Len(Line0)
    /\ \/ mode = "build" /\ Arg = "--output"
       \/ mode = "input" /\ Arg \in {"--json-array-file", "--csv-file", "--csv-column", "--csv-index"}
       \/ mode = "query" /\ (Arg = "--input" \/ (Arg = "--value" /\ Line0[1] = "lookup"))
    /\ Fails

BuildOutput ==
    /\ mode = "build" /\ More /\ Arg = "--output" /\ argi < Len(Line0)
    /\ paths' = [paths EXCEPT !.output = Operand] /\ argi' = argi + 2
    /\ UNCHANGED <<call, files, todo, mode, spec, snapshot, answers, readers>>

\* spec = parse_input_spec(i, argc, argv): what an earlier call of it read is gone.
BuildInput ==
    /\ mode = "build" /\ More /\ Arg # "--output"
    /\ mode' = "input" /\ spec' = NoSpec
    /\ UNCHANGED <<call, files, todo, argi, paths, snapshot, answers, readers>>

\* One option of parse_input_spec.
InputOption ==
    /\ mode = "input" /\ More
    /\ \/ /\ Arg = "--csv-no-header" /\ argi' = argi + 1
          /\ spec' = [spec EXCEPT !.header = FALSE]
       \/ /\ argi < Len(Line0) /\ argi' = argi + 2
          /\ \/ Arg = "--json-array-file" /\ spec' = [spec EXCEPT !.json = Operand]
             \/ Arg = "--csv-file"        /\ spec' = [spec EXCEPT !.csv = Operand]
             \/ Arg = "--csv-column"      /\ spec' = [spec EXCEPT !.column = Operand]
             \/ Arg = "--csv-index"       /\ spec' = [spec EXCEPT !.index = Number(Operand)]
    /\ UNCHANGED <<call, files, todo, mode, paths, snapshot, answers, readers>>

InputFlags == {"--json-array-file", "--csv-file", "--csv-column", "--csv-index", "--csv-no-header"}

\* Mutant: the argument that ended the options is not given back.
InputEndsPast ==
    /\ mode = "input"
    /\ More => Arg \notin InputFlags
    /\ mode' = "build"
    /\ argi' = argi + 1
    /\ UNCHANGED <<call, files, todo, spec, paths, snapshot, answers, readers>>

\* Any other argument is given back (--i), and the loop of command_build takes the next (++i).
InputEnds ==
    /\ mode = "input"
    /\ More => Arg \notin InputFlags
    /\ mode' = "build"
    /\ argi' = (IF More THEN argi - 1 ELSE argi) + 1
    /\ UNCHANGED <<call, files, todo, spec, paths, snapshot, answers, readers>>

Table ==
    [rows   |-> call.table.rows, return |-> call.table.return, header |-> spec.header,
     name   |-> IF spec.column = "" THEN NoName ELSE ColumnName(spec.column),
     index  |-> spec.index + 1]

\* build_from_spec: a JSON file goes before a CSV file.
BuildReads ==
    /\ mode = "build" /\ ~More
    /\ paths.output # ""
    /\ \/ spec.json = "here" /\ OpenJson(call.tokens, files.json)
       \/ spec.json = "" /\ spec.csv = "here" /\ OpenCsv(Table, files.csv)
    /\ mode' = "reading"
    /\ UNCHANGED <<call, files, todo, argi, spec, paths, snapshot, answers>>

BuildRefuses ==
    /\ mode = "build" /\ ~More
    /\ paths.output = "" \/ (IF spec.json # "" THEN spec.json ELSE spec.csv) # "here"
    /\ Fails

Reads == mode = "reading" /\ ReadersStep /\ UNCHANGED tool

\* from_json_array, from_csv and save: repeated and empty strings are dropped.
BuildSaves ==
    /\ mode = "reading" /\ outcome = "read"
    /\ paths.output = "here"
    /\ snapshot' = [strings |-> ToSet(values) \ {<<>>}]
    /\ Answer([exit |-> 0, size |-> Cardinality(ToSet(values) \ {<<>>})])
    /\ UNCHANGED readers

BuildThrows ==
    /\ mode = "reading"
    /\ outcome = "error" \/ (outcome = "read" /\ paths.output # "here")
    /\ Fails

-----------------------------------------------------------------------------
(* command_dump, command_stats, command_lookup *)

QueryOption ==
    /\ mode = "query" /\ More
    /\ \/ /\ Arg = "--input" /\ argi < Len(Line0) /\ argi' = argi + 2
          /\ paths' = [paths EXCEPT !.input = Operand]
       \/ /\ Arg = "--value" /\ Line0[1] = "lookup" /\ argi < Len(Line0) /\ argi' = argi + 2
          /\ paths' = [paths EXCEPT !.value = Operand]
       \/ /\ Arg = "--values-only" /\ Line0[1] = "dump" /\ argi' = argi + 1
          /\ paths' = [paths EXCEPT !.plain = TRUE]
    /\ UNCHANGED <<call, files, todo, mode, spec, snapshot, answers, readers>>

QueryFlags == {"--input"} \cup (IF Line0[1] = "lookup" THEN {"--value"} ELSE {})
                          \cup (IF Line0[1] = "dump" THEN {"--values-only"} ELSE {})

QueryUsage ==
    /\ mode = "query" /\ More /\ Arg \notin QueryFlags
    /\ Fails

\* The snapshot a query may read.
Loads ==
    /\ mode = "query" /\ ~More
    /\ paths.input # "" /\ (Line0[1] = "lookup" => paths.value # "")
    /\ paths.input = "here" /\ snapshot # NoFile

QueryRefuses ==
    /\ mode = "query" /\ ~More
    /\ ~Loads
    /\ Fails

QueryAnswers ==
    /\ Loads
    /\ Answer(CASE Line0[1] = "dump"   -> [exit |-> 0, strings |-> snapshot.strings, plain |-> paths.plain]
                [] Line0[1] = "stats"  -> [exit |-> 0, size |-> Cardinality(snapshot.strings)]
                [] Line0[1] = "lookup" -> [exit |-> 0, found |-> ColumnName(paths.value) \in snapshot.strings])
    /\ UNCHANGED <<snapshot, readers>>

-----------------------------------------------------------------------------

Init ==
    /\ call \in Calls
    /\ files = [json |-> CharsOf(call.tokens), csv |-> LinesOf(call.table)]
    /\ todo = call.lines
    /\ argi = 1 /\ mode = "main" /\ spec = NoSpec /\ paths = NoPaths
    /\ snapshot = NoFile
    /\ answers = <<>>
    /\ ReadersIdle

Next ==
    \/ Main \/ OperandMissing
    \/ BuildOutput \/ BuildInput \/ InputOption \/ InputEnds
    \/ BuildReads \/ BuildRefuses \/ Reads \/ BuildSaves \/ BuildThrows
    \/ QueryOption \/ QueryUsage \/ QueryRefuses \/ QueryAnswers

\* One thread, which runs on by itself and waits for nobody.
Spec == Init /\ [][Next]_vars /\ WF_vars(Next)

-----------------------------------------------------------------------------
(* What the usage text promises, from the command lines themselves.        *)

Option(line, flag) ==
    LET at == {k \in 2 .. Len(line) - 1 : line[k] = flag}
    IN  IF at = {} THEN "" ELSE line[Max(at) + 1]

\* Every argument is an option of its command with its operand, and build finds its
\* input options side by side.
Orderly(line) ==
    LET takes == CASE line[1] = "build"  -> (InputFlags \ {"--csv-no-header"}) \cup {"--output"}
                   [] line[1] = "lookup" -> {"--input", "--value"}
                   [] OTHER              -> {"--input"}
        bare  == CASE line[1] = "build" -> {"--csv-no-header"}
                   [] line[1] = "dump"  -> {"--values-only"}
                   [] OTHER             -> {}
        heads == {k \in 2 .. Len(line) : line[k - 1] \notin takes}
        input == {k \in heads : line[k] \in InputFlags}
    IN  /\ line # <<>> /\ line[1] \in Commands
        /\ Last(line) \notin takes
        /\ \A k \in heads : line[k] \in takes \cup bare
        /\ \A j, k \in input : \A m \in heads : j < m /\ m < k => m \in input

\* The lists of strings, at most one, that a build line reads.
Input(line) ==
    LET json   == Option(line, "--json-array-file")
        column == Option(line, "--csv-column")
        table  == [call.table EXCEPT !.header = "--csv-no-header" \notin ToSet(line),
                                     !.name   = IF column = "" THEN NoName ELSE ColumnName(column),
                                     !.index  = Number(Option(line, "--csv-index")) + 1]
    IN  IF json = "here" THEN JsonMeaning(call.tokens)
        ELSE IF json = "" /\ Option(line, "--csv-file") = "here" THEN CsvMeaning(table)
        ELSE {}

\* The snapshot and the answers after one more line.
Promised(so_far, line) ==
    LET strings == UNION {ToSet(list) \ {<<>>} : list \in Input(line)}
        held    == so_far.snapshot
        Told(answer) == [so_far EXCEPT !.answers = Append(@, answer)]
    IN  CASE line # <<>> /\ line[1] = "build" /\ Option(line, "--output") = "here" /\ Input(line) # {} ->
                 [snapshot |-> {strings},
                  answers  |-> Append(so_far.answers, [exit |-> 0, size |-> Cardinality(strings)])]
          [] line # <<>> /\ line[1] # "build" /\ Option(line, "--input") = "here" /\ held # {}
                         /\ (line[1] = "lookup" => Option(line, "--value") # "") ->
                 Told(CASE line[1] = "dump"   -> [exit |-> 0, strings |-> UNION held,
                                                  plain |-> "--values-only" \in ToSet(line)]
                        [] line[1] = "stats"  -> [exit |-> 0, size |-> Cardinality(UNION held)]
                        [] line[1] = "lookup" -> [exit |-> 0, found |-> ColumnName(Option(line, "--value")) \in UNION held])
          [] OTHER -> Told(Failure)

Shown(answer) ==
    IF "strings" \in DOMAIN answer THEN [answer EXCEPT !.strings = {CodePoints(s) : s \in @}] ELSE answer

\* Command lines with known options all end, in their order, with what the usage text
\* says: build keeps exactly the strings of the array or of the column its options
\* name, dump, stats and lookup answer from the last snapshot that was built, and
\* whatever cannot be read or written is an error that leaves the snapshot alone.
OrderlyCallsAreAnswered ==
    (\A n \in DOMAIN call.lines : Orderly(call.lines[n])) =>
        <>(/\ todo = <<>>
           /\ [n \in DOMAIN answers |-> Shown(answers[n])] =
                  FoldLeft(Promised, [snapshot |-> {}, answers |-> <<>>], call.lines).answers)
=============================================================================
