---------------------------- MODULE ValueReaders ----------------------------
(***************************************************************************)
(* load_values_from_json_array and load_values_from_csv, which read the    *)
(* strings of a PthashBimap from a stream, character by character.  source *)
(* says what the stream was written from: the tokens of a JSON text, each  *)
(* a record [kind, chars, text], or a table                                *)
(* [rows, return, header, name, index] with the arguments of the call; a   *)
(* row is a sequence of fields [chars, text], text as it is meant, trimmed.*)
(*                                                                         *)
(* A character is its byte; the four digits of a \u escape are one         *)
(* character Quad(n), and a key "values" is the one character ValuesKey.   *)
(* Of the escapes \b \f \n \r \t only \n is kept.                          *)
(***************************************************************************)
EXTENDS Integers, Sequences, FiniteSets, SequencesExt, FiniteSetsExt

VARIABLES source, rest, state, values, outcome

readers == <<source, rest, state, values, outcome>>

Newline      == 10
Return       == 13
Space        == 32
Quote        == 34
Comma        == 44
Slash        == 47
Colon        == 58
OpenBracket  == 91
Backslash    == 92
CloseBracket == 93
LetterN      == 110
LetterU      == 117
OpenBrace    == 123
CloseBrace   == 125
ValuesKey    == 1000

Quad(n)       == 10000 + n
IsQuad(ch)    == ch >= 10000
QuadValue(ch) == ch - 10000

Blank(ch) == ch <= Space

-----------------------------------------------------------------------------
(* UTF-8 *)

Utf8(cp) ==
    LET Tail6(n) == 128 + (n % 64)
    IN  IF cp <= 127 THEN <<cp>>
        ELSE IF cp <= 2047 THEN <<192 + cp \div 64, Tail6(cp)>>
        ELSE IF cp <= 65535 THEN <<224 + cp \div 4096, Tail6(cp \div 64), Tail6(cp)>>
        ELSE <<240 + cp \div 262144, Tail6(cp \div 4096), Tail6(cp \div 64), Tail6(cp)>>

IsHigh(n) == n \in 55296 .. 56319
IsLow(n)  == n \in 56320 .. 57343

\* Mutant: the plane is forgotten.
CombinedLow(high, low) == 1024 * (high - 55296) + (low - 56320)

Combined(high, low) == 65536 + 1024 * (high - 55296) + (low - 56320)

-----------------------------------------------------------------------------
(* parse_json_string_array: what a character does in a state.  The result is *)
(* the set of states after it, empty where the code throws.                  *)

JsonStart == [mode |-> "start", object |-> FALSE, string |-> <<>>, high |-> 0, closed |-> FALSE]

SpaceModes == {"start", "first", "element", "after", "field", "colon", "bracket", "object end", "last", "tail"}
Escapes == {Quote, Backslash, Slash, LetterN}
Unescaped(ch) == IF ch = LetterN THEN Newline ELSE ch

\* parse_json_string, between the quotes.
InString(s, ch) ==
    LET Add(cp) == [s EXCEPT !.mode = "string", !.string = @ \o Utf8(cp)]
        Go(m)   == [s EXCEPT !.mode = m]
    IN  CASE s.mode = "string" /\ ch = Quote     -> {Go(IF s.object /\ ~s.closed THEN "colon" ELSE "after")}
          [] s.mode = "string" /\ ch = Backslash -> {Go("escape")}
          [] s.mode = "string" /\ ch \notin {Quote, Backslash} ->
                 {t \in {[s EXCEPT !.string = Append(@, ch)]} : ch >= Space}
          [] s.mode = "escape" -> {t \in {Add(Unescaped(ch))} : ch \in Escapes}
                                  \cup {t \in {Go("quad")} : ch = LetterU}
          [] s.mode = "quad"   -> IF ~IsQuad(ch) \/ IsLow(QuadValue(ch)) THEN {}
                                  ELSE IF IsHigh(QuadValue(ch))
                                  THEN {[s EXCEPT !.mode = "low escape", !.high = QuadValue(ch)]}
                                  ELSE {Add(QuadValue(ch))}
          [] s.mode = "low escape" -> {t \in {Go("low letter")} : ch = Backslash}
          [] s.mode = "low letter" -> {t \in {Go("low quad")} : ch = LetterU}
          [] s.mode = "low quad"   ->
                 {t \in {Add(Combined(s.high, QuadValue(ch)))} : IsQuad(ch) /\ IsLow(QuadValue(ch))}
          [] OTHER -> {}

\* The array and the object around it.
Outside(s, ch) ==
    LET Go(m) == [s EXCEPT !.mode = m]
        Moves == {<<"start", OpenBracket, "first">>,       <<"start", OpenBrace, "field">>,
                  <<"first", CloseBracket, "array end">>,  <<"after", CloseBracket, "array end">>,
                  <<"after", Comma, "element">>,           <<"first", Quote, "string">>,
                  <<"element", Quote, "string">>,          <<"field", Quote, "string">>,
                  <<"colon", Colon, "bracket">>,           <<"object end", Comma, "last">>,
                  <<"object end", CloseBrace, "tail">>,    <<"last", CloseBrace, "tail">>}
    IN  {Go(m[3]) : m \in {n \in Moves : n[1] = s.mode /\ n[2] = ch}}
        \cup {t \in {[s EXCEPT !.mode = "first", !.closed = TRUE]} :
                 s.mode = "bracket" /\ ch = OpenBracket /\ s.string = <<ValuesKey>>}
        \cup {t \in {s} : s.mode \in SpaceModes /\ Blank(ch)}

\* A string begins empty, an object is remembered, and after its array an object
\* still has its end to come.
Settled(s, t) ==
    [t EXCEPT !.string = IF t.mode = "string" /\ s.mode \in {"first", "element", "field"} THEN <<>> ELSE @,
              !.object = @ \/ t.mode = "field",
              !.mode   = IF @ # "array end" THEN @ ELSE IF s.object THEN "object end" ELSE "tail"]

JsonMoves(s, ch) == {Settled(s, t) : t \in InString(s, ch) \cup Outside(s, ch)}

Json == "tokens" \in DOMAIN source

JsonRead ==
    /\ Json /\ outcome = "reading" /\ rest # <<>>
    /\ \E t \in JsonMoves(state, Head(rest)) :
          /\ state' = t
          /\ values' = IF t.mode = "after" /\ state.mode = "string" THEN Append(values, state.string) ELSE values
    /\ rest' = Tail(rest)
    /\ UNCHANGED <<source, outcome>>

JsonThrows ==
    /\ Json /\ outcome = "reading"
    /\ IF rest = <<>> THEN state.mode # "tail" ELSE JsonMoves(state, Head(rest)) = {}
    /\ outcome' = "error"
    /\ UNCHANGED <<source, rest, state, values>>

JsonReturns ==
    /\ Json /\ outcome = "reading"
    /\ rest = <<>> /\ state.mode = "tail"
    /\ outcome' = "read"
    /\ UNCHANGED <<source, rest, state, values>>

-----------------------------------------------------------------------------
(* parse_csv_column *)

Trim(s) ==
    LET ink == {i \in DOMAIN s : ~Blank(s[i])}
    IN  IF ink = {} THEN <<>> ELSE SubSeq(s, Min(ink), Max(ink))

\* No column name, and the text of a field whose quote is not closed.
NoName   == <<0>>
Unclosed == <<1>>

\* blank: nothing of the current line has been seen.
LineStart(first, index) ==
    [first |-> first, index |-> index, blank |-> TRUE, fields |-> <<>>, current |-> <<>>, quoted |-> FALSE]

Put(s, ch) == [s EXCEPT !.current = Append(@, ch), !.blank = FALSE]

\* parse_csv_row: what a character does to the row; pair says that a quote follows.
RowAfter(s, ch, pair) ==
    CASE s.quoted /\ ch = Quote /\ pair  -> Put(s, Quote)
      [] s.quoted /\ ch = Quote /\ ~pair -> [s EXCEPT !.quoted = FALSE]
      [] ~s.quoted /\ ch = Quote         -> [s EXCEPT !.quoted = TRUE, !.blank = FALSE]
      [] ~s.quoted /\ ch = Comma         ->
             [s EXCEPT !.fields = Append(@, s.current), !.current = <<>>, !.blank = FALSE]
      [] OTHER                           -> Put(s, ch)

\* Mutant: the second quote of a pair is not skipped.
TakenOne(s, ch, pair) == 1

Taken(s, ch, pair) == IF s.quoted /\ ch = Quote /\ pair THEN 2 ELSE 1

LineOver  == rest # <<>> => Head(rest) = Newline
Follows(ch) == Len(rest) > 1 /\ rest[2] = ch
Fields    == Append(state.fields, state.current)
InHeader  == state.first /\ source.header
Named     == {i \in DOMAIN Fields : Trim(Fields[i]) = source.name}
AfterLine == IF rest = <<>> THEN <<>> ELSE Tail(rest)

\* A Return that ends the line is dropped first, in quotes or not.
CsvChar ==
    /\ ~Json /\ outcome = "reading" /\ ~LineOver
    /\ IF Head(rest) = Return /\ (Len(rest) = 1 \/ Follows(Newline))
       THEN rest' = Tail(rest) /\ state' = state
       ELSE /\ rest' = SubSeq(rest, 1 + Taken(state, Head(rest), Follows(Quote)), Len(rest))
            /\ state' = RowAfter(state, Head(rest), Follows(Quote))
    /\ UNCHANGED <<source, values, outcome>>

CsvSkips ==
    /\ ~Json /\ outcome = "reading" /\ LineOver
    /\ state.blank /\ rest # <<>>
    /\ rest' = Tail(rest)
    /\ UNCHANGED <<source, state, values, outcome>>

CsvHeader ==
    /\ ~Json /\ outcome = "reading" /\ LineOver
    /\ ~state.blank /\ ~state.quoted /\ InHeader
    /\ IF source.name # NoName THEN Named # {} ELSE state.index <= Len(Fields)
    /\ state' = LineStart(FALSE, IF source.name # NoName THEN Min(Named) ELSE state.index)
    /\ rest' = AfterLine
    /\ UNCHANGED <<source, values, outcome>>

CsvRow ==
    /\ ~Json /\ outcome = "reading" /\ LineOver
    /\ ~state.blank /\ ~state.quoted /\ ~InHeader
    /\ state.index <= Len(Fields)
    /\ LET value == Trim(Fields[state.index])
       IN  values' = IF value = <<>> THEN values ELSE Append(values, value)
    /\ state' = LineStart(FALSE, state.index)
    /\ rest' = AfterLine
    /\ UNCHANGED <<source, outcome>>

CsvThrows ==
    /\ ~Json /\ outcome = "reading" /\ LineOver
    /\ ~state.blank
    /\ \/ state.quoted
       \/ InHeader /\ source.name # NoName /\ Named = {}
       \/ ~(InHeader /\ source.name # NoName) /\ state.index > Len(Fields)
    /\ outcome' = "error"
    /\ UNCHANGED <<source, rest, state, values>>

CsvReturns ==
    /\ ~Json /\ outcome = "reading"
    /\ rest = <<>> /\ state.blank
    /\ outcome' = "read"
    /\ UNCHANGED <<source, rest, state, values>>

-----------------------------------------------------------------------------

\* What the stream holds: the characters of the tokens, or those of the table.
CharsOf(tokens) == FlattenSeq([i \in DOMAIN tokens |-> tokens[i].chars])

LineOf(row) ==
    FlattenSeq([i \in DOMAIN row |-> (IF i = 1 THEN <<>> ELSE <<Comma>>) \o row[i].chars])

LinesOf(table) ==
    FlattenSeq([i \in DOMAIN table.rows |->
        (IF i = 1 THEN <<>> ELSE <<Newline>>) \o LineOf(table.rows[i])
            \o (IF table.return THEN <<Return>> ELSE <<>>)])

OpenJson(tokens, chars) ==
    /\ source' = [tokens |-> tokens] /\ rest' = chars
    /\ state' = JsonStart /\ values' = <<>> /\ outcome' = "reading"

OpenCsv(table, chars) ==
    /\ source' = table /\ rest' = chars
    /\ state' = LineStart(TRUE, table.index) /\ values' = <<>> /\ outcome' = "reading"

ReadersIdle ==
    source = [tokens |-> <<>>] /\ rest = <<>> /\ state = JsonStart /\ values = <<>> /\ outcome = "idle"

ReadersStep ==
    \/ JsonRead \/ JsonThrows \/ JsonReturns
    \/ CsvChar \/ CsvSkips \/ CsvHeader \/ CsvRow \/ CsvThrows \/ CsvReturns

-----------------------------------------------------------------------------
(* What the readers promise, from the tokens and fields of the source.     *)

\* The code points of UTF-8 bytes, 0 - 1 for a sequence that is no character
\* or not the shortest one.
CodePoints(bytes) ==
    LET continues == 128 .. 191
        starts == SelectSeq([i \in DOMAIN bytes |-> i], LAMBDA i : bytes[i] \notin continues)
        ends   == [k \in DOMAIN starts |-> IF k = Len(starts) THEN Len(bytes) ELSE starts[k + 1] - 1]
        lead   == <<0, 192, 224, 240>>
        range  == <<0 .. 127, 128 .. 2047, 2048 .. 65535, 65536 .. 1114111>>
        Char(b) == LET cp == FoldLeft(LAMBDA acc, x : 64 * acc + x - 128, b[1] - lead[Len(b)], Tail(b))
                   IN  IF cp \in range[Len(b)] THEN cp ELSE 0 - 1
    IN  [k \in DOMAIN starts |-> Char(SubSeq(bytes, starts[k], ends[k]))]

Kinds(tokens) == [i \in DOMAIN tokens |-> tokens[i].kind]

\* The kinds of tokens of an array of n strings, as it is and in its object.
ArrayKinds(n) ==
    <<"[">> \o [i \in 1 .. (IF n = 0 THEN 0 ELSE 2 * n - 1) |-> IF i % 2 = 1 THEN "string" ELSE ","] \o <<"]">>

TextKinds(n) ==
    {ArrayKinds(n)} \cup {<<"{", "values", ":">> \o ArrayKinds(n) \o end : end \in {<<"}">>, <<",", "}">>}}

\* The list of strings a text is the array of; there is at most one.
JsonMeaning(tokens) ==
    LET ink  == SelectSeq(tokens, LAMBDA t : t.kind # "blank")
        strs == SelectSeq(ink, LAMBDA t : t.kind = "string")
    IN  IF Kinds(ink) \in TextKinds(Len(strs)) THEN {[n \in DOMAIN strs |-> strs[n].text]} ELSE {}

\* load_values_from_json_array takes a text exactly when it is one array of strings,
\* bare or as the only field "values" of an object (a comma may follow the array
\* there), with blanks only between tokens, and answers the strings in order,
\* escapes and surrogate pairs decoded, as UTF-8: no edit of a text, and no half of
\* a surrogate pair, is taken for other strings.
JsonReaderIsExact ==
    Json /\ outcome \in {"read", "error"} =>
        JsonMeaning(source.tokens) =
            IF outcome = "read" THEN {[n \in DOMAIN values |-> CodePoints(values[n])]} ELSE {}

\* The strings a table has in the asked column, or the errors it has.
CsvMeaning(table) ==
    LET rows   == SelectSeq(table.rows, LAMBDA row : LineOf(row) # <<>>)
        header == table.header /\ rows # <<>>
        named  == header /\ table.name # NoName
        data   == IF header THEN Tail(rows) ELSE rows
        hits   == {i \in DOMAIN rows[1] : rows[1][i].text = table.name}
        column == IF named THEN Min(hits) ELSE table.index
        sound  == /\ \A r \in DOMAIN rows : \A i \in DOMAIN rows[r] : rows[r][i].text # Unclosed
                  /\ named => hits # {}
                  /\ \A r \in DOMAIN rows : (r = 1 /\ named) \/ column <= Len(rows[r])
    IN  IF sound
        THEN {SelectSeq([r \in DOMAIN data |-> data[r][column].text], LAMBDA v : v # <<>>)}
        ELSE {}

\* load_values_from_csv answers the trimmed non-empty fields of the asked column, in
\* the order of the rows, header and empty lines left out; it throws exactly when a
\* field is not closed, the named column is not in the header, or a row that is
\* looked at has no such column.
CsvColumnIsExact ==
    ~Json /\ outcome \in {"read", "error"} =>
        CsvMeaning(source) = IF outcome = "read" THEN {values} ELSE {}
=============================================================================
