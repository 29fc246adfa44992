---------------------------- MODULE MCPthashTool -----------------------------
(***************************************************************************)
(* The texts TLC reads: JSON texts with strings at the edges of UTF-8 and  *)
(* of the surrogates, and every text one edit away from an array of up to  *)
(* two strings; CSV tables with quoted, blank and missing fields; and      *)
(* command lines of every shape on one text and one table.                 *)
(***************************************************************************)
EXTENDS PthashTool

Mark(k, ch) == [kind |-> k, chars |-> <<ch>>, text |-> <<>>]
Marks == {Mark("[", OpenBracket), Mark("]", CloseBracket), Mark("{", OpenBrace),
          Mark("}", CloseBrace), Mark(",", Comma), Mark(":", Colon)}
The(k) == CHOOSE t \in Marks : t.kind = k

Blanks  == [kind |-> "blank", chars |-> <<Newline, Space>>, text |-> <<>>]
Key     == [kind |-> "values", chars |-> <<Quote, ValuesKey, Quote>>, text |-> <<>>]
Str(inside, text) == [kind |-> "string", chars |-> <<Quote>> \o inside \o <<Quote>>, text |-> text]
Bad(chars)        == [kind |-> "bad", chars |-> chars, text |-> <<>>]

Esc(n)  == <<Backslash, LetterU, Quad(n)>>
LetterA == Str(<<97>>, <<97>>)
Plain   == {Str(<<>>, <<>>), LetterA, Str(<<CloseBracket, Comma>>, <<CloseBracket, Comma>>),
            Str(<<195, 169>>, <<233>>), Str(<<Backslash, LetterN>>, <<Newline>>),
            Str(<<Backslash, Quote, 97>>, <<Quote, 97>>), Str(<<Backslash, Backslash>>, <<Backslash>>)}
Escaped == {Str(Esc(n), <<n>>) : n \in {0, 127, 128, 2047, 2048, 55295, 57344, 65535}}
Pairs   == {Str(Esc(55296 + h) \o Esc(56320 + l), <<65536 + 1024 * h + l>>) : h, l \in {0, 1023}}
Broken  == {Bad(<<Quote, 97>>), Bad(<<Quote, Newline, Quote>>), Bad(<<Quote, Backslash, 97, Quote>>),
            Bad(<<Quote, Backslash, LetterU, 97, Quote>>), Bad(<<Quote>> \o Esc(55296) \o <<Quote>>),
            Bad(<<Quote>> \o Esc(56320) \o <<Quote>>), Bad(<<Quote>> \o Esc(55296) \o <<97, Quote>>),
            Bad(<<Quote>> \o Esc(55296) \o Esc(97) \o <<Quote>>),
            Bad(<<Quote>> \o Esc(56319) \o <<Backslash, LetterN, Quote>>)}

Array(strs) ==
    <<The("[")>> \o FlattenSeq([i \in DOMAIN strs |-> IF i = 1 THEN <<strs[i]>> ELSE <<The(","), strs[i]>>])
                \o <<The("]")>>
Object(strs) == <<The("{"), Key, The(":")>> \o Array(strs) \o <<The("}")>>
Spaced(ts)   == <<Blanks>> \o FlattenSeq([i \in DOMAIN ts |-> <<ts[i], Blanks>>])

Lists == {<<>>, <<LetterA>>} \cup {<<LetterA, t>> : t \in {LetterA, Str(Esc(2047), <<2047>>)}}
Texts == UNION {{Array(l), Object(l), Spaced(Array(l)), Spaced(Object(l))} : l \in Lists}

Edits(ts) ==
    {RemoveAt(ts, i) : i \in DOMAIN ts}
    \cup {ReplaceAt(ts, i, t) : i \in DOMAIN ts, t \in Marks}
    \cup {InsertAt(ts, i, t) : i \in 1 .. Len(ts) + 1, t \in {The(","), LetterA, Bad(<<97>>)}}

MCJsonSources ==
    Texts \cup UNION {Edits(ts) : ts \in {Array(l) : l \in Lists} \cup {Object(<<LetterA>>), Spaced(Object(<<>>))}}
    \cup UNION {{Array(<<t>>), Object(<<LetterA, t>>)} : t \in Plain \cup Escaped \cup Pairs \cup Broken}

CsvField(chars, text) == [chars |-> chars, text |-> text]
Name    == <<110>>
AnyField  == {CsvField(<<>>, <<>>), CsvField(<<97>>, <<97>>), CsvField(Name, Name), CsvField(<<Space, 110, Space>>, Name), CsvField(<<Space>>, <<>>),
            CsvField(<<Quote, Space, Quote, 97, Space, 98>>, <<97, Space, 98>>),
            CsvField(<<Quote, 97, Comma, Quote>>, <<97, Comma>>),
            CsvField(<<Quote, Quote, Quote, 98, Quote, Quote, Quote>>, <<Quote, 98, Quote>>)}
Few     == {CsvField(<<>>, <<>>), CsvField(Name, Name), CsvField(<<Quote, Quote, Quote, 98, Quote, Quote, Quote>>, <<Quote, 98, Quote>>)}
LetterField == CsvField(<<97>>, <<97>>)
NameField   == CsvField(Name, Name)
Open    == {CsvField(<<Quote, 97>>, Unclosed), CsvField(<<Quote, Quote, Quote>>, Unclosed)}

Rows    == {<<f, g>> : f \in Few, g \in AnyField} \cup {<<f>> : f \in AnyField \cup Open} \cup {<<>>}
FewRows == {<<f, g>> : f, g \in Few} \cup {<<NameField>>, <<>>}
Tables  == {<<>>} \cup {<<r>> : r \in Rows} \cup {<<r, s>> : r \in FewRows, s \in FewRows \cup {<<f>> : f \in Open}}
                \cup {<<r, s, t>> : r, s, t \in {<<>>, <<LetterField, NameField>>, <<NameField>>}}

MCColumnName(word) == IF word = "name" THEN Name ELSE <<97>>
MCNumber(word)     == IF word = "1" THEN 1 ELSE 0

Call(lines, tokens, rows, return) ==
    [lines |-> lines, tokens |-> tokens,
     table |-> [rows |-> rows, return |-> return, header |-> TRUE, name |-> NoName, index |-> 1]]

OutputHere == <<"--output", "here">>
CsvHere    == <<"--csv-file", "here">>
JsonHere   == <<"--json-array-file", "here">>

CsvOptions == {<<>>, <<"--csv-column", "name">>, <<"--csv-index", "1">>,
               <<"--csv-no-header">>, <<"--csv-index", "1", "--csv-no-header">>}

JsonTexts == {Call(<<<<"build">> \o JsonHere \o OutputHere>>, ts, <<>>, FALSE) : ts \in MCJsonSources}
CsvTables == {Call(<<<<"build">> \o OutputHere \o CsvHere \o o>>, <<>>, rows, return) :
                  o \in CsvOptions, rows \in Tables, return \in BOOLEAN}

Builds  == {<<"build">> \o OutputHere \o JsonHere, <<"build">> \o CsvHere \o JsonHere \o OutputHere,
            <<"build">> \o CsvHere \o <<"--csv-column", "name">> \o OutputHere,
            <<"build">> \o CsvHere \o <<"--csv-index", "1">>,
            <<"build", "--output", "gone">> \o JsonHere,
            <<"build", "--json-array-file", "gone">> \o OutputHere,
            <<"build">> \o OutputHere, <<"build", "--csv-column", "name">> \o OutputHere \o CsvHere,
            <<"build", "--csv-file">>, <<"build">> \o JsonHere \o <<"--output">>}
Queries == {<<"dump", "--input", "here">>, <<"dump", "--values-only", "--input", "here">>,
            <<"stats", "--input", "here">>, <<"stats", "--values-only">>, <<"dump">>,
            <<"lookup", "--input", "here", "--value", "name">>, <<"lookup", "--value", "a", "--input", "here">>,
            <<"lookup", "--input", "here">>, <<"dump", "--input", "gone">>, <<"lookup", "--value">>, <<"list">>, <<>>}

Sessions(lines) ==
    {Call(l, Array(<<LetterA, t>>), <<<<LetterField, NameField>>, <<NameField, f>>>>, FALSE) :
        l \in lines, t \in {LetterA, Str(Esc(2047), <<2047>>), Mark(",", Comma)}, f \in {LetterField, NameField}}

MCCalls ==
    JsonTexts \cup CsvTables
    \cup Sessions({<<b, q>> : b \in Builds, q \in Queries} \cup {<<b, c, q>> : b, c \in Builds, q \in Queries})
=============================================================================
