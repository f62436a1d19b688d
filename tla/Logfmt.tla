-------------------------------- MODULE Logfmt --------------------------------
(***************************************************************************)
(* core/logfmt-formatter.ts: a record as one line of key=value pairs, and  *)
(* the line read back.  A text is a sequence of characters: one of each    *)
(* kind that the code tells apart, the letters that escapes are made of,   *)
(* and "hex" for the four digits of an escaped control character.          *)
(***************************************************************************)
LOCAL INSTANCE Naturals
LOCAL INSTANCE SequencesExt
LOCAL INSTANCE TLC

Space == {" ", "newline"}
Bad == Space \cup {"quote", "=", "backslash", "control"}
Chars == Bad \cup {"a", "n", "u", "hex"}

ESCAPES == "quote" :> "quote" @@ "backslash" :> "backslash" @@ "newline" :> "n"

Escaped(char) ==
    IF char \in DOMAIN ESCAPES THEN <<"backslash", ESCAPES[char]>>
    ELSE IF char = "control" THEN <<"backslash", "u", "hex">> ELSE <<char>>

Quote(text) ==
    IF text # <<>> /\ \A i \in DOMAIN text : text[i] \notin Bad THEN text
    ELSE <<"quote">> \o FlattenSeq([i \in DOMAIN text |-> Escaped(text[i])]) \o <<"quote">>

Key(raw) ==
    IF raw = <<>> THEN <<"_">> ELSE [i \in DOMAIN raw |-> IF raw[i] \in Bad THEN "_" ELSE raw[i]]

\* A value is a text or an object; an object, to the depth of MAX_FLATTEN_DEPTH and
\* unless it is empty, is a pair for each entry. entries are <<key, value>>, in order.
TextValue(text) == [type |-> "text", is |-> text]
ObjectValue(entries) == [type |-> "object", is |-> entries]
Json == <<"a", "hex">>      \* what JSON makes of an object that is too deep

Pair(k, text) == k \o <<"=">> \o Quote(text)

RECURSIVE Flattened(_, _, _, _)
Flattened(prefix, value, depth, maxDepth) ==
    IF value.type = "text" THEN <<Pair(prefix, value.is)>>
    ELSE IF value.is = <<>> \/ depth >= maxDepth THEN <<Pair(prefix, Json)>>
    ELSE FlattenSeq([i \in DOMAIN value.is |->
            Flattened(prefix \o <<".">> \o Key(value.is[i][1]), value.is[i][2], depth + 1, maxDepth)])

\* The record's own fields go by one name each, here "level" and "message" for the four.
Reserved == {<<"level">>, <<"message">>}
MetaKey(raw) == IF Key(raw) \in Reserved THEN <<"meta", ".">> \o Key(raw) ELSE Key(raw)

Joined(pairs) == FoldLeft(LAMBDA line, p : IF line = <<>> THEN p ELSE line \o <<" ">> \o p, <<>>, pairs)

Format(record, maxDepth) ==
    Joined(<<Pair(<<"level">>, record.level), Pair(<<"message">>, record.message)>>
           \o FlattenSeq([i \in DOMAIN record.meta |->
                 Flattened(MetaKey(record.meta[i][1]), record.meta[i][2], 1, maxDepth)]))

-----------------------------------------------------------------------------
(* parseLogfmt() *)

\* The first place from i on where the line is over or its character is in stops.
Until(line, i, stops) ==
    CHOOSE j \in i..(Len(line) + 1) :
        /\ j = Len(line) + 1 \/ line[j] \in stops
        /\ \A k \in i..(j - 1) : line[k] \notin stops

\* Where the quoted text ends whose first character is at i, or 0 if it does not.
RECURSIVE Closing(_, _)
Closing(line, i) ==
    IF i > Len(line) THEN 0
    ELSE IF line[i] = "quote" THEN i
    ELSE IF line[i] = "backslash" THEN Closing(line, i + 2) ELSE Closing(line, i + 1)

UNESCAPES == "quote" :> "quote" @@ "backslash" :> "backslash" @@ "n" :> "newline"

RECURSIVE Unescaped(_)
Unescaped(text) ==
    IF text = <<>> THEN <<>>
    ELSE IF text[1] # "backslash" \/ Len(text) = 1 THEN <<text[1]>> \o Unescaped(Tail(text))
    ELSE IF Len(text) > 2 /\ SubSeq(text, 2, 3) = <<"u", "hex">>
         THEN <<"control">> \o Unescaped(SubSeq(text, 4, Len(text)))
    ELSE (IF text[2] \in DOMAIN UNESCAPES THEN <<UNESCAPES[text[2]]>> ELSE SubSeq(text, 1, 2))
         \o Unescaped(SubSeq(text, 3, Len(text)))

\* The pairs from the character at i on; of two with one key the last stays.
RECURSIVE PairsFrom(_, _)
PairsFrom(line, i) ==
    LET start == CHOOSE j \in i..(Len(line) + 1) :
                    /\ j = Len(line) + 1 \/ line[j] \notin Space \cup {"=", "quote"}
                    /\ \A k \in i..(j - 1) : line[k] \in Space \cup {"=", "quote"}
        end   == Until(line, start, Space \cup {"=", "quote"})
        k     == SubSeq(line, start, end - 1)
        close == IF end < Len(line) /\ line[end + 1] = "quote" THEN Closing(line, end + 2) ELSE 0
        run   == Until(line, end + 1, Space \cup {"quote"})
    IN  IF start > Len(line) THEN <<>>
        ELSE IF end > Len(line) \/ line[end] # "=" THEN PairsFrom(line, end) @@ (k :> <<>>)
        ELSE IF close # 0 THEN PairsFrom(line, close + 1) @@ (k :> Unescaped(SubSeq(line, end + 2, close - 1)))
        ELSE PairsFrom(line, run) @@ (k :> SubSeq(line, end + 1, run - 1))

ParseLogfmt(line) == PairsFrom(line, 1)

-----------------------------------------------------------------------------
(* Checks *)

\* Any text is read back as it was written, what looks like an escape in it too.
ASSUME TextsAreReadBack ==
    \A text \in BoundedSeq(Chars, 4) :
        ParseLogfmt(Pair(<<"a">>, text)) = (<<"a">> :> text)

\* "the output is always exactly one line", and the record's own fields are read back
\* from it whatever the keys and the values of its meta are; so are these, unless a
\* later key comes to be the same.
ASSUME FieldsAreReadBack ==
    \A raw \in BoundedSeq(Chars, 2) \cup Reserved, text \in BoundedSeq(Chars, 2), nested \in BOOLEAN :
        LET value  == IF nested THEN ObjectValue(<<<<raw, TextValue(text)>>>>) ELSE TextValue(text)
            record == [level |-> <<"a">>, message |-> text, meta |-> <<<<raw, value>>>>]
            line   == Format(record, 5)
            read   == ParseLogfmt(line)
            k      == IF nested THEN MetaKey(raw) \o <<".">> \o Key(raw) ELSE MetaKey(raw)
        IN  /\ \A i \in DOMAIN line : line[i] \notin {"newline", "control"}
            /\ read = (<<"level">> :> <<"a">>) @@ (<<"message">> :> text) @@ (k :> text)

\* What is nested too deep is one pair, and the line stays finite.
ASSUME DepthIsBounded ==
    \A maxDepth \in 1..3 :
        LET deep[n \in 0..4] == IF n = 0 THEN TextValue(<<"n">>)
                                ELSE ObjectValue(<<<<<<"u">>, deep[n - 1]>>>>)
            read == ParseLogfmt(Joined(Flattened(<<"a">>, deep[4], 1, maxDepth)))
        IN  read = ((<<"a">> \o FlattenSeq([i \in 1..(maxDepth - 1) |-> <<".", "u">>])) :> Json)
=============================================================================
