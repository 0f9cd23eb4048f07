---------------------------- MODULE DelimitedFiles ----------------------------
(* Official files as delimited text: the reader of a whole file and the     *)
(* reader of a stream that arrives in chunks cut anywhere.  Characters are  *)
(* of six kinds.                                                            *)
EXTENDS Naturals, Sequences, SequencesExt

CONSTANTS
    Contents,     \* the files to read: sequences of characters
    ChunkSize     \* bound: characters of a chunk

ASSUME FilesAssumption == ChunkSize \in Nat \ {0} /\ \A text \in Contents : text \in Seq(ToSet(text))

VARIABLES
    content,  \* the file
    position, \* characters read
    reader    \* the stream reader: [row, field, quoted, pending, rows, failed]

fileVars == <<content, position, reader>>

Quote == "quote"  Comma == "comma"  NewLine == "newline"  Return == "return"  Blank == "blank"

NewReader == [row |-> <<>>, field |-> <<>>, quoted |-> FALSE, skip |-> FALSE, pending |-> FALSE,
              rows |-> <<>>, failed |-> FALSE]
FilesInit == content \in Contents /\ position = 0 /\ reader = NewReader

Written(s, char) == [s EXCEPT !.field = Append(@, char)]
FinishField(s) == [s EXCEPT !.row = Append(@, s.field), !.field = <<>>]
White == {Blank, NewLine, Return}
Says(row) == \E i \in DOMAIN row : ToSet(row[i]) \ White # {}
FinishRow(s) ==
    LET row == FinishField(s).row
    IN [s EXCEPT !.field = <<>>, !.row = <<>>, !.rows = IF Says(row) THEN Append(@, row) ELSE @]
Rest(s) == IF s.field = <<>> /\ s.row = <<>> THEN s ELSE FinishRow(s)

(* Outside of quotes the two readers differ in one thing: the stream opens  *)
(* quotes only at the start of a field.                                     *)
Plain(s, char, opens) ==
    CASE char = Quote /\ opens -> [s EXCEPT !.quoted = TRUE]
      [] char = Comma -> FinishField(s)
      [] char = NewLine -> FinishRow(s)
      [] char = Return -> s
      [] OTHER -> Written(s, char)

(* Inside of quotes a doubled quote is one, and skips the second.           *)
Doubled(s, text, i) == i < Len(text) /\ text[i + 1] = Quote
Quoted(s, text, i) ==
    IF text[i] # Quote THEN Written(s, text[i])
    ELSE IF Doubled(s, text, i) THEN [Written(s, Quote) EXCEPT !.skip = TRUE]
    ELSE [s EXCEPT !.quoted = FALSE]

ReadWhole(s, text, i) ==
    IF s.skip THEN [s EXCEPT !.skip = FALSE]
    ELSE IF s.quoted THEN Quoted(s, text, i)
    ELSE Plain(s, text[i], TRUE)
ParseCsv(text) ==
    LET read[i \in 0..Len(text)] == IF i = 0 THEN NewReader ELSE ReadWhole(read[i - 1], text, i)
    IN Rest(read[Len(text)]).rows

(* A quote that ends a chunk may be the first half of a doubled one; the    *)
(* slip below takes it for the end of the field.                            *)
Resolved(s, char) == IF s.pending /\ char # Quote THEN [s EXCEPT !.quoted = FALSE, !.pending = FALSE] ELSE s
SlipParted(s, text, i) == Quoted(s, text, i)
Parted(s, text, i) ==
    IF text[i] = Quote /\ i = Len(text) THEN [s EXCEPT !.pending = TRUE] ELSE Quoted(s, text, i)
ReadPart(before, text, i) ==
    LET s == Resolved(before, text[i])
    IN IF s.skip THEN [s EXCEPT !.skip = FALSE]
       ELSE IF s.pending THEN [Written(s, Quote) EXCEPT !.pending = FALSE]
       ELSE IF s.quoted THEN Parted(s, text, i)
       ELSE Plain(s, text[i], s.field = <<>>)
ReadChunk(before, text) ==
    LET read[i \in 0..Len(text)] == IF i = 0 THEN before ELSE ReadPart(read[i - 1], text, i)
    IN read[Len(text)]
EndStream(s) == IF s.quoted /\ ~s.pending THEN [s EXCEPT !.failed = TRUE] ELSE [Rest(s) EXCEPT !.quoted = FALSE, !.pending = FALSE]

ParseCsvStream ==
    /\ position < Len(content)
    /\ \E n \in 1..ChunkSize :
          /\ position + n <= Len(content)
          /\ position' = position + n
          /\ LET read == ReadChunk(reader, SubSeq(content, position + 1, position + n))
             IN reader' = IF position + n = Len(content) THEN EndStream(read) ELSE read
    /\ UNCHANGED content

FilesNext == ParseCsvStream

----------------------------------------------------------------------------
(* Quotes open a field, close it, or are doubled inside of it; nothing but  *)
(* returns stands between a quote that closes and the end of the field.     *)
Expecting(s, char) ==
    IF s = "bad" THEN s
    ELSE IF s = "quoted" THEN IF char = Quote THEN "closed" ELSE s
    ELSE IF char = Quote THEN IF s \in {"start", "closed"} THEN "quoted" ELSE "bad"
    ELSE IF char \in {Comma, NewLine} THEN "start"
    ELSE IF char = Return THEN IF s = "closed" THEN "ended" ELSE s
    ELSE IF s \in {"closed", "ended"} THEN "bad" ELSE "plain"
WellFormed(text) ==
    LET state[i \in 0..Len(text)] == IF i = 0 THEN "start" ELSE Expecting(state[i - 1], text[i])
    IN state[Len(text)] \notin {"quoted", "bad"}

(* "Quoted fields, embedded newlines and escaped quotes work across chunk   *)
(* boundaries": wherever the chunks were cut, a stream reads as it would in *)
(* one piece, and a well-formed file as the reader of whole files reads it. *)
ChunksReadAsWhole ==
    position = Len(content) /\ content # <<>> =>
        LET whole == EndStream(ReadChunk(NewReader, content))
        IN /\ reader.failed = whole.failed
           /\ ~reader.failed => reader.rows = whole.rows
           /\ WellFormed(content) => ~reader.failed /\ reader.rows = ParseCsv(content)
=============================================================================
