------------------------------- MODULE CsvRow -------------------------------
(***************************************************************************)
(* Reading a csv file: its header, then its rows one after the other, by   *)
(* PartitionCsvParser (the nodes) or TaxiTripCSVParser (the streaming      *)
(* engine).  The header says which column stands where; the partition      *)
(* parser gives up a file whose header lacks a column it needs, the taxi   *)
(* parser then takes the columns in the standard order.  The splitter of   *)
(* the in-memory engines is here to be compared with them.                 *)
(***************************************************************************)
EXTENDS CsvLine, CsvNumbers, CsvTime

CONSTANTS
    Parsers,        \* which of the two parsers may be at work
    Header,         \* the first line of each file
    FileRows,       \* the other lines each file may have
    Lower,          \* tolower on a token that is a name
    StampOf         \* what stands in a token that is a timestamp

ASSUME FilesAssumption ==
    /\ Parsers \subseteq {"partition", "taxi"}
    /\ DOMAIN FileRows = DOMAIN Header
    /\ \A f \in DOMAIN Header : Header[f] \in Seq(Token) /\ FileRows[f] \subseteq Seq(Token)
    /\ \A s \in DOMAIN StampOf : s \in Token /\ StampOf[s] \in Stamp

VARIABLES
    parser,
    csv,            \* the file being read
    phase,          \* "header", "ready", "row", "judged", or "skipped"
    idx,            \* idx_: the position of each column found
    trip            \* what parse and parseRow return

fileVars == <<lineVars, parser, csv, phase, idx, trip>>

FixedOrder ==
    <<"vendorid", "tpep_pickup_datetime", "tpep_dropoff_datetime",
      "passenger_count", "trip_distance", "ratecodeid", "store_and_fwd_flag",
      "pulocationid", "dolocationid", "payment_type", "fare_amount", "extra",
      "mta_tax", "tip_amount", "tolls_amount", "improvement_surcharge",
      "total_amount", "congestion_surcharge", "airport_fee">>

Needed(kind) ==
    IF kind = "taxi"
    THEN {"vendorid", "tpep_pickup_datetime", "tpep_dropoff_datetime"}
    ELSE {"tpep_pickup_datetime", "tpep_dropoff_datetime", "trip_distance",
          "payment_type", "tip_amount", "total_amount"}

Known(kind) == IF kind = "taxi" THEN Range(FixedOrder) ELSE Needed(kind)

Times == {"tpep_pickup_datetime", "tpep_dropoff_datetime"}

Money == {"fare_amount", "extra", "mta_tax", "tip_amount", "tolls_amount",
          "improvement_surcharge", "total_amount", "congestion_surcharge",
          "airport_fee"}

-----------------------------------------------------------------------------
\* strtof reads as much of the text as is a number (whole numbers here).
ParseFloat(text) ==
    LET signed == text # <<>> /\ Head(text) = "-"
        first == IF signed THEN 2 ELSE 1
        ends == {n \in first .. Len(text) :
                     Range(SubSeq(text, first, n)) \subseteq Digit}
    IN  IF ends = {} THEN 0 ELSE IntOf(SubSeq(text, 1, Max(ends)))

ParseStoreAndFwdFlag(text) ==
    IF text # <<>> /\ Head(text) \in {"Y", "y"} THEN 1
    ELSE IF text # <<>> /\ Head(text) \in {"N", "n"} THEN 0
    ELSE ParseUnsigned(text)

TimeRead(kind, st) == IF kind = "taxi" THEN TaxiTime(st) ELSE PartitionTime(st)

\* MUTANT of TimeOf: nothing may stand behind the timestamp.
TimeOfWhole(kind, text) ==
    IF Len(text) # 1 \/ Head(text) \notin DOMAIN StampOf THEN NoTime
    ELSE TimeRead(kind, StampOf[Head(text)])

\* Only so many characters are looked at as a timestamp has: the parsers ask
\* for a least length, and ignore what stands behind.
TimeOf(kind, text) ==
    IF text = <<>> \/ Head(text) \notin DOMAIN StampOf THEN NoTime
    ELSE TimeRead(kind, StampOf[Head(text)])

\* The conversion each column gets.
Convert(kind, c, text) ==
    CASE c \in Times -> TimeOf(kind, text)
      [] c \in Money -> ParseMoneyCents(text)
      [] c = "trip_distance" -> ParseFloat(text)
      [] c = "store_and_fwd_flag" -> ParseStoreAndFwdFlag(text)
      [] OTHER -> IF kind = "taxi" THEN ParseUnsigned(text) ELSE ParseI16(text)

Cell(k) == Strip(SubSeq(line, fields[k].a, fields[k].b - 1))

\* splitHeaderFieldNormalize: the name in a header field, in lower case.
Normal(text) ==
    IF Len(text) = 1 /\ Head(text) \in DOMAIN Lower THEN Lower[Head(text)]
    ELSE "no column"

\* MUTANT: the first field of a name counts.
FirstColumns(kind) ==
    LET names == [k \in DOMAIN fields |-> Normal(Cell(k))]
    IN  [c \in Known(kind) \cap Range(names) |-> Min({k \in DOMAIN names : names[k] = c})]

\* applyHeaderFieldToIndex over the whole header: a later field of the same
\* name takes the place of an earlier one.
Columns(kind) ==
    LET names == [k \in DOMAIN fields |-> Normal(Cell(k))]
    IN  [c \in Known(kind) \cap Range(names) |-> Max({k \in DOMAIN names : names[k] = c})]

Standard == [c \in Range(FixedOrder) |-> CHOOSE k \in DOMAIN FixedOrder : FixedOrder[k] = c]

NoTrip == [accepted |-> FALSE]

\* A column the header or the row does not have keeps its initial value.
Parsed(c) ==
    IF c \in DOMAIN idx /\ idx[c] \in DOMAIN fields
    THEN Convert(parser, c, Cell(idx[c]))
    ELSE IF c \in Times THEN NoTime ELSE 0

BeginAnew ==
    /\ p' = 1
    /\ inQuotes' = FALSE
    /\ fieldStart' = 1
    /\ fields' = <<>>
    /\ verdict' = "scanning"

-----------------------------------------------------------------------------
FileInit ==
    /\ parser \in Parsers
    /\ csv \in DOMAIN Header
    /\ line = Header[csv]
    /\ Begun
    /\ phase = "header"
    /\ idx = <<>>
    /\ trip = NoTrip

Scan ==
    /\ phase \in {"header", "row"}
    /\ ScanNext
    /\ UNCHANGED <<parser, csv, phase, idx, trip>>

\* The end of initFromHeader, and what the callers make of its answer: a
\* node passes the file over, the streaming engine ignores the answer.
HeaderRead ==
    /\ phase = "header"
    /\ verdict # "scanning"
    /\ LET usable == verdict = "cut" /\ Needed(parser) \subseteq DOMAIN Columns(parser)
       IN  CASE usable -> idx' = Columns(parser) /\ phase' = "ready"
             [] ~usable /\ parser = "taxi" -> idx' = Standard /\ phase' = "ready"
             [] ~usable /\ parser = "partition" -> phase' = "skipped" /\ UNCHANGED idx
    /\ line' = <<>>
    /\ BeginAnew
    /\ UNCHANGED <<parser, csv, trip>>

NextLine ==
    /\ phase = "ready"
    /\ line' \in FileRows[csv]
    /\ line' # <<>>
    /\ BeginAnew
    /\ phase' = "row"
    /\ UNCHANGED <<parser, csv, idx, trip>>

\* The end of parse and parseRow: a row without a pickup time is refused.
RowRead ==
    /\ phase = "row"
    /\ verdict # "scanning"
    /\ phase' = "judged"
    /\ trip' = IF verdict = "unbalanced" \/ Parsed("tpep_pickup_datetime") = NoTime
               THEN NoTrip
               ELSE [accepted |-> TRUE,
                     of |-> [c \in Known(parser) |-> Parsed(c)]]
    /\ UNCHANGED <<lineVars, parser, csv, idx>>

\* The caller has used the trip.  Only idx_ is kept for the next line: every
\* parse begins with an empty trip.
TripUsed ==
    /\ phase = "judged"
    /\ phase' = "ready"
    /\ trip' = NoTrip
    /\ line' = <<>>
    /\ BeginAnew
    /\ UNCHANGED <<parser, csv, idx>>

FileNext == Scan \/ HeaderRead \/ NextLine \/ RowRead \/ TripUsed

FileSpec == FileInit /\ [][FileNext]_fileVars

-----------------------------------------------------------------------------
\* The text of a line between its cuts, without looking at fields.
Cells(l) ==
    LET ends == Cuts(l) \cup {Len(l) + 1}
        End(k) == CHOOSE e \in ends : Cardinality({x \in ends : x <= e}) = k
    IN  [k \in 1 .. Cardinality(ends) |->
            Strip(SubSeq(l, IF k = 1 THEN 1 ELSE End(k - 1) + 1, End(k) - 1))]

\* The column of each position, as the header of the file says.
Order ==
    LET cells == Cells(Header[csv])
        names == [k \in DOMAIN cells |-> Normal(cells[k])]
    IN  IF /\ EvenQuotes(Header[csv], 1, Len(Header[csv]) + 1)
           /\ Needed(parser) \subseteq Range(names)
        THEN names ELSE FixedOrder

\* What a row says of column c: the meaning of the cell under the last
\* header field of that name.
Said(c, order, cells) ==
    LET under == {k \in DOMAIN order : order[k] = c}
    IN  IF under # {} /\ Max(under) <= Len(cells)
        THEN Convert(parser, c, cells[Max(under)])
        ELSE IF c \in Times THEN NoTime ELSE 0

\* The timestamp that the pickup cell begins with, whatever follows it, if
\* it begins with one.
PickupStamps(order, cells) ==
    LET under == {k \in DOMAIN order : order[k] = "tpep_pickup_datetime"}
    IN  {StampOf[t] : t \in {s \in DOMAIN StampOf :
            /\ under # {} /\ Max(under) <= Len(cells)
            /\ cells[Max(under)] # <<>> /\ s = Head(cells[Max(under)])}}

\* Whatever the order, spelling and number of the columns, a trip holds
\* under each name what the row says of it, and a row is accepted exactly if
\* its quotes are closed and its pickup cell begins with a timestamp that is
\* a time to the parser: text behind the timestamp refuses nothing.
RowIsByName ==
    phase = "judged" =>
        LET order == Order
            cells == Cells(line)
        IN  /\ trip.accepted <=>
                   /\ EvenQuotes(line, 1, Len(line) + 1)
                   /\ \E st \in PickupStamps(order, cells) : TimeRead(parser, st) # NoTime
            /\ trip.accepted =>
                   \A c \in Known(parser) : trip.of[c] = Said(c, order, cells)

\* An amount of money is its text rounded half away from zero to cents, held
\* within 32 bits, however the digits, the sign and the blanks are written.
AmountsAreExact ==
    phase = "judged" /\ trip.accepted =>
        \A c \in Money \cap DOMAIN idx :
            idx[c] \in DOMAIN fields => trip.of[c] = Amount(Cell(idx[c]))

StampsIn(l) ==
    {StampOf[l[i]] : i \in {j \in DOMAIN l : l[j] \in DOMAIN StampOf}}

\* The three parsers of timestamps agree: a date gives one time in either
\* form, what the stricter parser accepts the laxer one reads the same, and
\* of two dates the earlier gets the smaller time.  The value that stands for
\* no time costs two dates, the last second of 1969 and the one after it,
\* and no other.
TimesAgree ==
    phase = "judged" =>
        \A st, other \in StampsIn(line) :
            /\ IsDate(st) => PartitionTime(st) = PartitionTime(OtherForm(st))
            /\ IsDate(st) /\ st.form = "24h" => (PartitionTime(st) = NoTime <=> IsLost(st))
            /\ Partition24h(st) # NoTime => TaxiTime(st) = Partition24h(st)
            /\ Partition12h(st) # NoTime => InMemoryTime(st) = Partition12h(st)
            /\ /\ IsDate(st) /\ st.form = "24h"
               /\ IsDate(other) /\ other.form = "24h"
               /\ PartitionTime(st) # NoTime /\ PartitionTime(other) # NoTime
               => (Earlier(st, other)
                      <=> Before(PartitionTime(st), PartitionTime(other)))

-----------------------------------------------------------------------------
\* splitCSV of the in-memory engines: inside quotes two quotes stand for one.
SplitStep(st, i, l) ==
    IF st.skip THEN [st EXCEPT !.skip = FALSE]
    ELSE CASE l[i] = Quote /\ st.inQuotes /\ i < Len(l) /\ l[i + 1] = Quote ->
                [st EXCEPT !.curr = Append(@, Quote), !.skip = TRUE]
           [] l[i] = Quote /\ ~(st.inQuotes /\ i < Len(l) /\ l[i + 1] = Quote) ->
                [st EXCEPT !.inQuotes = ~@]
           [] l[i] = Comma /\ ~st.inQuotes ->
                [st EXCEPT !.res = Append(@, st.curr), !.curr = <<>>]
           [] OTHER -> [st EXCEPT !.curr = Append(@, l[i])]

SplitBegun == [curr |-> <<>>, inQuotes |-> FALSE, skip |-> FALSE, res |-> <<>>]

\* What it has made of the first n characters.
SplitSoFar(l, n) ==
    FoldLeft(LAMBDA st, i : SplitStep(st, i, l), SplitBegun, [i \in 1 .. n |-> i])

SplitCSV(l) ==
    LET done == SplitSoFar(l, Len(l))
    IN  Append(done.res, done.curr)

Bare(text) == Filtered(text, Token \ {Quote})

\* The in-memory engines cut a row into the same fields as the streaming
\* engine and the nodes, but for the quotes they leave in or take out.
SplittersAgree ==
    verdict = "cut" =>
        LET split == SplitCSV(line)
        IN  /\ Len(split) = Len(fields)
            /\ \A k \in DOMAIN fields :
                   Bare(split[k]) = Bare(SubSeq(line, fields[k].a, fields[k].b - 1))
=============================================================================
