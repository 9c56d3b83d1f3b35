------------------------------ MODULE CsvLine ------------------------------
(***************************************************************************)
(* How the parsers cut a line into fields: one pass over the characters,   *)
(* commas separate fields unless a quote is open.  initFromHeader and the  *)
(* row parsers of PartitionCsvParser and TaxiTripCSVParser all run this    *)
(* loop.                                                                   *)
(***************************************************************************)
EXTENDS CsvText, Sequences

VARIABLES
    line,           \* the line being cut
    p,              \* the position looked at
    inQuotes,
    fieldStart,     \* where the field in hand begins
    fields,         \* the fields cut so far, [a, b) in positions of the line
    verdict         \* "scanning", "cut", or "unbalanced"

scanVars == <<p, inQuotes, fieldStart, fields, verdict>>
lineVars == <<line, scanVars>>

Field == [a : Nat, b : Nat]

\* Where every scan of a line begins.
Begun ==
    /\ p = 1
    /\ inQuotes = FALSE
    /\ fieldStart = 1
    /\ fields = <<>>
    /\ verdict = "scanning"

Scanning == verdict = "scanning" /\ p <= Len(line)

\* MUTANT: a quote inside a field does not open or close anything.
ToggleAtFieldStart ==
    /\ Scanning
    /\ line[p] = Quote
    /\ inQuotes' = IF p = fieldStart \/ inQuotes THEN ~inQuotes ELSE inQuotes
    /\ p' = p + 1
    /\ UNCHANGED <<line, fieldStart, fields, verdict>>

ToggleQuote ==
    /\ Scanning
    /\ line[p] = Quote
    /\ inQuotes' = ~inQuotes
    /\ p' = p + 1
    /\ UNCHANGED <<line, fieldStart, fields, verdict>>

\* A comma outside quotes ends the field in hand.
EndField ==
    /\ Scanning
    /\ line[p] = Comma
    /\ ~inQuotes
    /\ fields' = Append(fields, [a |-> fieldStart, b |-> p])
    /\ fieldStart' = p + 1
    /\ p' = p + 1
    /\ UNCHANGED <<line, inQuotes, verdict>>

PassOver ==
    /\ Scanning
    /\ line[p] # Quote
    /\ line[p] = Comma => inQuotes
    /\ p' = p + 1
    /\ UNCHANGED <<line, inQuotes, fieldStart, fields, verdict>>

\* MUTANT: a quote left open is closed by the end of the line.
EndLineInQuotes ==
    /\ verdict = "scanning"
    /\ p = Len(line) + 1
    /\ verdict' = "cut"
    /\ fields' = Append(fields, [a |-> fieldStart, b |-> p])
    /\ UNCHANGED <<line, p, inQuotes, fieldStart>>

\* The end of the line ends the last field; in an open quote the line is
\* given up.
EndLine ==
    /\ verdict = "scanning"
    /\ p = Len(line) + 1
    /\ IF inQuotes
       THEN verdict' = "unbalanced" /\ UNCHANGED fields
       ELSE /\ verdict' = "cut"
            /\ fields' = Append(fields, [a |-> fieldStart, b |-> p])
    /\ UNCHANGED <<line, p, inQuotes, fieldStart>>

ScanNext == ToggleQuote \/ EndField \/ PassOver \/ EndLine

LineSpec == line \in Seq(Token) /\ Begun /\ [][ScanNext]_lineVars

-----------------------------------------------------------------------------
ScanTypeOK ==
    /\ line \in Seq(Token)
    /\ p \in 1 .. Len(line) + 1
    /\ inQuotes \in BOOLEAN
    /\ fieldStart \in 1 .. Len(line) + 1
    /\ fields \in Seq(Field)
    /\ verdict \in {"scanning", "cut", "unbalanced"}

\* A line is given up only if a quote has no partner.  The fields of a line
\* that is cut lie end to end, they are divided at exactly the commas outside
\* quotes, and none holds an odd number of quotes.  The code relies on the
\* last part: it strips a field whose first and last characters are quotes
\* by moving both ends inwards, and a field that is one quote would be left
\* with a negative length.
CutsAreExact ==
    /\ verdict = "unbalanced" => ~EvenQuotes(line, 1, Len(line) + 1)
    /\ verdict = "cut" =>
           /\ fields # <<>>
           /\ fields[1].a = 1
           /\ fields[Len(fields)].b = Len(line) + 1
           /\ \A k \in 1 .. Len(fields) - 1 : fields[k + 1].a = fields[k].b + 1
           /\ {fields[k].b : k \in 1 .. Len(fields) - 1} = Cuts(line)
           /\ \A k \in DOMAIN fields :
                  /\ fields[k].a <= fields[k].b
                  /\ EvenQuotes(line, fields[k].a, fields[k].b)
=============================================================================
