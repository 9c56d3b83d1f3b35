------------------------------ MODULE CsvText ------------------------------
(***************************************************************************)
(* Lines of a csv file.  A token stands for a character, or for a run of   *)
(* characters that no parser cuts (a column name, a timestamp).            *)
(***************************************************************************)
EXTENDS Naturals, FiniteSets

CONSTANTS
    Token,          \* what lines are made of
    Quote, Comma

ASSUME TextAssumption == Quote \in Token /\ Comma \in Token /\ Quote # Comma

\* The number of quotes at positions a .. b - 1 of l is even.
EvenQuotes(l, a, b) ==
    Cardinality({i \in DOMAIN l : a <= i /\ i < b /\ l[i] = Quote}) % 2 = 0

\* The commas that separate fields: those with an even number of quotes
\* before them.
Cuts(l) == {i \in DOMAIN l : l[i] = Comma /\ EvenQuotes(l, 1, i)}
=============================================================================
