----------------------------- MODULE CsvNumbers -----------------------------
(***************************************************************************)
(* What the parsers make of the text of one field: amounts of money        *)
(* (parseMoneyCents, the same in both parsers but for the set of blanks),  *)
(* small integers, and the trimming that comes before.  The widths of the  *)
(* integer types are constants.                                            *)
(***************************************************************************)
EXTENDS CsvText, Integers, Filtering, FiniteSetsExt

CONSTANTS
    Blank,          \* what trimSpaces removes
    MaxCents,       \* the largest int32_t
    MaxInt,         \* the largest int that from_chars reads
    MaxSmall        \* the largest value of the small integer columns

ASSUME WidthAssumption ==
    /\ MaxCents \in Nat /\ MaxInt \in Nat
    /\ MaxSmall \in 0 .. MaxInt

DigitValue == [d \in {"0", "1", "2", "3", "4", "5", "6", "7", "8", "9"} |->
    CASE d = "0" -> 0 [] d = "1" -> 1 [] d = "2" -> 2 [] d = "3" -> 3
      [] d = "4" -> 4 [] d = "5" -> 5 [] d = "6" -> 6 [] d = "7" -> 7
      [] d = "8" -> 8 [] d = "9" -> 9]

Digit == DOMAIN DigitValue

ASSUME BlankAssumption == Blank \cap (Digit \cup {".", "+", "-"}) = {}

Trim(text) ==
    LET kept == {i \in DOMAIN text : text[i] \notin Blank}
    IN  IF kept = {} THEN <<>> ELSE SubSeq(text, Min(kept), Max(kept))

\* A field without its blanks and its enclosing quotes.
Strip(text) ==
    LET t == Trim(text)
    IN  IF t # <<>> /\ Head(t) = Quote /\ Last(t) = Quote
        THEN Trim(SubSeq(t, 2, Len(t) - 1)) ELSE t

-----------------------------------------------------------------------------
\* parseMoneyCents as one pass: part is the loop the code is in.
MoneyBegun == [part |-> "sign", neg |-> FALSE, dollars |-> 0, sawDigit |-> FALSE,
               cents |-> 0, fracDigits |-> 0, roundUp |-> FALSE]

\* MUTANT: the third digit rounds up only above five.
MoneyStepAboveFive(st, c) ==
    IF c \in Digit
    THEN LET d == DigitValue[c]
         IN  CASE st.part \in {"sign", "dollars"} ->
                    [st EXCEPT !.part = "dollars", !.sawDigit = TRUE,
                               !.dollars = 10 * @ + d]
               [] st.part = "cents" /\ st.fracDigits < 2 ->
                    [st EXCEPT !.cents = 10 * @ + d, !.fracDigits = @ + 1]
               [] st.part = "cents" /\ st.fracDigits = 2 ->
                    [st EXCEPT !.part = "rest", !.roundUp = d > 5]
               [] st.part = "rest" -> st
               [] OTHER -> [st EXCEPT !.part = "broken"]
    ELSE CASE c \in {"+", "-"} /\ st = MoneyBegun ->
                [st EXCEPT !.part = "dollars", !.neg = (c = "-")]
           [] c = "." /\ st.part \in {"sign", "dollars"} ->
                [st EXCEPT !.part = "cents"]
           [] c \in Blank /\ st.part # "broken" -> [st EXCEPT !.part = "blank"]
           [] OTHER -> [st EXCEPT !.part = "broken"]

\* One character of an amount: sign, dollars, at most two digits of cents,
\* a third that rounds, others that are passed over, blanks.
MoneyStep(st, c) ==
    IF c \in Digit
    THEN LET d == DigitValue[c]
         IN  CASE st.part \in {"sign", "dollars"} ->
                    [st EXCEPT !.part = "dollars", !.sawDigit = TRUE,
                               !.dollars = 10 * @ + d]
               [] st.part = "cents" /\ st.fracDigits < 2 ->
                    [st EXCEPT !.cents = 10 * @ + d, !.fracDigits = @ + 1]
               [] st.part = "cents" /\ st.fracDigits = 2 ->
                    [st EXCEPT !.part = "rest", !.roundUp = d >= 5]
               [] st.part = "rest" -> st
               [] OTHER -> [st EXCEPT !.part = "broken"]
    ELSE CASE c \in {"+", "-"} /\ st = MoneyBegun ->
                [st EXCEPT !.part = "dollars", !.neg = (c = "-")]
           [] c = "." /\ st.part \in {"sign", "dollars"} ->
                [st EXCEPT !.part = "cents"]
           [] c \in Blank /\ st.part # "broken" -> [st EXCEPT !.part = "blank"]
           [] OTHER -> [st EXCEPT !.part = "broken"]

\* Saturation at the width of the column.
Clamp(n) == IF n > MaxCents THEN MaxCents
            ELSE IF n < -MaxCents - 1 THEN -MaxCents - 1 ELSE n

\* The end of parseMoneyCents: text that is no amount counts as 0.
ParseMoneyCents(text) ==
    LET st == FoldLeft(MoneyStep, MoneyBegun, Strip(text))
        scaled == IF st.fracDigits = 1 THEN 10 * st.cents ELSE st.cents
        carried == 100 * st.dollars + scaled + (IF st.roundUp THEN 1 ELSE 0)
    IN  IF st.part = "broken" \/ (~st.sawDigit /\ st.fracDigits = 0) THEN 0
        ELSE Clamp(IF st.neg THEN -carried ELSE carried)

-----------------------------------------------------------------------------
NextDigit(n, d) == 10 * n + DigitValue[d]

Number(digits) == FoldLeft(NextDigit, 0, digits)

\* std::from_chars on the whole text: digits behind an optional minus sign.
IsInt(text) ==
    LET digits == IF text # <<>> /\ Head(text) = "-" THEN Tail(text) ELSE text
    IN  digits # <<>> /\ Range(digits) \subseteq Digit

IntOf(text) == IF Head(text) = "-" THEN -Number(Tail(text)) ELSE Number(text)

FromChars(text) ==
    IF IsInt(text) /\ IntOf(text) \in -MaxInt - 1 .. MaxInt
    THEN IntOf(text) ELSE 0

\* parseU8 and parseU16 of the streaming parser saturate ...
ParseUnsigned(text) ==
    LET v == FromChars(text)
    IN  IF v < 0 THEN 0 ELSE IF v > MaxSmall THEN MaxSmall ELSE v

\* ... and parseI16 of the partition parser gives 0 for what does not fit.
ParseI16(text) ==
    LET v == FromChars(text)
    IN  IF v \in -MaxSmall - 1 .. MaxSmall THEN v ELSE 0

-----------------------------------------------------------------------------
\* The reference: a decimal number with at least one digit, rounded half up
\* to cents (away from zero), held within the width of the column.
IsAmount(unsigned) ==
    LET points == {i \in DOMAIN unsigned : unsigned[i] = "."}
        digits == Filtered(unsigned, Digit)
    IN  /\ Cardinality(points) <= 1
        /\ digits # <<>>
        /\ Len(digits) + Cardinality(points) = Len(unsigned)

TenTo(k) == FoldLeft(LAMBDA n, i : 10 * n, 1, [i \in 1 .. k |-> i])

RoundedCents(unsigned) ==
    LET point == Max({i \in DOMAIN unsigned : unsigned[i] = "."} \cup {0})
        k == IF point = 0 THEN 0 ELSE Len(unsigned) - point
    IN  (200 * Number(Filtered(unsigned, Digit)) + TenTo(k)) \div (2 * TenTo(k))

Amount(text) ==
    LET t == Strip(text)
        signed == t # <<>> /\ Head(t) \in {"+", "-"}
        unsigned == IF signed THEN Tail(t) ELSE t
    IN  IF ~IsAmount(unsigned) THEN 0
        ELSE Clamp(IF t[1] = "-" THEN -RoundedCents(unsigned)
                   ELSE RoundedCents(unsigned))
=============================================================================
