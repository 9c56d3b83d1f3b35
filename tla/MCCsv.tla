------------------------------- MODULE MCCsv -------------------------------
(***************************************************************************)
(* Files that try the orders and spellings of a header (layout), amounts   *)
(* and small integers (number), pairs of timestamps (stamp), and every     *)
(* row of at most five tokens (raw).                                       *)
(***************************************************************************)
EXTENDS CsvRow

MCQuote == "\""
MCParsers == {"partition", "taxi"}

Written(form, y, mo, d, h, mi, s, half) ==
    [form |-> form, y |-> y, mo |-> mo, d |-> d, h |-> h, mi |-> mi, s |-> s,
     half |-> half, cased |-> TRUE, bad |-> {}]

S24(y, mo, d, h, mi, s) == Written("24h", y, mo, d, h, mi, s, "AM")
S12(y, mo, d, h, mi, s, half) == Written("12h", y, mo, d, h, mi, s, half)

Stamps24 ==
    <<S24(2020, 1, 1, 0, 28, 15), S24(1970, 1, 1, 0, 0, 0),
      S24(1969, 12, 31, 23, 59, 59), S24(2019, 12, 31, 23, 59, 59),
      S24(2020, 1, 1, 12, 0, 0), S24(2020, 2, 28, 13, 0, 1), S24(2020, 2, 29, 23, 0, 0),
      S24(2020, 2, 30, 0, 0, 0), S24(2020, 3, 1, 0, 0, 0), S24(2100, 2, 28, 23, 59, 59),
      S24(2100, 3, 1, 0, 0, 0), S24(2000, 2, 29, 1, 0, 0), S24(2020, 12, 31, 23, 59, 60),
      S24(2020, 13, 1, 0, 0, 0), S24(2020, 0, 1, 0, 0, 0), S24(2020, 4, 0, 0, 0, 0),
      S24(2020, 4, 30, 24, 0, 0), S24(2020, 4, 30, 0, 60, 0), S24(2020, 4, 30, 0, 0, 61),
      [S24(2020, 5, 1, 0, 0, 0) EXCEPT !.bad = {"d"}],
      [S24(2020, 5, 1, 0, 0, 0) EXCEPT !.form = "other"]>>

Stamps12 ==
    <<S12(2020, 1, 1, 12, 28, 15, "AM"), S12(2020, 1, 1, 12, 0, 0, "PM"),
      S12(2020, 2, 28, 1, 0, 1, "PM"), S12(2020, 2, 29, 11, 0, 0, "PM"),
      S12(2020, 2, 30, 1, 0, 0, "AM"), S12(2020, 6, 1, 0, 0, 0, "AM"),
      S12(2020, 6, 1, 13, 0, 0, "PM"), S12(2020, 0, 1, 1, 0, 0, "AM"),
      S12(1970, 1, 1, 12, 0, 0, "AM"), S12(2020, 6, 1, 1, 60, 0, "AM"),
      [S12(2020, 6, 1, 1, 0, 0, "AM") EXCEPT !.cased = FALSE],
      [S12(2020, 6, 1, 1, 0, 0, "AM") EXCEPT !.bad = {"mi"}]>>

AllStamps == Stamps24 \o Stamps12

StampToken == [k \in DOMAIN AllStamps |-> "t" \o ToString(k)]

MCStampOf ==
    [t \in Range(StampToken) |->
        AllStamps[CHOOSE k \in DOMAIN AllStamps : StampToken[k] = t]]

Spellings == [n \in {"VendorID", "Tip_amount", "TPEP_Pickup_Datetime"} |->
    CASE n = "VendorID" -> "vendorid" [] n = "Tip_amount" -> "tip_amount"
      [] OTHER -> "tpep_pickup_datetime"]

MCLower == [n \in Range(FixedOrder) |-> n] @@ Spellings

MCToken == {MCQuote, ",", " ", ".", "+", "-", "a", "Y", "ehail_fee"}
           \cup Digit \cup DOMAIN MCLower \cup DOMAIN MCStampOf

-----------------------------------------------------------------------------
Joined(cells) ==
    FoldLeft(LAMBDA l, cell : IF l = <<"start">> THEN cell ELSE l \o <<",">> \o cell,
             <<"start">>, cells)

One(names) == [k \in DOMAIN names |-> <<names[k]>>]
Quoted(text) == <<MCQuote>> \o text \o <<MCQuote>>
Spaced(text) == <<" ">> \o text \o <<" ">>

Short == <<"vendorid", "tpep_pickup_datetime", "tpep_dropoff_datetime",
           "trip_distance", "payment_type", "tip_amount", "total_amount">>

Without(order, c) == SelectSeq(order, LAMBDA x : x # c)
Rotated(order, n) == SubSeq(order, n + 1, Len(order)) \o SubSeq(order, 1, n)

Orders == {FixedOrder, Reverse(FixedOrder), Short \o <<"tip_amount">>,
           <<"ehail_fee">> \o Short, <<"vendorid", "tpep_dropoff_datetime",
             "tpep_pickup_datetime">>}
          \cup {Rotated(Short, n) : n \in 0 .. 6}
          \cup {Without(Short, c) : c \in Range(Short)}

Spelled(name) ==
    IF name \in Range(Spellings) THEN CHOOSE n \in DOMAIN Spellings : Spellings[n] = name
    ELSE name

Headers(order) ==
    {One(order), [k \in DOMAIN order |-> Quoted(<<" ", Spelled(order[k])>>)],
     [k \in DOMAIN order |-> IF k = 2 THEN <<MCQuote, order[k]>> ELSE <<order[k], " ">>]}

\* The text of column c, a different one at each position.
Text(c, k) ==
    CASE c = "tpep_pickup_datetime" -> <<"t1">>
      [] c = "tpep_dropoff_datetime" -> <<"t5">>
      [] c = "store_and_fwd_flag" -> <<"Y">>
      [] c \in Money -> <<"1", "2", ".", ToString(k % 10)>>
      [] OTHER -> <<ToString(k % 10)>>

Layouts(order) ==
    LET cells == [k \in DOMAIN order |-> Text(order[k], k)]
    IN  {cells, [k \in DOMAIN cells |-> Quoted(cells[k])],
         [k \in DOMAIN cells |-> IF k < 4 THEN Spaced(Quoted(Spaced(cells[k]))) ELSE cells[k]],
         SubSeq(cells, 1, 2), SubSeq(cells, 1, 3), cells \o <<<<"7">>>>,
         [cells EXCEPT ![2] = <<MCQuote, ",">> \o @ \o <<MCQuote>>],
         [cells EXCEPT ![3] = <<MCQuote>> \o @]}

LayoutFiles ==
    UNION {{[kind |-> "layout", order |-> o, header |-> h] : h \in Headers(o)} : o \in Orders}

-----------------------------------------------------------------------------
Texts(alphabet, from, to) == UNION {[1 .. n -> alphabet] : n \in from .. to}

Amounts ==
    {sign \o whole \o frac :
        sign \in {<<>>, <<"+">>, <<"-">>},
        whole \in Texts({"4", "9"}, 0, 2),
        frac \in {<<>>} \cup {<<".">> \o f : f \in Texts({"4", "5", "9"}, 0, 3)}}

Junk == Texts({"-", ".", "5", " ", "a"}, 0, 3)

ShortRow(pickup, dropoff, payment, tip) ==
    Joined(<<<<"1">>, pickup, dropoff, <<"3">>, payment, tip, <<"2">>>>)

NumberRows ==
    {ShortRow(<<"t1">>, <<"t5">>, <<"1">>, text) :
        text \in Amounts \cup Junk \cup {Quoted(Quoted(t)) : t \in Texts({"+", ".", "5", " "}, 0, 2)}}
    \cup {ShortRow(<<"t1">>, <<"t5">>, text, <<"1">>) : text \in Texts({"-", "1", "9"}, 0, 3)}

StampRows ==
    {ShortRow(<<t>>, <<u>>, <<"1">>, <<"1">>) : t, u \in DOMAIN MCStampOf}

RawOrder == <<"tpep_pickup_datetime", "payment_type", "tip_amount", "total_amount",
              "tpep_dropoff_datetime", "vendorid", "trip_distance">>

RawRows == Texts({MCQuote, ",", " ", "t1", "1"}, 1, 5)

-----------------------------------------------------------------------------
Plain(kind, order) == [kind |-> kind, order |-> order, header |-> One(order)]

Files == LayoutFiles \cup {Plain("number", Short), Plain("stamp", Short), Plain("raw", RawOrder)}

MCHeader == [f \in Files |-> Joined(f.header)]

MCRows ==
    [f \in Files |->
        CASE f.kind = "number" -> NumberRows [] f.kind = "stamp" -> StampRows
          [] f.kind = "raw" -> RawRows
          [] OTHER -> {Joined(r) : r \in Layouts(f.order)}]
=============================================================================
