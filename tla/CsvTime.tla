------------------------------ MODULE CsvTime ------------------------------
(***************************************************************************)
(* The three parsers of timestamps: PartitionCsvParser (either format),    *)
(* TaxiTripCSVParser (2020-01-31 13:05:00) and the in-memory engines'      *)
(* TaxiTripParser (2020 Jan 31 01:05:00 PM).                               *)
(*                                                                         *)
(* A stamp is a record of what stands in the text:                         *)
(*   form     "24h", "12h", or "other" when neither's punctuation is there *)
(*   y mo d h mi s   the numbers; mo = 0 is no name of a month             *)
(*   half     "AM" or "PM"                                                 *)
(*   cased    whether the month and AM/PM are written Jan and AM           *)
(*   bad      the numbers that are not made of digits                      *)
(*                                                                         *)
(* A time is a pair of days since 1970-01-01 and seconds of the day; the   *)
(* code's milliseconds are these times 1000.                               *)
(***************************************************************************)
EXTENDS Integers

Stamp ==
    [form : {"24h", "12h", "other"},
     y : Nat, mo : Nat, d : Nat, h : Nat, mi : Nat, s : Nat,
     half : {"AM", "PM"}, cased : BOOLEAN,
     bad : SUBSET {"y", "mo", "d", "h", "mi", "s"}]

\* The value 0, which every caller takes for "no time".
NoTime == <<0, 0>>

DaysBeforeYear(y) ==
    365 * (y - 1970) + (y - 1969) \div 4 - (y - 1901) \div 100
        + (y - 1601) \div 400

Leap(y) == y % 4 = 0 /\ (y % 100 # 0 \/ y % 400 = 0)

DaysBeforeMonth(y, mo) ==
    <<0, 31, 59, 90, 120, 151, 181, 212, 243, 273, 304, 334>>[mo]
        + (IF Leap(y) /\ mo > 2 THEN 1 ELSE 0)

\* timegm carries whatever is out of range over into the next larger unit;
\* its error value -1 is also the last second of 1969.
Timegm(y, mo, d, h, mi, s) ==
    LET year == y + (mo - 1) \div 12
        seconds == 3600 * h + 60 * mi + s
        t == <<DaysBeforeYear(year) + DaysBeforeMonth(year, ((mo - 1) % 12) + 1)
                 + d - 1 + seconds \div 86400,
               seconds % 86400>>
    IN  IF t = <<-1, 86399>> THEN NoTime ELSE t

-----------------------------------------------------------------------------
\* PartitionCsvParser, YYYY-MM-DD HH:MM:SS: digits and ranges are checked,
\* the length of the month is not.
Partition24h(st) ==
    IF /\ st.form = "24h"
       /\ st.bad = {}
       /\ st.mo \in 1 .. 12 /\ st.d \in 1 .. 31
       /\ st.h \in 0 .. 23 /\ st.mi \in 0 .. 59 /\ st.s \in 0 .. 60
    THEN Timegm(st.y, st.mo, st.d, st.h, st.mi, st.s) ELSE NoTime

\* MUTANT: noon and midnight are left as they are written.
HourPlusTwelve(st) == IF st.half = "PM" THEN st.h + 12 ELSE st.h

\* The hour of a twelve-hour clock: 12 AM is 0, 12 PM is 12.
Hour(st) ==
    IF st.h = 12 THEN (IF st.half = "PM" THEN 12 ELSE 0)
    ELSE IF st.half = "PM" THEN st.h + 12 ELSE st.h

\* PartitionCsvParser, YYYY Mon DD HH:MM:SS AM/PM.
Partition12h(st) ==
    IF /\ st.form = "12h"
       /\ st.bad = {} /\ st.cased
       /\ st.mo \in 1 .. 12 /\ st.d \in 1 .. 31
       /\ st.h \in 1 .. 12 /\ st.mi \in 0 .. 59 /\ st.s \in 0 .. 60
    THEN Timegm(st.y, st.mo, st.d, Hour(st), st.mi, st.s) ELSE NoTime

\* parseEpochMsFlexibleUTC.
PartitionTime(st) ==
    IF Partition24h(st) # NoTime THEN Partition24h(st) ELSE Partition12h(st)

\* TaxiTripCSVParser: only the punctuation and the length are checked; a
\* number that is not made of digits counts as 0, and timegm carries over.
TaxiTime(st) ==
    LET Read(name, v) == IF name \in st.bad THEN 0 ELSE v
    IN  IF st.form # "24h" THEN NoTime
        ELSE Timegm(Read("y", st.y), Read("mo", st.mo), Read("d", st.d),
                    Read("h", st.h), Read("mi", st.mi), Read("s", st.s))

\* The in-memory engines: sscanf must find seven items, the month's name and
\* AM/PM are taken in any case, and only the hour's range is checked.
InMemoryTime(st) ==
    IF st.form = "12h" /\ st.bad = {} /\ st.mo \in 1 .. 12 /\ st.h \in 1 .. 12
    THEN Timegm(st.y, st.mo, st.d,
                (IF st.h = 12 THEN 0 ELSE st.h)
                    + (IF st.half = "PM" THEN 12 ELSE 0),
                st.mi, st.s)
    ELSE NoTime

-----------------------------------------------------------------------------
\* The same instant written in the other form.
OtherForm(st) ==
    IF st.form = "24h"
    THEN [st EXCEPT !.form = "12h", !.half = IF st.h >= 12 THEN "PM" ELSE "AM",
                    !.h = ((st.h + 11) % 12) + 1]
    ELSE [st EXCEPT !.form = "24h",
                    !.h = (st.h % 12) + (IF st.half = "PM" THEN 12 ELSE 0)]

IsDate(st) ==
    /\ st.form \in {"24h", "12h"} /\ st.bad = {} /\ st.cased
    /\ st.mo \in 1 .. 12 /\ st.mi \in 0 .. 59 /\ st.s \in 0 .. 59
    /\ st.h \in (IF st.form = "24h" THEN 0 .. 23 ELSE 1 .. 12)
    /\ st.d \in 1 .. (CASE st.mo = 2 -> IF Leap(st.y) THEN 29 ELSE 28
                        [] st.mo \in {4, 6, 9, 11} -> 30 [] OTHER -> 31)

\* The date (in the 24h form) that gets the value of an error of timegm, and
\* the one that gets 0.
IsLost(st) ==
    \/ /\ st.y = 1969 /\ st.mo = 12 /\ st.d = 31
       /\ st.h = 23 /\ st.mi = 59 /\ st.s = 59
    \/ /\ st.y = 1970 /\ st.mo = 1 /\ st.d = 1
       /\ st.h = 0 /\ st.mi = 0 /\ st.s = 0

\* a lies before b on the calendar (both dates in the 24h form).
Earlier(a, b) ==
    \/ a.y < b.y
    \/ a.y = b.y /\ a.mo < b.mo
    \/ a.y = b.y /\ a.mo = b.mo /\ a.d < b.d
    \/ /\ a.y = b.y /\ a.mo = b.mo /\ a.d = b.d
       /\ 3600 * a.h + 60 * a.mi + a.s < 3600 * b.h + 60 * b.mi + b.s

Before(t, u) == t[1] < u[1] \/ (t[1] = u[1] /\ t[2] < u[2])
=============================================================================
