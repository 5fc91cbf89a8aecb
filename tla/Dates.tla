------------------------------- MODULE Dates -------------------------------
(***************************************************************************)
(* Dates of crates/core/src/text/dates.rs: written forms, and the count of *)
(* days by which dates are compared and moved.                             *)
(*                                                                         *)
(* The numbers written in a glyph are constants: <<y, m, d>> for an ISO    *)
(* date, three numbers for a date with slashes, one for a number.          *)
(***************************************************************************)
EXTENDS Sequences, Integers

CONSTANTS IsoDates, SlashDates, Numbers

Months ==
  [jan |-> 1, january |-> 1, feb |-> 2, february |-> 2, mar |-> 3, march |-> 3, apr |-> 4,
   april |-> 4, may |-> 5, jun |-> 6, june |-> 6, jul |-> 7, july |-> 7, aug |-> 8,
   august |-> 8, sep |-> 9, sept |-> 9, september |-> 9, oct |-> 10, october |-> 10,
   nov |-> 11, november |-> 11, dec |-> 12, december |-> 12]

NoDate == <<>>
NoParse == [date |-> NoDate, length |-> 0]

IsLeap(y) == (y % 4 = 0 /\ y % 100 # 0) \/ y % 400 = 0
DaysInMonth(y, m) ==
  CASE m \in {1, 3, 5, 7, 8, 10, 12} -> 31
    [] m \in {4, 6, 9, 11} -> 30
    [] m = 2 -> IF IsLeap(y) THEN 29 ELSE 28
    [] OTHER -> 0

(* Date::new *)
DateOf(y, m, d) ==
  IF m \in 1 .. 12 /\ d \in 1 .. DaysInMonth(y, m) /\ y \in 1 .. 9999 THEN <<y, m, d>> ELSE NoDate

(* Days since 1970-01-01: years that begin in March, in eras of 400.       *)
DaysFromEpoch(date) ==
  LET y == IF date[2] <= 2 THEN date[1] - 1 ELSE date[1]
      era == y \div 400
      yoe == y - era * 400
      doy == (153 * (IF date[2] > 2 THEN date[2] - 3 ELSE date[2] + 9) + 2) \div 5 + date[3] - 1
      doe == yoe * 365 + yoe \div 4 - yoe \div 100 + doy
  IN  era * 146097 + doe - 719468

(* The date of a day of an era that begins in March.                       *)
YearOfEra(doe) == (doe - doe \div 1460 + doe \div 36524 - doe \div 146096) \div 365
DayOfYear(doe, yoe) == doe - (365 * yoe + yoe \div 4 - yoe \div 100)
MonthFromMarch(doy) == (5 * doy + 2) \div 153

(* Mutant: January and February belong to the year before. *)
CivilMarchYear(year, mp, doy) ==
  DateOf(year, IF mp < 10 THEN mp + 3 ELSE mp - 9, doy - (153 * mp + 2) \div 5 + 1)

Civil(year, mp, doy) ==
  DateOf(IF mp < 10 THEN year ELSE year + 1, IF mp < 10 THEN mp + 3 ELSE mp - 9,
         doy - (153 * mp + 2) \div 5 + 1)

InYear(year, doy) == Civil(year, MonthFromMarch(doy), doy)
InEra(era, doe) == InYear(YearOfEra(doe) + 400 * era, DayOfYear(doe, YearOfEra(doe)))
FromDays(days) == InEra((days + 719468) \div 146097, (days + 719468) % 146097)

ExpandYear(y) == IF y >= 100 THEN y ELSE IF y < 70 THEN 2000 + y ELSE 1900 + y

(* A date with slashes has the month first when that makes a date.         *)
SlashDate(p) ==
  LET year == ExpandYear(p[3])
      monthFirst == IF p[2] \in 1 .. 31 THEN DateOf(year, p[1], p[2]) ELSE NoDate
  IN  IF monthFirst # NoDate THEN monthFirst
      ELSE IF p[1] \in 1 .. 31 THEN DateOf(year, p[2], p[1]) ELSE NoDate

ParseDateToken(g) ==
  IF g \in DOMAIN IsoDates THEN DateOf(IsoDates[g][1], IsoDates[g][2], IsoDates[g][3])
  ELSE IF g \in DOMAIN SlashDates THEN SlashDate(SlashDates[g]) ELSE NoDate

-----------------------------------------------------------------------------
(* parse_textual_date over words: "march 3, 2026", "march 2026", "march 3", *)
(* "3 march 2026", "3 of march".  -1 stands for no number.                  *)
WordOr(words, k) == IF k \in DOMAIN words THEN words[k] ELSE ""
NumberAt(words, k) == IF WordOr(words, k) \in DOMAIN Numbers THEN Numbers[words[k]] ELSE -1
MonthAt(words, k) == IF WordOr(words, k) \in DOMAIN Months THEN Months[words[k]] ELSE 0

Parsed(date, length) == IF date = NoDate THEN NoParse ELSE [date |-> date, length |-> length]

MonthFirst(words, i, default) ==
  LET n == NumberAt(words, i + 1)
      comma == IF WordOr(words, i + 2) = "," THEN 1 ELSE 0
      year == NumberAt(words, i + 2 + comma)
  IN  IF n \in 1 .. 31
      THEN IF year >= 1000 THEN Parsed(DateOf(year, MonthAt(words, i), n), 3 + comma)
           ELSE Parsed(DateOf(default, MonthAt(words, i), n), 2)
      ELSE IF n >= 1000 THEN Parsed(DateOf(n, MonthAt(words, i), 1), 2)
      ELSE NoParse

DayFirst(words, i, default) ==
  LET skip == IF WordOr(words, i + 1) = "of" THEN 1 ELSE 0
      month == MonthAt(words, i + 1 + skip)
      year == NumberAt(words, i + 2 + skip)
  IN  IF NumberAt(words, i) \notin 1 .. 31 \/ month = 0 THEN NoParse
      ELSE IF year >= 1000 THEN Parsed(DateOf(year, month, NumberAt(words, i)), 3 + skip)
      ELSE Parsed(DateOf(default, month, NumberAt(words, i)), 2 + skip)

ParseTextualDate(words, i, default) ==
  IF MonthAt(words, i) > 0 THEN MonthFirst(words, i, default) ELSE DayFirst(words, i, default)
=============================================================================
