----------------------------- MODULE WorkFilter -----------------------------
(***************************************************************************)
(* How a work is selected (internal/metadata, internal/institution): its   *)
(* metadata entries become a WorkRecord, which the filter of the command   *)
(* line keeps or excludes.                                                 *)
(*                                                                         *)
(* Text is what the parsers recognise in it: a language value is its code, *)
(* a date the form that matches and its numbers (a Roman numeral is the    *)
(* sequence of its digits), an origin the places it mentions.              *)
(***************************************************************************)
EXTENDS Integers, Sequences, FiniteSetsExt

Unknown == "unknown"   \* a language value that is no alias

\* What a text is recognised as: reCentury, reCenturyFR and reCenturyES,
\* reCirca, reYear, reRange, or none of them.
Text ==
  {text \in [form : {"century", "roman", "circa", "year", "range", "other"},
             numbers : Seq(Nat)] :
     /\ text.form \in {"century", "circa", "year"} => Len(text.numbers) = 1
     /\ text.form = "range" => Len(text.numbers) = 2}

\* An entry's label, and its value as each parser recognises it.
Entry == [label : STRING, lang : STRING, date : Text, origin : SUBSET STRING]

\* The labels of the shared mapping that occur here; others are ignored.
FieldMapping ==
  [language |-> "language", langue |-> "language", date |-> "date",
   century |-> "date", origin |-> "origin"]

Field(label) ==
  IF label \in DOMAIN FieldMapping THEN FieldMapping[label] ELSE "ignore"

\* total and prev after the last k digits: a digit smaller than the largest
\* one behind it is subtracted; nothing is rejected.
Tally(numeral) ==
  LET n == Len(numeral)
      tally[k \in 0..n] ==
        IF k = 0 THEN [total |-> 0, prev |-> 0]
        ELSE LET v == numeral[n - k + 1]
                 last == tally[k - 1]
             IN IF v < last.prev
                THEN [total |-> last.total - v, prev |-> last.prev]
                ELSE [total |-> last.total + v, prev |-> v]
  IN tally

romanToInt(numeral) == Tally(numeral)[Len(numeral)].total

circaSlack == 20

centuryRange(n) == [start |-> (n - 1) * 100 + 1, end |-> n * 100]

NoDate == [start |-> 0, end |-> 0]   \* the zero DateRange

\* Which texts ParseDateRange accepts.
IsDate(text) ==
  CASE text.form = "century" -> text.numbers[1] # 0
    [] text.form = "roman" -> romanToInt(text.numbers) > 0
    [] OTHER -> text.form \in {"circa", "year", "range"}

\* Mutant of ParseDateRange: a range is taken as it is written.
ParseDateRangeAsWritten(text) ==
  LET n == text.numbers IN
  CASE text.form = "century" -> centuryRange(n[1])
    [] text.form = "roman" -> centuryRange(romanToInt(n))
    [] text.form = "circa" -> [start |-> n[1] - circaSlack, end |-> n[1] + circaSlack]
    [] text.form = "year" -> [start |-> n[1], end |-> n[1]]
    [] text.form = "range" -> [start |-> n[1], end |-> n[2]]

ParseDateRange(text) ==
  LET n == text.numbers IN
  CASE text.form = "century" -> centuryRange(n[1])
    [] text.form = "roman" -> centuryRange(romanToInt(n))
    [] text.form = "circa" -> [start |-> n[1] - circaSlack, end |-> n[1] + circaSlack]
    [] text.form = "year" -> [start |-> n[1], end |-> n[1]]
    [] text.form = "range" -> [start |-> Min({n[1], n[2]}), end |-> Max({n[1], n[2]})]

\* Values that do not parse are skipped; of several dates the last one is
\* kept, of several origins the last one, also if it is empty.
BuildWorkRecord(meta) ==
  LET At(field) == {i \in DOMAIN meta : Field(meta[i].label) = field}
      dated == {i \in At("date") : IsDate(meta[i].date)}
  IN [langs |-> {meta[i].lang : i \in At("language")} \ {Unknown},
      date |-> IF dated = {} THEN NoDate ELSE ParseDateRange(meta[Max(dated)].date),
      origin |-> IF At("origin") = {} THEN {} ELSE meta[Max(At("origin"))].origin]

-----------------------------------------------------------------------------

\* A bound that is not given is 0.
filter(langs, from, to, places) ==
  [langs |-> langs, hasDate |-> from # 0 \/ to # 0,
   date |-> [start |-> from, end |-> to], places |-> places]

FailsLanguage(f, rec) ==
  f.langs # {} /\ rec.langs # {} /\ f.langs \cap rec.langs = {}

\* Mutant of FailsDate: a date that is only partly in the range is excluded.
FailsDatePartly(f, rec) ==
  /\ f.hasDate /\ rec.date # NoDate
  /\ ~(f.date.start <= rec.date.start /\ rec.date.end <= f.date.end)

FailsDate(f, rec) ==
  /\ f.hasDate /\ rec.date # NoDate
  /\ ~(rec.date.start <= f.date.end /\ f.date.start <= rec.date.end)

FailsOrigin(f, rec) ==
  f.places # {} /\ rec.origin # {} /\ f.places \cap rec.origin = {}

Excluded(f, rec) ==
  FailsLanguage(f, rec) \/ FailsDate(f, rec) \/ FailsOrigin(f, rec)
=============================================================================
