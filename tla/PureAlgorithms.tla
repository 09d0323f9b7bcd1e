--------------------------- MODULE PureAlgorithms ---------------------------
(***************************************************************************)
(* The computations of TilePlan and WorkFilter over bounded inputs: a      *)
(* state is one input, either an image or a work and a query.              *)
(***************************************************************************)
EXTENDS TilePlan, WorkFilter

CONSTANTS
  MaxSide,      \* bounds the sides of an image
  MinTileSize,  \* bounds the tile size
  MaxTileSize,
  Entries,      \* metadata entries
  MaxEntries,   \* bounds the entries of a work
  Queries,      \* what -lang, -from, -to and -place may be
  NoInput

\* A factor never asks for more files than the doctor is ready to look for:
\* tiles have 512 pixels a side and a JPEG has at most 65535.
ASSUME InputAssumption ==
  /\ MaxSide \in Nat \ {0}
  /\ MinTileSize \in Nat \ {0}
  /\ MaxTileSize \in Nat
  /\ ceilDiv(MaxSide, MinTileSize) * ceilDiv(MaxSide, MinTileSize) <= MaxFiles
  /\ Entries \subseteq Entry
  /\ MaxEntries \in Nat
  /\ Queries \subseteq
       [langs : SUBSET STRING, from : Int, to : Int, places : SUBSET STRING]

VARIABLES image, meta, query

inputVars == <<image, meta, query>>

Images ==
  [width : 1..MaxSide, height : 1..MaxSide, tileSize : MinTileSize..MaxTileSize]

Works == UNION {[1..n -> Entries] : n \in 0..MaxEntries}

InputInit ==
  \/ image \in Images /\ meta = NoInput /\ query = NoInput
  \/ image = NoInput /\ meta \in Works /\ query \in Queries

InputSpec == InputInit /\ [][UNCHANGED inputVars]_inputVars

\* tile.go:147-172, doctor.go:300-333: whatever the sides of an image, at each
\* scale its tiles partition it, and the doctor looks for exactly the files
\* that were written.
PyramidIsComplete ==
  image # NoInput =>
    LET w == image.width
        h == image.height
        t == image.tileSize
    IN Partition(w, h, t) /\ Expected(InfoJSON(w, h, t)) = Rendered(w, h, t)

Work == BuildWorkRecord(meta)

Query == filter(query.langs, query.from, query.to, query.places)

\* The years a text denotes, read off its form.
Years(text) ==
  LET n == text.numbers IN
  CASE text.form = "year" -> {n[1]}
    [] text.form = "range" -> n[1]..n[2] \cup n[2]..n[1]
    [] text.form = "circa" -> {n[1] + d : d \in -circaSlack..circaSlack}
    [] text.form = "century" -> {100 * (n[1] - 1) + y : y \in 1..100}
    [] text.form = "roman" -> {100 * (romanToInt(n) - 1) + y : y \in 1..100}

\* date.go:68-124, filter.go:55-64: a work with one date is excluded for it
\* exactly if none of the years its text denotes was asked for, provided the
\* query gives both bounds in order and the date is not the year 0.
DateDecidesByYears ==
  (meta # NoInput /\ Query.hasDate /\ query.from <= query.to) =>
    LET dates == {i \in DOMAIN meta :
                    Field(meta[i].label) = "date" /\ IsDate(meta[i].date)}
    IN \A i \in dates : dates = {i} /\ Years(meta[i].date) # {0} =>
         (FailsDate(Query, Work)
            <=> Years(meta[i].date) \cap query.from..query.to = {})

\* What the flags say of a year (main.go:154-155): from the earliest to the
\* latest, both inclusive; a bound of 0 is not given.
Asked(year) ==
  /\ query.from # 0 => query.from <= year
  /\ query.to # 0 => year <= query.to

\* -from without -to.  The filter takes the missing bound for the year 0, so
\* that no later date is kept.
FromAlone == query.from # 0 /\ query.to = 0

\* filter.go:8-14: a work is excluded only for an entry it has whose value was
\* understood and is none of those asked for: a date none of whose years is
\* between the bounds given.  What is absent, unmapped or unreadable never
\* excludes it.  Queries with -from alone are exempt: they exclude works whose
\* years were asked for.
ExcludedOnlyOnData ==
  (meta # NoInput /\ ~FromAlone /\ Excluded(Query, Work)) =>
    \E i \in DOMAIN meta :
      LET field == Field(meta[i].label) IN
      \/ /\ field = "language"
         /\ meta[i].lang \notin query.langs \cup {Unknown}
      \/ /\ field = "date" /\ IsDate(meta[i].date)
         /\ \A year \in Years(meta[i].date) : ~Asked(year)
      \/ /\ field = "origin" /\ meta[i].origin # {}
         /\ meta[i].origin \cap query.places = {}
=============================================================================
