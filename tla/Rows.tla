-------------------------------- MODULE Rows --------------------------------
(***************************************************************************)
(* backend/internal/accidents/csv.go: what a published file is read as.    *)
(*                                                                         *)
(* A file is [header, rows], sequences of column names in lower case and   *)
(* of sequences of cells; byte order mark, delimiters, line ends and blank *)
(* around cells are gone.  One field stands for all that are read alike:   *)
(* gemeinde for the four parts of the municipality key, severity for the   *)
(* seven numbers, road for light, bike for the required flags and lon for  *)
(* both coordinates.                                                       *)
(***************************************************************************)
EXTENDS Integers, Sequences, FiniteSets

CONSTANTS
  Number,    \* the texts strconv.Atoi takes: text -> integer
  Pointed,   \* text -> text, with a decimal point for a comma
  Degrees,   \* the texts strconv.ParseFloat takes: text -> number
  Matches    \* the municipality keys of the configured regions

columnAliases ==
  [gemeinde |-> <<"ugemeinde">>, severity |-> <<"ukategorie">>,
   road |-> <<"iststrassenzustand", "ustrzustand", "strzustand", "iststrasse">>,
   bike |-> <<"istrad">>, truck |-> <<"istgkfz">>, lon |-> <<"xgcswgs84">>]

Fields == DOMAIN columnAliases

requiredColumns == {"gemeinde", "severity", "bike", "lon"}

\* The position of a field: that of the first of its names the header has, the
\* last if it has it twice.
Positions(header, f) ==
  {n \in DOMAIN header : \E k \in DOMAIN columnAliases[f] :
     /\ header[n] = columnAliases[f][k]
     /\ \A j \in 1..(k - 1), m \in DOMAIN header : header[m] # columnAliases[f][j]
     /\ \A m \in DOMAIN header : m > n => header[m] # header[n]}

mapColumns(header) ==
  [f \in {g \in Fields : Positions(header, g) # {}} |-> CHOOSE n \in Positions(header, f) : TRUE]

\* get: a field that is absent, or beyond the end of a short row, is Missing.
Missing == "missing"

get(columns, row, f) ==
  IF f \in DOMAIN columns /\ columns[f] \in DOMAIN row THEN row[columns[f]] ELSE Missing

\* A number that has to be there, and a coordinate.
IsNumber(columns, row, f) == get(columns, row, f) \in DOMAIN Number
IsCoordinate(columns, row, f) ==
  get(columns, row, f) \in DOMAIN Pointed /\ Pointed[get(columns, row, f)] \in DOMAIN Degrees

NoNumber == -1

optional(columns, row, f) ==
  IF IsNumber(columns, row, f) THEN Number[get(columns, row, f)] ELSE NoNumber

flag(columns, row, f) == get(columns, row, f) = "1"

\* What parse makes of a row.
Parsed(columns, row) ==
  [ags      |-> Number[get(columns, row, "gemeinde")],
   severity |-> Number[get(columns, row, "severity")],
   road     |-> optional(columns, row, "road"),
   bike     |-> flag(columns, row, "bike"),
   truck    |-> flag(columns, row, "truck"),
   lon      |-> Degrees[Pointed[get(columns, row, "lon")]]]

validate(record) == record.severity \in 1..3 /\ record.lon \in 5..16

\* Does parse accept the row?
Accepted(columns, row) ==
  /\ IsNumber(columns, row, "gemeinde") /\ IsNumber(columns, row, "severity")
  /\ IsCoordinate(columns, row, "lon")
  /\ validate(Parsed(columns, row))

\* Mutant: the line as it is published.
hashRow_Raw(columns, row) == row

\* The digest, which tells apart whatever texts it is made from; an absent field
\* counts as an empty one, and every comma becomes a point.  The texts, not what
\* they are read as: an absent flag and 0 are two, and so are 05 and 5.
hashRow(columns, row) ==
  [f \in Fields |->
     IF get(columns, row, f) = Missing THEN "" ELSE Pointed[get(columns, row, f)]]

\* The rows of a file without stray empty lines.
Lines(file) == {n \in DOMAIN file.rows : file.rows[n] # <<"">>}

\* Mutant: a row that cannot be read is skipped.
Usable_Lenient(file) == requiredColumns \subseteq DOMAIN mapColumns(file.header)

\* The header has what is needed, and there is no row that parse refuses,
\* wherever it lies.
Usable(file) ==
  LET columns == mapColumns(file.header)
  IN  /\ requiredColumns \subseteq DOMAIN columns
      /\ \A n \in Lines(file) : Accepted(columns, file.rows[n])

\* What a whole file is, for the properties: as many accidents as lines.
Whole(file) ==
  LET columns == mapColumns(file.header)
  IN  /\ requiredColumns \subseteq DOMAIN columns
      /\ Cardinality({n \in Lines(file) : Accepted(columns, file.rows[n])})
           = Cardinality(Lines(file))

\* The accidents of a file in the configured regions, by key: the staging table
\* with DISTINCT ON (source_hash).
Staged(file) ==
  LET columns == mapColumns(file.header)
      inside == {n \in Lines(file) : Accepted(columns, file.rows[n]) /\
                                     Parsed(columns, file.rows[n]).ags \in Matches}
      key(n) == hashRow(columns, file.rows[n])
  IN  [k \in {key(n) : n \in inside} |->
         Parsed(columns, file.rows[CHOOSE n \in inside : key(n) = k])]
=============================================================================
