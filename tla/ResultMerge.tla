----------------------------- MODULE ResultMerge -----------------------------
(***************************************************************************)
(* Convert of internal/resultset/convert.go: the result sets Yearning       *)
(* returns become one. A set is a sequence of fields and a sequence of      *)
(* rows, each row a function from field keys to values.                     *)
(*                                                                         *)
(* Names are sequences: the title a is <<"a">>, and what the code makes of  *)
(* a second column of that title, a(1), is <<"a", 1>>, which a column may   *)
(* also have as its title.                                                  *)
(***************************************************************************)
EXTENDS Naturals, Sequences, FiniteSets, SequencesExt

Null  == <<"NULL">>
Blank0 == <<>>  \* an empty title or dataIndex

\* The title of field k, which an empty one takes from elsewhere.
TitleOf(fields, k) ==
  CASE fields[k].title # Blank0     -> fields[k].title
    [] fields[k].dataIndex # Blank0 -> fields[k].dataIndex
    [] OTHER                        -> <<"col_", k - 1>>

Titles(fields) == [k \in DOMAIN fields |-> TitleOf(fields, k)]

KeyOf(fields, k) ==
  IF fields[k].dataIndex # Blank0 THEN fields[k].dataIndex ELSE TitleOf(fields, k)

\* A title that occurred before gets a number.
NameOf(fields, k) ==
  LET seen == Cardinality({j \in 1..k : TitleOf(fields, j) = TitleOf(fields, k)})
  IN  IF seen = 1 THEN TitleOf(fields, k) ELSE Append(TitleOf(fields, k), seen - 1)

Columns(fields) ==
  [k \in DOMAIN fields |-> [name |-> NameOf(fields, k), key |-> KeyOf(fields, k)]]

Names(cols) == [k \in DOMAIN cols |-> cols[k].name]
Keys(cols)  == [k \in DOMAIN cols |-> cols[k].key]

RowsOf(rows, keys) ==
  [r \in DOMAIN rows |->
     [k \in DOMAIN keys |-> IF keys[k] \in DOMAIN rows[r] THEN rows[r][keys[k]] ELSE Null]]

Aligns(cols, want) ==
  /\ Len(cols) = Len(want)
  /\ IsInjective(Names(cols))
  /\ Range(want) \subseteq Range(Names(cols))

\* Mutant: the columns are taken in the order in which they come.
MutAlignKeys(cols, want) == Keys(cols)

AlignKeys(cols, want) ==
  [k \in DOMAIN want |-> (CHOOSE c \in Range(cols) : c.name = want[k]).key]

\* convertQuery
Converted(set) == RowsOf(set.rows, Keys(Columns(set.fields)))

\* convertMerged: the sets that do not fit the first one are left out.
Merged(sets) ==
  LET want == Names(Columns(sets[1].fields))
      Part(set) == LET cols == Columns(set.fields)
                   IN  IF Aligns(cols, want) THEN RowsOf(set.rows, AlignKeys(cols, want))
                       ELSE <<>>
  IN  Converted(sets[1]) \o FlattenSeq([k \in 1..(Len(sets) - 1) |-> Part(sets[k + 1])])

\* Nothing to answer with: no set, or a first one of several without columns.
NoResult(sets) == sets = <<>> \/ (Len(sets) > 1 /\ sets[1].fields = <<>>)

\* Which is an error. (Merged has the rows of convertQuery for a single set.)
Convert(sets) ==
  IF NoResult(sets) THEN [ok |-> FALSE, rows |-> <<>>] ELSE [ok |-> TRUE, rows |-> Merged(sets)]

-----------------------------------------------------------------------------
\* The row as the client sees it: the values by the names of their columns.
ByName(row, names) == {<<names[k], row[k]>> : k \in DOMAIN row}

\* Where no source sends a title twice, a row of any source says of every title
\* what it says when that source is asked alone, in whatever order the columns
\* come, and nothing of it is lost; and the sources that are left out are those
\* whose titles are not those of the first.
\*
\* The exception is no detail. The comments of convertMerged and alignKeys say
\* that a source whose names repeat is given up, as it cannot be aligned by
\* name; but alignKeys gets the names that Columns has numbered, which differ.
\* The two columns of a source that are both called a are merged with those of
\* another in the order in which they come, whatever they hold.
RowsAligned(sets) ==
  LET result == Convert(sets)
      want   == Titles(sets[1].fields)
      Own(set) == IF Range(Titles(set.fields)) = Range(want)
                  THEN [r \in DOMAIN set.rows |->
                          ByName(Converted(set)[r], Titles(set.fields))]
                  ELSE <<>>
      rows == SubSeq(result.rows, Len(sets[1].rows) + 1, Len(result.rows))
      own  == FlattenSeq([k \in 1..(Len(sets) - 1) |-> Own(sets[k + 1])])
  IN  result.ok /\ (\A k \in DOMAIN sets : IsInjective(Titles(sets[k].fields))) =>
        /\ Len(rows) = Len(own)
        /\ \A r \in DOMAIN rows :
             Len(rows[r]) = Len(want) /\ ByName(rows[r], want) = own[r]
=============================================================================
