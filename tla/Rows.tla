-------------------------------- MODULE Rows --------------------------------
(***************************************************************************)
(* A table as go/internal/database/service.go sees it through gorm: a set  *)
(* of rows with their time of creation, soft deleted rows among them.  A   *)
(* save is INSERT ... ON CONFLICT DO UPDATE of every column but the primary*)
(* key and created_at, deleted_at included: it brings a deleted row back.  *)
(***************************************************************************)
EXTENDS Naturals, FiniteSets, Sequences, SequencesExt

Key(fields, row)      == [f \in fields |-> row[f]]
Matches(row, clauses) == \A f \in DOMAIN clauses : row[f] = clauses[f]

\* Mutant: the columns that are updated leave out deleted_at.
SavedStillDeleted(table, primary, row, now) ==
    LET old == {r \in table : Key(primary, r.row) = Key(primary, row)} IN
    (table \ old) \cup {[row |-> row, at |-> now, gone |-> \E r \in old : r.gone]}

Saved(table, primary, row, now) ==
    LET old == {r \in table : Key(primary, r.row) = Key(primary, row)}
        at  == IF old = {} THEN now ELSE (CHOOSE r \in old : TRUE).at IN
    (table \ old) \cup {[row |-> row, at |-> at, gone |-> FALSE]}

\* Several saves in one transaction, of rows that each have a key of their own.
SavedAll(table, primary, rows, now) ==
    {r \in table : \A row \in rows : Key(primary, r.row) # Key(primary, row)}
        \cup UNION {Saved({r \in table : Key(primary, r.row) = Key(primary, row)}, primary, row, now) :
                      row \in rows}

Deleted(table, clauses) ==
    {IF Matches(r.row, clauses) THEN [r EXCEPT !.gone = TRUE] ELSE r : r \in table}

Found(table, clauses) == {r \in table : ~r.gone /\ Matches(r.row, clauses)}

\* ORDER BY created_at.  Every save has an instant of its own here: the i-th row is
\* the one with i rows, itself included, up to it.
OldestFirst(found) ==
    [i \in 1..Cardinality(found) |->
        CHOOSE r \in found : Cardinality({o \in found : o.at <= r.at}) = i]
NewestFirst(found) ==
    [i \in 1..Cardinality(found) |->
        CHOOSE r \in found : Cardinality({o \in found : o.at >= r.at}) = i]

\* What a query returns is the rows without gorm's own columns.
Plain(found)       == {r.row : r \in found}
InSequence(sorted) == [i \in DOMAIN sorted |-> sorted[i].row]
=============================================================================
