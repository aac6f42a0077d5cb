------------------------------ MODULE TableGrid ------------------------------
(***************************************************************************)
(* How the cells of a table are placed on a grid (parse_markup in          *)
(* src/src/disclosure_db/parsers.py).                                      *)
(*                                                                         *)
(* A table is a sequence of rows, a row a sequence of cells                *)
(* [rowspan, colspan].  Rows and columns count from 0, as in the locators  *)
(* that the evidence id of a cell is computed from.                        *)
(***************************************************************************)
EXTENDS Naturals, FiniteSets, SequencesExt

\* A cell covers at least its own position (_positive_span).
TableCells == [rowspan : Nat \ {0}, colspan : Nat \ {0}]

\* Faulty variant of GridPosition: cells are counted, not positions.
CountedPosition(row, occupied) == Cardinality({p \in occupied : p[1] < row})

\* _grid_position: the first column of the row that nothing occupies.
GridPosition(row, occupied) ==
    CHOOSE c \in 0 .. Cardinality(occupied) :
        <<row, c>> \notin occupied /\ \A d \in 0 .. c - 1 : <<row, d>> \in occupied

\* The positions a cell covers, down and to the right.
Covered(row, column, cell) ==
    (row .. row + cell.rowspan - 1) \X (column .. column + cell.colspan - 1)

Place(grid, row, cell) ==
    LET column == GridPosition(row, grid.occupied)
    IN  [placed |-> Append(grid.placed, [row |-> row, column |-> column, cell |-> cell]),
         occupied |-> grid.occupied \cup Covered(row, column, cell)]

\* The cells in the order of the document, each with its row.
Items(table) ==
    FlattenSeq([r \in DOMAIN table |->
                    [c \in DOMAIN table[r] |-> [row |-> r - 1, cell |-> table[r][c]]]])

\* The grid after each of them.
Filled(items) ==
    LET grid[n \in 0 .. Len(items)] ==
            IF n = 0 THEN [placed |-> <<>>, occupied |-> {}]
            ELSE Place(grid[n - 1], items[n].row, items[n].cell)
    IN  grid

Cells(table) == Filled(Items(table))[Len(Items(table))].placed

\* The evidence id of a cell is a digest of its position, and the primary key of
\* the table: no cell starts where another one does, or where an earlier one reaches
\* with its spans.
GridSound(table) ==
    LET placed == Cells(table)
    IN  \A i, j \in DOMAIN placed :
            i < j => <<placed[j].row, placed[j].column>>
                        \notin Covered(placed[i].row, placed[i].column, placed[i].cell)
==============================================================================
