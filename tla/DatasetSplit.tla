---------------------------- MODULE DatasetSplit ----------------------------
(***************************************************************************)
(* ImportCSV: how replication cuts a dataset, an adjacency matrix with     *)
(* labelled rows and columns, into units of RowUnit by ColumnUnit cells.   *)
(* The importers of the three applications are copies of one another.      *)
(* A cell is known by its row and column.  A unit refers to its matrix     *)
(* dayData; replicate writes the units out after all of them were made, so *)
(* what a unit stores is what the matrix holds at the end.                 *)
(***************************************************************************)
EXTENDS Naturals, Sequences, FiniteSets

CONSTANTS RowUnit, ColumnUnit,   \* CONFIG: rows and columns of a full unit
          MaxRows, MaxColumns    \* bounds on the datasets explored

ASSUME UnitAssumption == RowUnit \in Nat \ {0} /\ ColumnUnit \in Nat \ {0}
ASSUME BoundsAssumption == MaxRows \in Nat /\ MaxColumns \in Nat

VARIABLES rows, columns,   \* size of the dataset, without the labels
          pc,              \* where ImportCSV stands
          i, j,            \* the band of rows and of columns it is at
          units,           \* allDataUnits
          matrices         \* every dayData that was allocated

vars == <<rows, columns, pc, i, j, units, matrices>>

RowsLeft == rows % RowUnit
ColumnsLeft == columns % ColumnUnit
RowBands == rows \div RowUnit + (IF RowsLeft = 0 THEN 0 ELSE 1)
ColumnBands == columns \div ColumnUnit + (IF ColumnsLeft = 0 THEN 0 ELSE 1)

Init == /\ rows \in 0..MaxRows
        /\ columns \in 0..MaxColumns
        /\ pc = "load"
        /\ i = 0
        /\ j = 0
        /\ units = <<>>
        /\ matrices = <<>>

(* Mutant: the start of the copied range is left out.                      *)
SpanFromStart(k, unit, n) == [p \in 1..n |-> p]

(* Arrays.copyOfRange: n labels from the beginning of band k.              *)
Span(k, unit, n) == [p \in 1..n |-> k * unit + p]

Cells(rowIPs, columnIPs) ==
  [p \in 1..Len(rowIPs) |-> [q \in 1..Len(columnIPs) |-> <<rowIPs[p], columnIPs[q]>>]]

Unit(rowIPs, columnIPs, m) ==
  [rowIPs |-> rowIPs, columnIPs |-> columnIPs, dayData |-> m]

(* A unit with a matrix of its own.                                        *)
AddUnit(rowIPs, columnIPs) ==
  /\ matrices' = Append(matrices, Cells(rowIPs, columnIPs))
  /\ units' = Append(units, Unit(rowIPs, columnIPs, Len(matrices) + 1))

(* A unit whose cells overwrite the matrix allocated last.                 *)
ReuseMatrix(rowIPs, columnIPs) ==
  /\ matrices' = [matrices EXCEPT ![Len(matrices)] = Cells(rowIPs, columnIPs)]
  /\ units' = Append(units, Unit(rowIPs, columnIPs, Len(matrices)))

(* Both dimensions are smaller than a unit.                                *)
SingleUnit == /\ pc = "load"
              /\ rows < RowUnit /\ columns < ColumnUnit
              /\ AddUnit(Span(0, RowUnit, rows), Span(0, ColumnUnit, columns))
              /\ pc' = "done"
              /\ UNCHANGED <<rows, columns, i, j>>

(* One dimension is smaller and the other one larger: "to be done".        *)
NotCovered == \/ rows < RowUnit /\ columns > ColumnUnit
              \/ rows > RowUnit /\ columns < ColumnUnit

NoUnits == /\ pc = "load"
           /\ NotCovered
           /\ pc' = "done"
           /\ UNCHANGED <<rows, columns, i, j, units, matrices>>

StartSplit == /\ pc = "load"
              /\ ~ (rows < RowUnit /\ columns < ColumnUnit)
              /\ ~ NotCovered
              /\ pc' = IF RowBands > 0 /\ ColumnBands > 0 THEN "split" ELSE "done"
              /\ UNCHANGED <<rows, columns, i, j, units, matrices>>

(* The loop over the bands of columns inside the one over those of rows.   *)
NextBand == /\ \/ /\ j + 1 < ColumnBands
                  /\ j' = j + 1
                  /\ UNCHANGED <<i, pc>>
               \/ /\ j + 1 >= ColumnBands /\ i + 1 < RowBands
                  /\ i' = i + 1 /\ j' = 0
                  /\ UNCHANGED pc
               \/ /\ j + 1 >= ColumnBands /\ i + 1 >= RowBands
                  /\ pc' = "done"
                  /\ UNCHANGED <<i, j>>
            /\ UNCHANGED <<rows, columns>>

FullRows == Span(i, RowUnit, RowUnit)
FullColumns == Span(j, ColumnUnit, ColumnUnit)
RowsOfBand == IF i = RowBands - 1 THEN Span(i, RowUnit, RowsLeft) ELSE FullRows
ColumnsOfBand == IF j = ColumnBands - 1 THEN Span(j, ColumnUnit, ColumnsLeft)
                                        ELSE FullColumns

(* Whole bands only: the matrix is allocated once per band of rows.        *)
BothDivide == /\ pc = "split" /\ RowsLeft = 0 /\ ColumnsLeft = 0
              /\ IF j = 0 THEN AddUnit(FullRows, FullColumns)
                          ELSE ReuseMatrix(FullRows, FullColumns)
              /\ NextBand

RowsDivide == /\ pc = "split" /\ RowsLeft = 0 /\ ColumnsLeft > 0
              /\ AddUnit(FullRows, ColumnsOfBand)
              /\ NextBand

(* Mutant: as in BothDivide, one matrix per band of rows.                  *)
ColumnsDivideReuse == /\ pc = "split" /\ RowsLeft > 0 /\ ColumnsLeft = 0
                      /\ IF j = 0 THEN AddUnit(RowsOfBand, FullColumns)
                                  ELSE ReuseMatrix(RowsOfBand, FullColumns)
                      /\ NextBand

ColumnsDivide == /\ pc = "split" /\ RowsLeft > 0 /\ ColumnsLeft = 0
                 /\ AddUnit(RowsOfBand, FullColumns)
                 /\ NextBand

NoneDivides == /\ pc = "split" /\ RowsLeft > 0 /\ ColumnsLeft > 0
               /\ AddUnit(RowsOfBand, ColumnsOfBand)
               /\ NextBand

Next == \/ SingleUnit \/ NoUnits \/ StartSplit
        \/ BothDivide \/ RowsDivide \/ ColumnsDivide \/ NoneDivides

Spec == Init /\ [][Next]_vars

-----------------------------------------------------------------------------
UnitType == [rowIPs : Seq(Nat), columnIPs : Seq(Nat), dayData : Nat]

(* The types of the variables: a unit refers to an allocated matrix.       *)
TypeOK == /\ rows \in 0..MaxRows
          /\ columns \in 0..MaxColumns
          /\ pc \in {"load", "split", "done"}
          /\ i \in Nat /\ j \in Nat
          /\ units \in Seq(UnitType)
          /\ matrices \in Seq(Seq(Seq(Nat \X Nat)))
          /\ \A k \in DOMAIN units : units[k].dayData \in DOMAIN matrices

(* What unit k will store, and what its labels say it should.              *)
Stored(k) == matrices[units[k].dayData]
Labelled(k) == Cells(units[k].rowIPs, units[k].columnIPs)

Labels(k, r, c) == /\ \E p \in DOMAIN units[k].rowIPs : units[k].rowIPs[p] = r
                   /\ \E q \in DOMAIN units[k].columnIPs : units[k].columnIPs[q] = c

(* The units' labels cut the dataset up: each row and column of it belong  *)
(* together in exactly one unit, and nothing else is labelled.  Only a     *)
(* dataset smaller than a unit one way and larger the other way is lost.   *)
EveryCellOnce == pc = "done" /\ ~ NotCovered =>
  /\ \A r \in 1..rows, c \in 1..columns :
       Cardinality({k \in DOMAIN units : Labels(k, r, c)}) = 1
  /\ \A k \in DOMAIN units :
       /\ units[k].rowIPs \in Seq(1..rows)
       /\ units[k].columnIPs \in Seq(1..columns)

(* Unless the bands divide both dimensions and there are several bands of  *)
(* columns, every unit stores the cells its labels name.                   *)
Shared == RowsLeft = 0 /\ ColumnsLeft = 0 /\ columns > ColumnUnit
OwnCells == ~ Shared => \A k \in DOMAIN units : Stored(k) = Labelled(k)

(* In any case a unit stores the cells of some unit of its own rows: the   *)
(* importer may confuse bands of columns, never rows.                      *)
OwnRows == \A k \in DOMAIN units : \E n \in DOMAIN units :
             units[n].rowIPs = units[k].rowIPs /\ Stored(k) = Labelled(n)
=============================================================================
