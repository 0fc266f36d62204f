------------------------- MODULE DatasetSplit_proofs -------------------------
(***************************************************************************)
(* What ImportCSV stores, for units and datasets of any size.              *)
(***************************************************************************)
EXTENDS DatasetSplit, FiniteSetTheorems, TLAPS

(* In a band of rows of an import that shares matrices, the matrix that    *)
(* was allocated last belongs to units of these rows only, and a band of   *)
(* columns is followed by another one only if there are several.           *)
LastMatrix == pc = "split" /\ RowsLeft = 0 /\ ColumnsLeft = 0 /\ j > 0 =>
                /\ Shared
                /\ Len(matrices) > 0
                /\ \A k \in DOMAIN units :
                     units[k].dayData = Len(matrices) => units[k].rowIPs = FullRows

AtStart == pc = "load" => j = 0

IInv == TypeOK /\ AtStart /\ LastMatrix /\ OwnCells /\ OwnRows

USE UnitAssumption, BoundsAssumption

(* Remainders and the number of bands are natural numbers.                 *)
LEMMA Counts ==
  ASSUME TypeOK
  PROVE  /\ rows \in Nat /\ columns \in Nat
         /\ RowsLeft \in Nat /\ ColumnsLeft \in Nat
         /\ RowBands \in Nat /\ ColumnBands \in Nat
<1>1. rows \in Nat /\ columns \in Nat
  BY DEF TypeOK
<1>2. RowsLeft \in Nat /\ ColumnsLeft \in Nat
  BY <1>1 DEF RowsLeft, ColumnsLeft
<1>3. rows \div RowUnit \in Nat /\ columns \div ColumnUnit \in Nat
  BY <1>1
<1>4. QED BY <1>1, <1>2, <1>3 DEF RowBands, ColumnBands

(* What Append does to a sequence.                                         *)
LEMMA AppendFacts ==
  ASSUME NEW S, NEW s \in Seq(S), NEW e \in S
  PROVE  /\ Append(s, e) \in Seq(S)
         /\ Len(s) \in Nat /\ DOMAIN s = 1..Len(s)
         /\ Len(Append(s, e)) = Len(s) + 1
         /\ DOMAIN Append(s, e) = 1..(Len(s) + 1)
         /\ Append(s, e)[Len(s) + 1] = e
         /\ \A k \in 1..Len(s) : Append(s, e)[k] = s[k]
OBVIOUS

(* Several bands of columns need more columns than a unit has.             *)
LEMMA SeveralBands ==
  ASSUME TypeOK, ColumnsLeft = 0, ColumnBands > 1
  PROVE  columns > ColumnUnit
<1>1. columns \in Nat /\ columns \div ColumnUnit > 1
  BY DEF TypeOK, ColumnBands
<1>2. QED BY <1>1

(* A span is a sequence of labels.                                         *)
LEMMA SpanType ==
  ASSUME NEW k \in Nat, NEW unit \in Nat, NEW n \in Nat
  PROVE  Span(k, unit, n) \in Seq(Nat)
<1>1. \A p \in 1..n : k * unit + p \in Nat
  OBVIOUS
<1>2. QED BY <1>1 DEF Span

(* The labels an import may use next.                                      *)
LEMMA BandTypes ==
  ASSUME TypeOK
  PROVE  /\ FullRows \in Seq(Nat) /\ FullColumns \in Seq(Nat)
         /\ RowsOfBand \in Seq(Nat) /\ ColumnsOfBand \in Seq(Nat)
         /\ Span(0, RowUnit, rows) \in Seq(Nat)
         /\ Span(0, ColumnUnit, columns) \in Seq(Nat)
BY Counts, SpanType DEF TypeOK, FullRows, FullColumns, RowsOfBand, ColumnsOfBand

(* The matrix of a unit has the type of a matrix.                          *)
LEMMA CellsType ==
  ASSUME NEW R \in Seq(Nat), NEW C \in Seq(Nat)
  PROVE  Cells(R, C) \in Seq(Seq(Nat \X Nat))
<1>1. \A p \in 1..Len(R), q \in 1..Len(C) : <<R[p], C[q]>> \in Nat \X Nat
  OBVIOUS
<1>2. \A p \in 1..Len(R) :
        [q \in 1..Len(C) |-> <<R[p], C[q]>>] \in Seq(Nat \X Nat)
  BY <1>1
<1>3. QED BY <1>2 DEF Cells

(* Adding a unit with a matrix of its own keeps what earlier units store.  *)
LEMMA AddUnitKeeps ==
  ASSUME TypeOK, NEW R \in Seq(Nat), NEW C \in Seq(Nat), AddUnit(R, C),
         NEW n, n = Len(units) + 1
  PROVE  /\ units' \in Seq(UnitType)
         /\ n \in Nat /\ DOMAIN units = 1..(n - 1) /\ DOMAIN units' = 1..n
         /\ matrices' \in Seq(Seq(Seq(Nat \X Nat)))
         /\ Len(matrices) \in Nat /\ Len(matrices') = Len(matrices) + 1
         /\ \A k \in 1..(n - 1) :
              /\ units'[k] = units[k]
              /\ units[k].dayData # Len(matrices')
              /\ Stored(k)' = Stored(k) /\ Labelled(k)' = Labelled(k)
         /\ units'[n].rowIPs = R /\ units'[n].dayData = Len(matrices')
         /\ Stored(n)' = Cells(R, C) /\ Labelled(n)' = Cells(R, C)
         /\ \A k \in 1..n : units'[k].dayData \in DOMAIN matrices'
<1> DEFINE M == Cells(R, C)
           U == Unit(R, C, Len(matrices) + 1)
<1>1. M \in Seq(Seq(Nat \X Nat))
  BY CellsType
<1>2. /\ matrices' = Append(matrices, M) /\ units' = Append(units, U)
      /\ matrices \in Seq(Seq(Seq(Nat \X Nat))) /\ units \in Seq(UnitType)
      /\ \A k \in DOMAIN units : units[k].dayData \in DOMAIN matrices
  BY DEF TypeOK, AddUnit
<1>3. Len(matrices) \in Nat
  BY <1>2
<1>4. U \in UnitType
  BY <1>3 DEF Unit, UnitType
<1>5. /\ U.rowIPs = R /\ U.columnIPs = C /\ U.dayData = Len(matrices) + 1
  BY DEF Unit
<1> HIDE DEF M, U
<1>6. /\ matrices' \in Seq(Seq(Seq(Nat \X Nat)))
      /\ Len(matrices') = Len(matrices) + 1
      /\ DOMAIN matrices = 1..Len(matrices)
      /\ DOMAIN matrices' = 1..(Len(matrices) + 1)
      /\ matrices'[Len(matrices) + 1] = M
      /\ \A m \in 1..Len(matrices) : matrices'[m] = matrices[m]
  BY <1>1, <1>2, AppendFacts
<1>7. /\ units' \in Seq(UnitType)
      /\ n \in Nat /\ DOMAIN units = 1..(n - 1) /\ DOMAIN units' = 1..n
      /\ units'[n] = U
      /\ \A k \in 1..(n - 1) : units'[k] = units[k]
  BY <1>2, <1>4, AppendFacts
<1>8. \A k \in 1..(n - 1) :
        /\ units[k].dayData \in 1..Len(matrices)
        /\ units[k].dayData # Len(matrices')
  <2> TAKE k \in 1..(n - 1)
  <2>1. units[k].dayData \in 1..Len(matrices)
    BY <1>2, <1>6, <1>7
  <2>2. QED BY <2>1, <1>3, <1>6
<1>9. \A k \in 1..(n - 1) : Stored(k)' = Stored(k) /\ Labelled(k)' = Labelled(k)
  <2> TAKE k \in 1..(n - 1)
  <2>1. matrices'[units[k].dayData] = matrices[units[k].dayData]
    BY <1>6, <1>8
  <2>2. QED BY <2>1, <1>7 DEF Stored, Labelled
<1>10. Stored(n)' = M /\ Labelled(n)' = M
  BY <1>5, <1>6, <1>7 DEF Stored, Labelled, M
<1>11. \A k \in 1..n : units'[k].dayData \in DOMAIN matrices'
  <2> TAKE k \in 1..n
  <2>1. CASE k = n
    BY <2>1, <1>3, <1>5, <1>6, <1>7
  <2>2. CASE k # n
    <3>1. k \in 1..(n - 1)
      BY <2>2, <1>7
    <3>2. QED BY <3>1, <1>3, <1>6, <1>7, <1>8
  <2>3. QED BY <2>1, <2>2
<1>12. QED BY <1>3, <1>5, <1>6, <1>7, <1>8, <1>9, <1>10, <1>11 DEF M

(* Writing over the matrix allocated last changes what the units that      *)
(* refer to it store: the cells of the new unit.                           *)
LEMMA ReuseMatrixKeeps ==
  ASSUME TypeOK, Len(matrices) > 0, NEW R \in Seq(Nat), NEW C \in Seq(Nat),
         ReuseMatrix(R, C), NEW n, n = Len(units) + 1
  PROVE  /\ units' \in Seq(UnitType)
         /\ n \in Nat /\ DOMAIN units = 1..(n - 1) /\ DOMAIN units' = 1..n
         /\ matrices' \in Seq(Seq(Seq(Nat \X Nat)))
         /\ Len(matrices') = Len(matrices)
         /\ \A k \in 1..(n - 1) :
              /\ units'[k] = units[k]
              /\ Labelled(k)' = Labelled(k)
              /\ Stored(k)' = IF units[k].dayData = Len(matrices) THEN Cells(R, C)
                                                                  ELSE Stored(k)
         /\ units'[n].rowIPs = R /\ units'[n].dayData = Len(matrices)
         /\ Stored(n)' = Cells(R, C) /\ Labelled(n)' = Cells(R, C)
         /\ \A k \in 1..n : units'[k].dayData \in DOMAIN matrices'
<1> DEFINE M == Cells(R, C)
           U == Unit(R, C, Len(matrices))
<1>1. M \in Seq(Seq(Nat \X Nat))
  BY CellsType
<1>2. /\ matrices' = [matrices EXCEPT ![Len(matrices)] = M]
      /\ units' = Append(units, U)
      /\ matrices \in Seq(Seq(Seq(Nat \X Nat))) /\ units \in Seq(UnitType)
      /\ \A k \in DOMAIN units : units[k].dayData \in DOMAIN matrices
  BY DEF TypeOK, ReuseMatrix
<1>3. Len(matrices) \in Nat /\ Len(matrices) \in 1..Len(matrices)
  BY <1>2
<1>4. U \in UnitType
  BY <1>3 DEF Unit, UnitType
<1>5. /\ U.rowIPs = R /\ U.columnIPs = C /\ U.dayData = Len(matrices)
  BY DEF Unit
<1> HIDE DEF M, U
<1>6. /\ matrices' \in Seq(Seq(Seq(Nat \X Nat)))
      /\ Len(matrices') = Len(matrices)
      /\ DOMAIN matrices = 1..Len(matrices)
      /\ DOMAIN matrices' = 1..Len(matrices)
      /\ matrices'[Len(matrices)] = M
      /\ \A m \in 1..Len(matrices) : m # Len(matrices) => matrices'[m] = matrices[m]
  BY <1>1, <1>2, <1>3
<1>7. /\ units' \in Seq(UnitType)
      /\ n \in Nat /\ DOMAIN units = 1..(n - 1) /\ DOMAIN units' = 1..n
      /\ units'[n] = U
      /\ \A k \in 1..(n - 1) : units'[k] = units[k]
  BY <1>2, <1>4, AppendFacts
<1>8. \A k \in 1..(n - 1) : units[k].dayData \in 1..Len(matrices)
  BY <1>2, <1>6, <1>7
<1>9. \A k \in 1..(n - 1) : Labelled(k)' = Labelled(k)
  BY <1>7 DEF Labelled
<1>10. \A k \in 1..(n - 1) :
         Stored(k)' = IF units[k].dayData = Len(matrices) THEN M ELSE Stored(k)
  BY <1>6, <1>7, <1>8 DEF Stored
<1>11. Stored(n)' = M /\ Labelled(n)' = M
  BY <1>5, <1>6, <1>7 DEF Stored, Labelled, M
<1>12. \A k \in 1..n : units'[k].dayData \in DOMAIN matrices'
  <2> TAKE k \in 1..n
  <2>1. CASE k = n
    BY <2>1, <1>3, <1>5, <1>6, <1>7
  <2>2. CASE k # n
    <3>1. k \in 1..(n - 1)
      BY <2>2, <1>7
    <3>2. QED BY <3>1, <1>6, <1>7, <1>8
  <2>3. QED BY <2>1, <2>2
<1>13. QED BY <1>5, <1>6, <1>7, <1>9, <1>10, <1>11, <1>12 DEF M

(* The rows of a band stay the same while the import is at it.             *)
LEMMA SameBand ==
  ASSUME UNCHANGED <<rows, columns>>
  PROVE  /\ RowsLeft' = RowsLeft /\ ColumnsLeft' = ColumnsLeft
         /\ NotCovered' = NotCovered /\ Shared' = Shared
         /\ (i' = i => FullRows' = FullRows)
BY DEF RowsLeft, ColumnsLeft, NotCovered, Shared, FullRows, Span

(* Going to the next band leaves a band of columns behind or starts over.  *)
LEMMA NextBandFacts ==
  ASSUME TypeOK, NextBand
  PROVE  /\ UNCHANGED <<rows, columns>>
         /\ pc' \in {pc, "done"}
         /\ i' \in Nat /\ j' \in Nat
         /\ j' > 0 /\ pc' # "done" => i' = i /\ ColumnBands > 1
BY Counts DEF NextBand, TypeOK

(* A new unit with a matrix of its own keeps the invariant.                *)
LEMMA AddUnitStep ==
  ASSUME IInv, NEW R \in Seq(Nat), NEW C \in Seq(Nat), AddUnit(R, C),
         UNCHANGED <<rows, columns>>,
         pc' \in {"split", "done"}, i' \in Nat, j' \in Nat,
         pc' = "split" /\ RowsLeft = 0 /\ ColumnsLeft = 0 /\ j' > 0 =>
           /\ Shared /\ i' = i /\ R = FullRows
  PROVE  IInv'
<1> USE DEF IInv
<1>1. PICK n : n = Len(units) + 1
  OBVIOUS
<1>2. /\ units' \in Seq(UnitType)
      /\ n \in Nat /\ DOMAIN units = 1..(n - 1) /\ DOMAIN units' = 1..n
      /\ matrices' \in Seq(Seq(Seq(Nat \X Nat)))
      /\ Len(matrices) \in Nat /\ Len(matrices') = Len(matrices) + 1
      /\ \A k \in 1..n : units'[k].dayData \in DOMAIN matrices'
  BY <1>1, AddUnitKeeps
<1>3. \A k \in 1..(n - 1) :
        /\ units'[k] = units[k]
        /\ units[k].dayData # Len(matrices')
        /\ Stored(k)' = Stored(k) /\ Labelled(k)' = Labelled(k)
  BY <1>1, AddUnitKeeps
<1>4. /\ units'[n].rowIPs = R /\ units'[n].dayData = Len(matrices')
      /\ Stored(n)' = Cells(R, C) /\ Labelled(n)' = Cells(R, C)
  BY <1>1, AddUnitKeeps
<1>5. \A k \in 1..n : k = n \/ k \in 1..(n - 1)
  BY <1>2
<1>6. n \in 1..n /\ \A k \in 1..(n - 1) : k \in 1..n
  <2>1. n \in 1..n
    BY <1>1, <1>2 DEF TypeOK
  <2>2. QED BY <2>1, <1>2
<1>7. /\ RowsLeft' = RowsLeft /\ ColumnsLeft' = ColumnsLeft /\ Shared' = Shared
      /\ i' = i => FullRows' = FullRows
  BY SameBand
<1>8. TypeOK'
  BY <1>2 DEF TypeOK
<1>9. AtStart'
  BY DEF AtStart
<1>10. LastMatrix'
  <2> SUFFICES ASSUME pc' = "split", RowsLeft = 0, ColumnsLeft = 0, j' > 0
               PROVE  /\ Shared' /\ Len(matrices') > 0
                      /\ \A k \in 1..n : units'[k].dayData = Len(matrices')
                                         => units'[k].rowIPs = FullRows'
    BY <1>2, <1>7 DEF LastMatrix
  <2>1. Shared /\ R = FullRows /\ FullRows' = FullRows
    BY <1>7
  <2>2. Len(matrices') > 0
    BY <1>2
  <2>3. QED BY <2>1, <2>2, <1>3, <1>4, <1>5, <1>7
<1>11. OwnCells'
  BY <1>2, <1>3, <1>4, <1>5, <1>7 DEF OwnCells
<1>12. OwnRows'
  <2> SUFFICES ASSUME NEW k \in 1..n
               PROVE  \E m \in 1..n : /\ units'[m].rowIPs = units'[k].rowIPs
                                      /\ Stored(k)' = Labelled(m)'
    BY <1>2 DEF OwnRows
  <2>1. CASE k = n
    BY <2>1, <1>4, <1>6
  <2>2. CASE k \in 1..(n - 1)
    <3>1. PICK m \in 1..(n - 1) : units[m].rowIPs = units[k].rowIPs
                                  /\ Stored(k) = Labelled(m)
      BY <2>2, <1>2 DEF OwnRows
    <3>2. QED BY <3>1, <2>2, <1>3, <1>6
  <2>3. QED BY <2>1, <2>2, <1>5
<1>13. QED BY <1>8, <1>9, <1>10, <1>11, <1>12

(* A new unit that shares the matrix of its band keeps the invariant.      *)
LEMMA ReuseMatrixStep ==
  ASSUME IInv, pc = "split", RowsLeft = 0, ColumnsLeft = 0, j > 0,
         NEW C \in Seq(Nat), ReuseMatrix(FullRows, C),
         UNCHANGED <<rows, columns>>,
         pc' \in {"split", "done"}, i' \in Nat, j' \in Nat,
         pc' = "split" /\ j' > 0 => i' = i
  PROVE  IInv'
<1> USE DEF IInv
<1>1. PICK n : n = Len(units) + 1
  OBVIOUS
<1>2. /\ Shared /\ Len(matrices) > 0
      /\ \A k \in DOMAIN units :
           units[k].dayData = Len(matrices) => units[k].rowIPs = FullRows
  BY DEF LastMatrix
<1>3. FullRows \in Seq(Nat)
  BY BandTypes
<1>4. /\ units' \in Seq(UnitType)
      /\ n \in Nat /\ DOMAIN units = 1..(n - 1) /\ DOMAIN units' = 1..n
      /\ matrices' \in Seq(Seq(Seq(Nat \X Nat)))
      /\ Len(matrices') = Len(matrices)
      /\ \A k \in 1..n : units'[k].dayData \in DOMAIN matrices'
  BY <1>1, <1>2, <1>3, ReuseMatrixKeeps
<1>5. \A k \in 1..(n - 1) :
        /\ units'[k] = units[k]
        /\ Labelled(k)' = Labelled(k)
        /\ Stored(k)' = IF units[k].dayData = Len(matrices) THEN Cells(FullRows, C)
                                                            ELSE Stored(k)
  BY <1>1, <1>2, <1>3, ReuseMatrixKeeps
<1>6. /\ units'[n].rowIPs = FullRows /\ units'[n].dayData = Len(matrices)
      /\ Stored(n)' = Cells(FullRows, C) /\ Labelled(n)' = Cells(FullRows, C)
  BY <1>1, <1>2, <1>3, ReuseMatrixKeeps
<1>7. /\ \A k \in 1..n : k = n \/ k \in 1..(n - 1)
      /\ n \in 1..n /\ \A k \in 1..(n - 1) : k \in 1..n
  <2>1. n \in 1..n
    BY <1>1, <1>4 DEF TypeOK
  <2>2. QED BY <2>1, <1>4
<1>8. /\ RowsLeft' = RowsLeft /\ ColumnsLeft' = ColumnsLeft /\ Shared' = Shared
      /\ i' = i => FullRows' = FullRows
  BY SameBand
<1>9. TypeOK'
  BY <1>4 DEF TypeOK
<1>10. AtStart'
  BY DEF AtStart
<1>11. LastMatrix'
  BY <1>2, <1>4, <1>5, <1>6, <1>7, <1>8 DEF LastMatrix
<1>12. OwnCells'
  BY <1>2, <1>8 DEF OwnCells
<1>13. OwnRows'
  <2> SUFFICES ASSUME NEW k \in 1..n
               PROVE  \E m \in 1..n : /\ units'[m].rowIPs = units'[k].rowIPs
                                      /\ Stored(k)' = Labelled(m)'
    BY <1>4 DEF OwnRows
  <2>1. CASE k = n
    BY <2>1, <1>6, <1>7
  <2>2. CASE k \in 1..(n - 1) /\ units[k].dayData = Len(matrices)
    BY <2>2, <1>2, <1>4, <1>5, <1>6, <1>7
  <2>3. CASE k \in 1..(n - 1) /\ units[k].dayData # Len(matrices)
    <3>1. PICK m \in 1..(n - 1) : units[m].rowIPs = units[k].rowIPs
                                  /\ Stored(k) = Labelled(m)
      BY <2>3, <1>4 DEF OwnRows
    <3>2. QED BY <3>1, <2>3, <1>5, <1>7
  <2>4. QED BY <2>1, <2>2, <2>3, <1>7
<1>14. QED BY <1>9, <1>10, <1>11, <1>12, <1>13

(* A new import satisfies the invariant.                                   *)
LEMMA InitInv == Init => IInv
BY DEF Init, IInv, TypeOK, AtStart, LastMatrix, OwnCells, OwnRows

(* The steps taken once the dataset was loaded keep the invariant.         *)
LEMMA LoadKeeps ==
  ASSUME IInv, SingleUnit \/ NoUnits \/ StartSplit
  PROVE  IInv'
<1> USE DEF IInv
<1>1. CASE SingleUnit
  <2>1. TypeOK /\ i \in Nat /\ j \in Nat
    BY DEF TypeOK
  <2>2. AddUnit(Span(0, RowUnit, rows), Span(0, ColumnUnit, columns))
    BY <1>1 DEF SingleUnit
  <2>3. QED BY <2>1, <2>2, <1>1, BandTypes, AddUnitStep DEF SingleUnit
<1>2. CASE NoUnits \/ StartSplit
  <2>1. /\ UNCHANGED <<rows, columns, i, j, units, matrices>>
        /\ pc' \in {"split", "done"} /\ j = 0
    BY <1>2 DEF NoUnits, StartSplit, AtStart
  <2>2. /\ RowsLeft' = RowsLeft /\ ColumnsLeft' = ColumnsLeft /\ Shared' = Shared
    BY <2>1, SameBand
  <2>3. \A k : Stored(k)' = Stored(k) /\ Labelled(k)' = Labelled(k)
    BY <2>1 DEF Stored, Labelled
  <2>4. TypeOK' /\ AtStart'
    BY <2>1 DEF TypeOK, AtStart
  <2>5. OwnCells' /\ OwnRows'
    BY <2>1, <2>2, <2>3 DEF OwnCells, OwnRows
  <2>6. LastMatrix'
    BY <2>1 DEF LastMatrix
  <2>7. QED BY <2>4, <2>5, <2>6
<1>3. QED BY <1>1, <1>2

(* The steps that make a unit in the loops keep the invariant.             *)
LEMMA SplitKeeps ==
  ASSUME IInv, BothDivide \/ RowsDivide \/ ColumnsDivide \/ NoneDivides
  PROVE  IInv'
<1> USE DEF IInv
<1>1. TypeOK /\ pc = "split" /\ NextBand /\ j \in Nat
  BY DEF BothDivide, RowsDivide, ColumnsDivide, NoneDivides, TypeOK
<1>2. /\ UNCHANGED <<rows, columns>> /\ i' \in Nat /\ j' \in Nat
      /\ pc' \in {"split", "done"}
      /\ pc' = "split" /\ j' > 0 => i' = i /\ ColumnBands > 1
  BY <1>1, NextBandFacts
<1>3. ColumnsLeft = 0 /\ ColumnBands > 1 => columns > ColumnUnit
  BY <1>1, SeveralBands
<1>4. CASE BothDivide /\ j = 0
  <2>1. AddUnit(FullRows, FullColumns) /\ RowsLeft = 0 /\ ColumnsLeft = 0
    BY <1>4 DEF BothDivide
  <2>2. pc' = "split" /\ j' > 0 => Shared
    BY <2>1, <1>2, <1>3 DEF Shared
  <2>3. QED BY <2>1, <2>2, <1>1, <1>2, BandTypes, AddUnitStep
<1>5. CASE BothDivide /\ j # 0
  <2>1. ReuseMatrix(FullRows, FullColumns) /\ RowsLeft = 0 /\ ColumnsLeft = 0
    BY <1>5 DEF BothDivide
  <2>2. j > 0
    BY <1>1, <1>5
  <2>3. QED BY <2>1, <2>2, <1>1, <1>2, BandTypes, ReuseMatrixStep
<1>6. CASE RowsDivide \/ ColumnsDivide \/ NoneDivides
  <2>1. ~ (RowsLeft = 0 /\ ColumnsLeft = 0)
    BY <1>6 DEF RowsDivide, ColumnsDivide, NoneDivides
  <2>2. \/ AddUnit(FullRows, ColumnsOfBand)
        \/ AddUnit(RowsOfBand, FullColumns)
        \/ AddUnit(RowsOfBand, ColumnsOfBand)
    BY <1>6 DEF RowsDivide, ColumnsDivide, NoneDivides
  <2>3. QED BY <2>1, <2>2, <1>1, <1>2, BandTypes, AddUnitStep
<1>7. QED BY <1>4, <1>5, <1>6

(* Nothing happens to the invariant when nothing changes.                  *)
LEMMA StutterKeeps ==
  ASSUME IInv, UNCHANGED vars
  PROVE  IInv'
<1>1. UNCHANGED <<rows, columns, pc, i, j, units, matrices>>
  BY DEF vars
<1>2. \A k : Stored(k)' = Stored(k) /\ Labelled(k)' = Labelled(k)
  BY <1>1 DEF Stored, Labelled
<1>3. /\ RowsLeft' = RowsLeft /\ ColumnsLeft' = ColumnsLeft /\ Shared' = Shared
      /\ FullRows' = FullRows
  BY <1>1, SameBand
<1>4. TypeOK' /\ AtStart'
  BY <1>1 DEF IInv, TypeOK, AtStart
<1>5. LastMatrix'
  BY <1>1, <1>3 DEF IInv, LastMatrix
<1>6. OwnCells' /\ OwnRows'
  BY <1>1, <1>2, <1>3 DEF IInv, OwnCells, OwnRows
<1>7. QED BY <1>4, <1>5, <1>6 DEF IInv

(* The inductive invariant holds throughout an import.                     *)
THEOREM Inductive == Spec => []IInv
<1>1. IInv /\ [Next]_vars => IInv'
  BY LoadKeeps, SplitKeeps, StutterKeeps DEF Next
<1>2. QED BY InitInv, <1>1, PTL DEF Spec

(* The variables keep their types: a unit refers to an allocated matrix.   *)
THEOREM TypeCorrect == Spec => []TypeOK
BY Inductive, PTL DEF IInv

(* Unless matrices are shared, every unit holds the cells its labels name, *)
(* for datasets and units of every size (ImportCSV).                       *)
THEOREM CellsAreOwn == Spec => []OwnCells
BY Inductive, PTL DEF IInv

(* In every import a unit holds cells of its own rows (ImportCSV).         *)
THEOREM RowsAreOwn == Spec => []OwnRows
BY Inductive, PTL DEF IInv

-----------------------------------------------------------------------------
(* EveryCellOnce: the units made so far are the bands the loops have       *)
(* passed, one for each, and bands cut the labels up.                      *)

(* n labels in bands of u: the number of bands and the labels of band a.   *)
Bands(n, u) == n \div u + (IF n % u = 0 THEN 0 ELSE 1)
Size(a, n, u) == IF n % u # 0 /\ a = Bands(n, u) - 1 THEN n % u ELSE u

BandSpan(a, n, u) == Span(a, u, Size(a, n, u))

RowLabels(a) == BandSpan(a, rows, RowUnit)
ColumnLabels(b) == BandSpan(b, columns, ColumnUnit)

IsBand(k, a, b) == units[k].rowIPs = RowLabels(a) /\ units[k].columnIPs = ColumnLabels(b)

(* The band of rows a and columns b was passed.                            *)
Before(a, b) == /\ a \in 0..(RowBands - 1) /\ b \in 0..(ColumnBands - 1)
                /\ pc = "done" \/ a < i \/ (a = i /\ b < j)

Positions == /\ pc = "load" => units = <<>> /\ i = 0 /\ j = 0
             /\ pc = "split" => i < RowBands /\ j < ColumnBands /\ ~ NotCovered

BandsMade == pc # "load" /\ ~ NotCovered /\ rows > 0 /\ columns > 0 =>
  /\ \A k \in DOMAIN units : \E a, b \in Nat : Before(a, b) /\ IsBand(k, a, b)
  /\ \A a, b \in Nat : Before(a, b) => \E k \in DOMAIN units : IsBand(k, a, b)
  /\ \A k, m \in DOMAIN units :
       /\ units[k].rowIPs = units[m].rowIPs
       /\ units[k].columnIPs = units[m].columnIPs
       => k = m

(* A dataset without rows or columns has no bands, but may get one unit.   *)
NoBands == rows = 0 \/ columns = 0 =>
  /\ pc # "split"
  /\ \A k \in DOMAIN units : /\ units[k].rowIPs = Span(0, RowUnit, rows)
                             /\ units[k].columnIPs = Span(0, ColumnUnit, columns)

CutInv == Positions /\ BandsMade /\ NoBands

(* Division with remainder.                                                *)
LEMMA Division ==
  ASSUME NEW n \in Nat, NEW u \in Nat \ {0}
  PROVE  /\ n \div u \in Nat /\ n % u \in 0..(u - 1)
         /\ n = (n \div u) * u + (n % u)
OBVIOUS

(* A later band begins after an earlier one has ended.                     *)
LEMMA Apart ==
  ASSUME NEW u \in Nat, NEW a \in Nat, NEW b \in Nat, a < b
  PROVE  a * u + u <= b * u
<1>1. PICK d \in Nat : b = a + 1 + d
  <2>1. b - a - 1 \in Nat /\ b = a + 1 + (b - a - 1)
    OBVIOUS
  <2>2. QED BY <2>1
<1>2. b * u = a * u + u + d * u
  BY <1>1
<1>3. d * u \in Nat /\ a * u \in Nat
  OBVIOUS
<1>4. b * u \in Nat
  OBVIOUS
<1>5. QED BY <1>2, <1>3, <1>4

(* A band has labels, and they are among 1..n.                             *)
LEMMA SizeBounds ==
  ASSUME NEW n \in Nat, NEW u \in Nat \ {0}, NEW a \in 0..(Bands(n, u) - 1)
  PROVE  /\ Bands(n, u) \in Nat
         /\ Size(a, n, u) \in 1..u
         /\ a * u + Size(a, n, u) <= n
<1> DEFINE q == n \div u
           m == n % u
<1>1. q \in Nat /\ m \in 0..(u - 1) /\ n = q * u + m
  BY Division
<1>2. Bands(n, u) = q + (IF m = 0 THEN 0 ELSE 1)
  BY DEF Bands
<1>3. Size(a, n, u) = IF m # 0 /\ a = Bands(n, u) - 1 THEN m ELSE u
  BY DEF Size
<1> HIDE DEF q, m
<1>4. a * u \in Nat /\ q * u \in Nat
  BY <1>1
<1>5. CASE m # 0 /\ a = q
  BY <1>1, <1>2, <1>3, <1>4, <1>5
<1>6. CASE ~ (m # 0 /\ a = q)
  <2>1. a < q /\ Size(a, n, u) = u
    BY <1>1, <1>2, <1>3, <1>6
  <2>2. a * u + u <= q * u
    BY <1>1, <2>1, Apart
  <2>3. QED BY <1>1, <1>2, <1>4, <2>1, <2>2
<1>7. QED BY <1>5, <1>6

(* Each of 1..n lies in a band, and in no other one.                       *)
LEMMA BandOf ==
  ASSUME NEW n \in Nat, NEW u \in Nat \ {0}, NEW r \in 1..n
  PROVE  \E a \in 0..(Bands(n, u) - 1) : \E p \in 1..Size(a, n, u) : r = a * u + p
<1> DEFINE q == n \div u
           m == n % u
           a == (r - 1) \div u
           p == ((r - 1) % u) + 1
<1>1. q \in Nat /\ m \in 0..(u - 1) /\ n = q * u + m
  BY Division
<1>2. a \in Nat /\ p \in 1..u /\ r = a * u + p
  <2>1. r - 1 \in Nat
    OBVIOUS
  <2>2. (r - 1) \div u \in Nat /\ (r - 1) % u \in 0..(u - 1)
        /\ r - 1 = ((r - 1) \div u) * u + ((r - 1) % u)
    BY <2>1, Division
  <2> DEFINE x == (r - 1) \div u
             y == (r - 1) % u
  <2>3. x \in Nat /\ y \in 0..(u - 1) /\ r - 1 = x * u + y
    BY <2>2
  <2> HIDE DEF x, y
  <2>4. x * u \in Nat
    BY <2>3
  <2>5. y + 1 \in 1..u /\ r = x * u + (y + 1)
    BY <2>3, <2>4
  <2>6. QED BY <2>3, <2>5 DEF x, y
<1>3. Bands(n, u) = q + (IF m = 0 THEN 0 ELSE 1)
  BY DEF Bands
<1>4. Size(a, n, u) = IF m # 0 /\ a = Bands(n, u) - 1 THEN m ELSE u
  BY DEF Size
<1> HIDE DEF q, m, a, p
<1>5. a * u \in Nat /\ q * u \in Nat
  BY <1>1, <1>2
<1>6. a <= q
  <2>1. SUFFICES ASSUME q < a PROVE FALSE
    BY <1>1, <1>2
  <2>2. q * u + u <= a * u
    BY <1>1, <1>2, <2>1, Apart
  <2>3. QED BY <1>1, <1>2, <1>5, <2>2
<1>7. CASE a = q
  <2>1. p <= m
    BY <1>1, <1>2, <1>5, <1>7
  <2>2. m # 0 /\ a = Bands(n, u) - 1 /\ Size(a, n, u) = m
    BY <1>1, <1>2, <1>3, <1>4, <1>7, <2>1
  <2>3. a \in 0..(Bands(n, u) - 1) /\ p \in 1..Size(a, n, u)
    BY <1>1, <1>2, <1>3, <1>7, <2>1, <2>2
  <2>4. QED BY <1>2, <2>3
<1>8. CASE a # q
  <2>1. a \in 0..(Bands(n, u) - 1) /\ ~ (m # 0 /\ a = Bands(n, u) - 1)
    BY <1>1, <1>2, <1>3, <1>6, <1>8
  <2>2. QED BY <1>2, <1>4, <2>1
<1>9. QED BY <1>7, <1>8

(* Positions in different bands differ.                                    *)
LEMMA OneBand ==
  ASSUME NEW u \in Nat, NEW a \in Nat, NEW b \in Nat,
         NEW p \in 1..u, NEW q \in 1..u, a * u + p = b * u + q
  PROVE  a = b
<1>1. a * u \in Nat /\ b * u \in Nat
  OBVIOUS
<1>2. CASE a < b
  BY <1>1, <1>2, Apart
<1>3. CASE b < a
  BY <1>1, <1>3, Apart
<1>4. QED BY <1>2, <1>3

(* Fewer than u are one band, or none if there is nothing.                 *)
LEMMA FewerThanAUnit ==
  ASSUME NEW n \in Nat, NEW u \in Nat \ {0}, n < u
  PROVE  /\ Bands(n, u) = IF n = 0 THEN 0 ELSE 1
         /\ n # 0 => Size(0, n, u) = n
<1> DEFINE q == n \div u
           m == n % u
<1>1. q \in Nat /\ m \in 0..(u - 1) /\ n = q * u + m
  BY Division
<1>2. Bands(n, u) = q + (IF m = 0 THEN 0 ELSE 1)
  BY DEF Bands
<1>3. Size(0, n, u) = IF m # 0 /\ 0 = Bands(n, u) - 1 THEN m ELSE u
  BY DEF Size
<1> HIDE DEF q, m
<1>4. q = 0
  <2>1. SUFFICES ASSUME 0 < q PROVE FALSE
    BY <1>1
  <2>2. 0 * u + u <= q * u
    BY <1>1, <2>1, Apart
  <2>3. QED BY <1>1, <2>2
<1>5. n = m
  BY <1>1, <1>4
<1>6. QED BY <1>1, <1>2, <1>3, <1>4, <1>5

LEMMA SomeBand ==
  ASSUME NEW n \in Nat, NEW u \in Nat \ {0}, n > 0
  PROVE  Bands(n, u) > 0
<1>1. Bands(n, u) \in Nat
  BY Division DEF Bands
<1>2. 1 \in 1..n
  OBVIOUS
<1>3. QED BY <1>1, <1>2, BandOf

(* The labels of the bands are those of the dataset, each in one band.     *)
LabelsCut(n, u) ==
  /\ \A a \in 0..(Bands(n, u) - 1) : BandSpan(a, n, u) \in Seq(1..n)
  /\ \A r \in 1..n : \E a \in 0..(Bands(n, u) - 1) :
       \E p \in DOMAIN BandSpan(a, n, u) : BandSpan(a, n, u)[p] = r
  /\ \A a, b \in 0..(Bands(n, u) - 1) :
       \A p \in DOMAIN BandSpan(a, n, u), q \in DOMAIN BandSpan(b, n, u) :
         BandSpan(a, n, u)[p] = BandSpan(b, n, u)[q] => a = b
  /\ \A a, b \in 0..(Bands(n, u) - 1) : BandSpan(a, n, u) = BandSpan(b, n, u) => a = b

LEMMA BandLabels ==
  ASSUME NEW n \in Nat, NEW u \in Nat \ {0}
  PROVE  LabelsCut(n, u)
<1>1. \A a \in 0..(Bands(n, u) - 1) :
        Bands(n, u) \in Nat /\ Size(a, n, u) \in 1..u /\ a * u + Size(a, n, u) <= n
  BY SizeBounds
<1>2. \A a : /\ DOMAIN BandSpan(a, n, u) = 1..Size(a, n, u)
             /\ \A p \in 1..Size(a, n, u) : BandSpan(a, n, u)[p] = a * u + p
  BY DEF Span, BandSpan
<1>3. ASSUME NEW a \in 0..(Bands(n, u) - 1)
      PROVE  BandSpan(a, n, u) \in Seq(1..n)
  <2>1. a \in Nat /\ a * u \in Nat /\ Size(a, n, u) \in 1..u /\ a * u + Size(a, n, u) <= n
    BY <1>1
  <2>2. \A p \in 1..Size(a, n, u) : a * u + p \in 1..n
    BY <2>1
  <2>3. QED BY <2>1, <2>2 DEF Span, BandSpan
<1>4. ASSUME NEW r \in 1..n
      PROVE  \E a \in 0..(Bands(n, u) - 1) :
               \E p \in DOMAIN BandSpan(a, n, u) : BandSpan(a, n, u)[p] = r
  <2>1. PICK a \in 0..(Bands(n, u) - 1) : \E p \in 1..Size(a, n, u) : r = a * u + p
    BY BandOf
  <2>2. PICK p \in 1..Size(a, n, u) : r = a * u + p
    BY <2>1
  <2>3. p \in DOMAIN BandSpan(a, n, u) /\ BandSpan(a, n, u)[p] = r
    BY <1>2, <2>2
  <2>4. QED BY <2>3
<1>5. ASSUME NEW a \in 0..(Bands(n, u) - 1), NEW b \in 0..(Bands(n, u) - 1),
             NEW p \in 1..Size(a, n, u), NEW q \in 1..Size(b, n, u),
             a * u + p = b * u + q
      PROVE  a = b
  <2>1. a \in Nat /\ b \in Nat /\ p \in 1..u /\ q \in 1..u
    BY <1>1
  <2>2. QED BY <1>5, <2>1, OneBand
<1>6. ASSUME NEW a \in 0..(Bands(n, u) - 1), NEW b \in 0..(Bands(n, u) - 1),
             BandSpan(a, n, u) = BandSpan(b, n, u)
      PROVE  a = b
  <2>1. 1 \in 1..Size(a, n, u) /\ 1 \in 1..Size(b, n, u)
    BY <1>1
  <2>2. a * u + 1 = b * u + 1
    BY <1>2, <1>6, <2>1
  <2>3. QED BY <1>5, <2>1, <2>2
<1>7. ASSUME NEW a \in 0..(Bands(n, u) - 1), NEW b \in 0..(Bands(n, u) - 1),
             NEW p \in DOMAIN BandSpan(a, n, u),
             NEW q \in DOMAIN BandSpan(b, n, u),
             BandSpan(a, n, u)[p] = BandSpan(b, n, u)[q]
      PROVE  a = b
  <2>1. p \in 1..Size(a, n, u) /\ q \in 1..Size(b, n, u)
    BY <1>2
  <2>2. a * u + p = b * u + q
    BY <1>2, <1>7, <2>1
  <2>3. QED BY <1>5, <2>1, <2>2
<1>8. QED BY <1>3, <1>4, <1>6, <1>7 DEF LabelsCut

(* The loops' counts are those of the bands.                               *)
LEMMA LoopBands ==
  /\ RowBands = Bands(rows, RowUnit) /\ ColumnBands = Bands(columns, ColumnUnit)
  /\ RowsLeft = rows % RowUnit /\ ColumnsLeft = columns % ColumnUnit
BY DEF RowBands, ColumnBands, RowsLeft, ColumnsLeft, Bands

(* Each step of the loops makes the unit of the band they are at.          *)
LEMMA MakesItsBand ==
  ASSUME TypeOK, BothDivide \/ RowsDivide \/ ColumnsDivide \/ NoneDivides
  PROVE  /\ pc = "split" /\ NextBand
         /\ \E m : units' = Append(units, Unit(RowLabels(i), ColumnLabels(j), m))
<1>1. RowsLeft \in Nat /\ ColumnsLeft \in Nat
  BY Counts
<1>2. RowsLeft = 0 => FullRows = RowLabels(i)
  BY LoopBands DEF FullRows, RowLabels, BandSpan, Size
<1>3. RowsLeft > 0 => RowsOfBand = RowLabels(i)
  BY <1>1, LoopBands DEF RowsOfBand, FullRows, RowLabels, BandSpan, Size
<1>4. ColumnsLeft = 0 => FullColumns = ColumnLabels(j)
  BY LoopBands DEF FullColumns, ColumnLabels, BandSpan, Size
<1>5. ColumnsLeft > 0 => ColumnsOfBand = ColumnLabels(j)
  BY <1>1, LoopBands DEF ColumnsOfBand, FullColumns, ColumnLabels, BandSpan, Size
<1>6. \A R, C : AddUnit(R, C) \/ ReuseMatrix(R, C) =>
                  \E m : units' = Append(units, Unit(R, C, m))
  BY DEF AddUnit, ReuseMatrix
<1>7. QED BY <1>2, <1>3, <1>4, <1>5, <1>6
          DEF BothDivide, RowsDivide, ColumnsDivide, NoneDivides

(* The bands passed after the step are those passed before it and the one  *)
(* the loops were at.                                                      *)
LEMMA NextBandPasses ==
  ASSUME TypeOK, pc = "split", i < RowBands, j < ColumnBands, NextBand
  PROVE  /\ UNCHANGED <<rows, columns, RowBands, ColumnBands>>
         /\ \A a, b \in Nat : Before(a, b)' <=> Before(a, b) \/ (a = i /\ b = j)
         /\ ~ Before(i, j)
         /\ pc' \in {"split", "done"}
         /\ pc' = "split" => i' < RowBands /\ j' < ColumnBands
<1>1. i \in Nat /\ j \in Nat /\ RowBands \in Nat /\ ColumnBands \in Nat
  BY Counts DEF TypeOK
<1>2. UNCHANGED <<rows, columns, RowBands, ColumnBands>>
  BY DEF NextBand, RowBands, ColumnBands, RowsLeft, ColumnsLeft
<1>3. ~ Before(i, j)
  BY <1>1 DEF Before
<1>4. CASE j + 1 < ColumnBands /\ j' = j + 1 /\ UNCHANGED <<i, pc>>
  BY <1>1, <1>2, <1>3, <1>4 DEF Before
<1>5. CASE j + 1 >= ColumnBands /\ i + 1 < RowBands /\ i' = i + 1 /\ j' = 0 /\ UNCHANGED pc
  BY <1>1, <1>2, <1>3, <1>5 DEF Before
<1>6. CASE j + 1 >= ColumnBands /\ i + 1 >= RowBands /\ pc' = "done" /\ UNCHANGED <<i, j>>
  BY <1>1, <1>2, <1>3, <1>6 DEF Before
<1>7. QED BY <1>4, <1>5, <1>6 DEF NextBand

LEMMA SplitCuts ==
  ASSUME TypeOK, CutInv, BothDivide \/ RowsDivide \/ ColumnsDivide \/ NoneDivides
  PROVE  CutInv'
<1>1. /\ pc = "split" /\ NextBand
      /\ i \in Nat /\ j \in Nat /\ i < RowBands /\ j < ColumnBands /\ ~ NotCovered
      /\ rows \in Nat /\ columns \in Nat /\ rows > 0 /\ columns > 0
      /\ RowBands \in Nat /\ ColumnBands \in Nat
  BY MakesItsBand, Counts DEF TypeOK, CutInv, Positions, NoBands
<1>2. PICK m : units' = Append(units, Unit(RowLabels(i), ColumnLabels(j), m))
  BY MakesItsBand
<1>3. PICK n : n = Len(units) + 1
  OBVIOUS
<1>4. /\ n \in Nat /\ DOMAIN units = 1..(n - 1) /\ DOMAIN units' = 1..n
      /\ units'[n].rowIPs = RowLabels(i) /\ units'[n].columnIPs = ColumnLabels(j)
      /\ \A k \in 1..(n - 1) : units'[k] = units[k]
      /\ \A k \in 1..n : k = n \/ k \in 1..(n - 1)
      /\ n \in 1..n /\ \A k \in 1..(n - 1) : k \in 1..n
  <2> DEFINE U == Unit(RowLabels(i), ColumnLabels(j), m)
  <2>1. units \in Seq(UnitType) /\ units' = Append(units, U)
    BY <1>2 DEF TypeOK
  <2>2. U.rowIPs = RowLabels(i) /\ U.columnIPs = ColumnLabels(j)
    BY DEF Unit
  <2> HIDE DEF U
  <2>3. /\ Len(units) \in Nat /\ DOMAIN units = 1..Len(units)
        /\ DOMAIN units' = 1..(Len(units) + 1)
        /\ units'[Len(units) + 1] = U
        /\ \A k \in 1..Len(units) : units'[k] = units[k]
    BY <2>1
  <2>4. QED BY <1>3, <2>2, <2>3
<1>5. /\ UNCHANGED <<rows, columns, RowBands, ColumnBands>>
      /\ \A a, b \in Nat : Before(a, b)' <=> Before(a, b) \/ (a = i /\ b = j)
      /\ ~ Before(i, j)
      /\ pc' \in {"split", "done"}
      /\ pc' = "split" => i' < RowBands /\ j' < ColumnBands
  BY <1>1, NextBandPasses
<1>6. NotCovered' = NotCovered
  BY <1>5, SameBand
<1>7. Positions' /\ NoBands'
  BY <1>1, <1>5, <1>6 DEF Positions, NoBands
<1>8. /\ \A a : RowLabels(a)' = RowLabels(a) /\ ColumnLabels(a)' = ColumnLabels(a)
      /\ \A k \in 1..(n - 1) : \A a, b : IsBand(k, a, b)' <=> IsBand(k, a, b)
      /\ \A a, b : a = i /\ b = j => IsBand(n, a, b)'
  <2>1. \A a : RowLabels(a)' = RowLabels(a) /\ ColumnLabels(a)' = ColumnLabels(a)
    BY <1>5 DEF RowLabels, ColumnLabels
  <2>2. QED BY <1>4, <2>1 DEF IsBand
<1>9. /\ \A k \in 1..(n - 1) : \E a, b \in Nat : Before(a, b) /\ IsBand(k, a, b)
      /\ \A a, b \in Nat : Before(a, b) => \E k \in 1..(n - 1) : IsBand(k, a, b)
      /\ \A k, l \in 1..(n - 1) : /\ units[k].rowIPs = units[l].rowIPs
                                  /\ units[k].columnIPs = units[l].columnIPs
                                  => k = l
  BY <1>1, <1>4 DEF CutInv, BandsMade
<1>10. ASSUME NEW k \in 1..n
       PROVE  \E a, b \in Nat : Before(a, b)' /\ IsBand(k, a, b)'
  <2>1. CASE k = n
    BY <1>1, <1>5, <1>8, <2>1
  <2>2. CASE k \in 1..(n - 1)
    BY <1>5, <1>8, <1>9, <2>2
  <2>3. QED BY <1>4, <2>1, <2>2
<1>11. ASSUME NEW a \in Nat, NEW b \in Nat, Before(a, b)'
       PROVE  \E k \in 1..n : IsBand(k, a, b)'
  BY <1>4, <1>5, <1>8, <1>9, <1>11
<1>12. ASSUME NEW k \in 1..(n - 1), units[k].rowIPs = RowLabels(i),
              units[k].columnIPs = ColumnLabels(j)
       PROVE  FALSE
  <2>1. PICK a \in Nat, b \in Nat : Before(a, b) /\ IsBand(k, a, b)
    BY <1>9
  <2>2. RowLabels(a) = RowLabels(i) /\ ColumnLabels(b) = ColumnLabels(j)
    BY <1>12, <2>1 DEF IsBand
  <2>3. a \in 0..(RowBands - 1) /\ i \in 0..(RowBands - 1)
        /\ b \in 0..(ColumnBands - 1) /\ j \in 0..(ColumnBands - 1)
    BY <1>1, <2>1 DEF Before
  <2>4. a = i
    BY <1>1, <2>2, <2>3, BandLabels, LoopBands DEF LabelsCut, RowLabels
  <2>5. b = j
    BY <1>1, <2>2, <2>3, BandLabels, LoopBands DEF LabelsCut, ColumnLabels
  <2>6. QED BY <1>5, <2>1, <2>4, <2>5
<1>13. ASSUME NEW k \in 1..n, NEW l \in 1..n,
              units'[k].rowIPs = units'[l].rowIPs,
              units'[k].columnIPs = units'[l].columnIPs
       PROVE  k = l
  <2>1. CASE k = n /\ l \in 1..(n - 1)
    BY <1>4, <1>12, <1>13, <2>1
  <2>2. CASE l = n /\ k \in 1..(n - 1)
    BY <1>4, <1>12, <1>13, <2>2
  <2>3. CASE k \in 1..(n - 1) /\ l \in 1..(n - 1)
    BY <1>4, <1>9, <1>13, <2>3
  <2>4. QED BY <1>4, <2>1, <2>2, <2>3
<1>14. BandsMade'
  BY <1>4, <1>10, <1>11, <1>13 DEF BandsMade
<1>15. QED BY <1>7, <1>14 DEF CutInv

(* A dataset smaller than a unit becomes one unit, of the only band.       *)
LEMMA SingleUnitCuts ==
  ASSUME TypeOK, CutInv, SingleUnit
  PROVE  CutInv'
<1>1. /\ units = <<>> /\ i = 0 /\ j = 0 /\ pc' = "done"
      /\ rows \in Nat /\ columns \in Nat /\ rows < RowUnit /\ columns < ColumnUnit
      /\ UNCHANGED <<rows, columns>>
  BY Counts DEF CutInv, Positions, SingleUnit
<1>2. PICK m : units' = <<Unit(Span(0, RowUnit, rows), Span(0, ColumnUnit, columns), m)>>
  BY <1>1 DEF SingleUnit, AddUnit
<1>3. /\ DOMAIN units' = {1}
      /\ units'[1].rowIPs = Span(0, RowUnit, rows)
      /\ units'[1].columnIPs = Span(0, ColumnUnit, columns)
  BY <1>2 DEF Unit
<1>4. Positions' /\ NoBands'
  BY <1>1, <1>3 DEF Positions, NoBands
<1>5. ASSUME rows > 0, columns > 0
      PROVE  /\ RowBands' = 1 /\ ColumnBands' = 1
             /\ IsBand(1, 0, 0)'
  <2>1. /\ Bands(rows, RowUnit) = 1 /\ Size(0, rows, RowUnit) = rows
        /\ Bands(columns, ColumnUnit) = 1 /\ Size(0, columns, ColumnUnit) = columns
    BY <1>1, <1>5, FewerThanAUnit
  <2>2. RowBands' = RowBands /\ ColumnBands' = ColumnBands
    BY <1>1 DEF RowBands, ColumnBands, RowsLeft, ColumnsLeft
  <2>3. RowLabels(0)' = RowLabels(0) /\ ColumnLabels(0)' = ColumnLabels(0)
    BY <1>1 DEF RowLabels, ColumnLabels
  <2>4. RowLabels(0) = Span(0, RowUnit, rows) /\ ColumnLabels(0) = Span(0, ColumnUnit, columns)
    BY <2>1 DEF RowLabels, ColumnLabels, BandSpan
  <2>5. QED BY <1>3, <2>1, <2>2, <2>3, <2>4, LoopBands DEF IsBand
<1>6. BandsMade'
  <2>1. SUFFICES ASSUME rows > 0, columns > 0
                 PROVE  /\ \E a, b \in Nat : Before(a, b)' /\ IsBand(1, a, b)'
                        /\ \A a, b \in Nat : Before(a, b)' => IsBand(1, a, b)'
    BY <1>1, <1>3 DEF BandsMade
  <2>2. \A a, b \in Nat : Before(a, b)' <=> a = 0 /\ b = 0
    BY <1>1, <1>5, <2>1 DEF Before
  <2>3. QED BY <1>5, <2>1, <2>2
<1>7. QED BY <1>4, <1>6 DEF CutInv

(* The loops begin at the first band, if there is one.                     *)
LEMMA LoadCuts ==
  ASSUME TypeOK, CutInv, NoUnits \/ StartSplit
  PROVE  CutInv'
<1>1. /\ units = <<>> /\ i = 0 /\ j = 0 /\ rows \in Nat /\ columns \in Nat
      /\ UNCHANGED <<rows, columns, i, j, units>>
  BY Counts DEF CutInv, Positions, NoUnits, StartSplit
<1>2. NotCovered' = NotCovered /\ RowBands' = RowBands /\ ColumnBands' = ColumnBands
  BY <1>1 DEF NotCovered, RowBands, ColumnBands, RowsLeft, ColumnsLeft
<1>3. CASE NoUnits
  BY <1>1, <1>2, <1>3 DEF NoUnits, CutInv, Positions, BandsMade, NoBands
<1>4. CASE StartSplit
  <2>1. /\ ~ NotCovered
        /\ pc' = IF RowBands > 0 /\ ColumnBands > 0 THEN "split" ELSE "done"
    BY <1>4 DEF StartSplit
  <2>2. /\ rows = 0 => RowBands = 0
        /\ columns = 0 => ColumnBands = 0
        /\ rows > 0 => RowBands > 0
        /\ columns > 0 => ColumnBands > 0
    BY <1>1, FewerThanAUnit, SomeBand, LoopBands
  <2>3. Positions' /\ NoBands'
    BY <1>1, <1>2, <2>1, <2>2 DEF Positions, NoBands
  <2>4. BandsMade'
    BY <1>1, <1>2, <2>1, <2>2 DEF BandsMade, Before
  <2>5. QED BY <2>3, <2>4 DEF CutInv
<1>5. QED BY <1>3, <1>4

LEMMA StutterCuts ==
  ASSUME CutInv, UNCHANGED vars
  PROVE  CutInv'
<1>1. UNCHANGED <<rows, columns, pc, i, j, units>>
  BY DEF vars
<1>2. /\ UNCHANGED <<NotCovered, RowBands, ColumnBands>>
      /\ \A a : RowLabels(a)' = RowLabels(a) /\ ColumnLabels(a)' = ColumnLabels(a)
  BY <1>1 DEF NotCovered, RowBands, ColumnBands, RowsLeft, ColumnsLeft, RowLabels, ColumnLabels
<1>3. \A a, b : /\ Before(a, b)' = Before(a, b)
                /\ \A k : IsBand(k, a, b)' = IsBand(k, a, b)
  BY <1>1, <1>2 DEF Before, IsBand
<1>4. Positions' /\ NoBands'
  BY <1>1, <1>2 DEF CutInv, Positions, NoBands
<1>5. BandsMade'
  BY <1>1, <1>2, <1>3 DEF CutInv, BandsMade
<1>6. QED BY <1>4, <1>5 DEF CutInv

(* The bands cut the dataset up.                                           *)
LEMMA CutsUp ==
  ASSUME TypeOK, CutInv
  PROVE  EveryCellOnce
<1>1. SUFFICES ASSUME pc = "done", ~ NotCovered
               PROVE  /\ \A r \in 1..rows, c \in 1..columns :
                           Cardinality({k \in DOMAIN units : Labels(k, r, c)}) = 1
                      /\ \A k \in DOMAIN units :
                           /\ units[k].rowIPs \in Seq(1..rows)
                           /\ units[k].columnIPs \in Seq(1..columns)
  BY DEF EveryCellOnce
<1>2. rows \in Nat /\ columns \in Nat
  BY Counts
<1>3. ASSUME rows > 0, columns > 0
      PROVE  /\ \A k \in DOMAIN units : \E a \in 0..(RowBands - 1), b \in 0..(ColumnBands - 1) :
                  IsBand(k, a, b)
             /\ \A a \in 0..(RowBands - 1), b \in 0..(ColumnBands - 1) :
                  \E k \in DOMAIN units : IsBand(k, a, b)
             /\ \A k, m \in DOMAIN units :
                  /\ units[k].rowIPs = units[m].rowIPs
                  /\ units[k].columnIPs = units[m].columnIPs
                  => k = m
  BY <1>1, <1>3, Counts DEF CutInv, BandsMade, Before
<1>4. /\ \A a \in 0..(RowBands - 1) : RowLabels(a) \in Seq(1..rows)
      /\ \A r \in 1..rows : \E a \in 0..(RowBands - 1) :
           \E p \in DOMAIN RowLabels(a) : RowLabels(a)[p] = r
      /\ \A a, b \in 0..(RowBands - 1) :
           \A p \in DOMAIN RowLabels(a), q \in DOMAIN RowLabels(b) :
             RowLabels(a)[p] = RowLabels(b)[q] => a = b
  <2>1. LabelsCut(rows, RowUnit)
    BY <1>2, BandLabels
  <2>2. QED BY <2>1, LoopBands DEF LabelsCut, RowLabels
<1>5. /\ \A a \in 0..(ColumnBands - 1) : ColumnLabels(a) \in Seq(1..columns)
      /\ \A r \in 1..columns : \E a \in 0..(ColumnBands - 1) :
           \E p \in DOMAIN ColumnLabels(a) : ColumnLabels(a)[p] = r
      /\ \A a, b \in 0..(ColumnBands - 1) :
           \A p \in DOMAIN ColumnLabels(a), q \in DOMAIN ColumnLabels(b) :
             ColumnLabels(a)[p] = ColumnLabels(b)[q] => a = b
  <2>1. LabelsCut(columns, ColumnUnit)
    BY <1>2, BandLabels
  <2>2. QED BY <2>1, LoopBands DEF LabelsCut, ColumnLabels
<1>6. ASSUME NEW r \in 1..rows, NEW c \in 1..columns
      PROVE  Cardinality({k \in DOMAIN units : Labels(k, r, c)}) = 1
  <2>1. rows > 0 /\ columns > 0
    BY <1>2
  <2>2. PICK a \in 0..(RowBands - 1) : \E p \in DOMAIN RowLabels(a) : RowLabels(a)[p] = r
    BY <1>4
  <2>3. PICK b \in 0..(ColumnBands - 1) :
          \E q \in DOMAIN ColumnLabels(b) : ColumnLabels(b)[q] = c
    BY <1>5
  <2>4. PICK k \in DOMAIN units : IsBand(k, a, b)
    BY <1>3, <2>1
  <2>5. Labels(k, r, c)
    BY <2>2, <2>3, <2>4 DEF Labels, IsBand
  <2>6. ASSUME NEW m \in DOMAIN units, Labels(m, r, c)
        PROVE  m = k
    <3>1. PICK d \in 0..(RowBands - 1), e \in 0..(ColumnBands - 1) : IsBand(m, d, e)
      BY <1>3, <2>1
    <3>2. d = a
      BY <1>4, <2>2, <2>6, <3>1 DEF Labels, IsBand
    <3>3. e = b
      BY <1>5, <2>3, <2>6, <3>1 DEF Labels, IsBand
    <3>4. QED BY <1>3, <2>1, <2>4, <3>1, <3>2, <3>3 DEF IsBand
  <2>7. {m \in DOMAIN units : Labels(m, r, c)} = {k}
    BY <2>5, <2>6
  <2>8. QED BY <2>7, FS_Singleton
<1>7. ASSUME NEW k \in DOMAIN units
      PROVE  units[k].rowIPs \in Seq(1..rows) /\ units[k].columnIPs \in Seq(1..columns)
  <2>1. CASE rows > 0 /\ columns > 0
    <3>1. PICK a \in 0..(RowBands - 1), b \in 0..(ColumnBands - 1) : IsBand(k, a, b)
      BY <1>3, <2>1
    <3>2. QED BY <1>4, <1>5, <3>1 DEF IsBand
  <2>2. CASE rows = 0 \/ columns = 0
    <3>1. /\ units[k].rowIPs = Span(0, RowUnit, rows)
          /\ units[k].columnIPs = Span(0, ColumnUnit, columns)
      BY <2>2 DEF CutInv, NoBands
    <3>2. \A n \in Nat, u \in Nat : Span(0, u, n) \in Seq(1..n)
      BY DEF Span
    <3>3. QED BY <1>2, <3>1, <3>2
  <2>3. QED BY <1>2, <2>1, <2>2
<1>8. QED BY <1>6, <1>7

(* Every cell of a dataset lands in exactly one unit, whatever the sizes   *)
(* of datasets and units, but for the datasets ImportCSV does not cover.   *)
THEOREM CellsLandOnce == Spec => []EveryCellOnce
<1>1. Init => CutInv
  BY DEF Init, CutInv, Positions, BandsMade, NoBands
<1>2. IInv /\ CutInv /\ [Next]_vars => CutInv'
  BY SplitCuts, SingleUnitCuts, LoadCuts, StutterCuts DEF Next, IInv
<1>3. IInv /\ CutInv => EveryCellOnce
  BY CutsUp DEF IInv
<1>4. QED BY <1>1, <1>2, <1>3, Inductive, PTL DEF Spec
=============================================================================
