------------------------------ MODULE BatchSize ------------------------------
(* pkg/db/builders.go: how many rows go into one statement of a bulk write,  *)
(* so that the statement has no more parameters than the database takes.     *)
EXTENDS Integers

Dialects == {"", "sqlite", "postgres", "sqlserver", "mysql"}

MaxParamsFor(dialect) ==
  IF dialect \in {"postgres", "mysql"} THEN 65535
  ELSE IF dialect = "sqlserver" THEN 2000 ELSE 999

CapRows(dialect, paramsPerRow) ==
  IF dialect = "sqlite" THEN 300
  ELSE IF dialect = "postgres" THEN 2000
  ELSE IF dialect # "mysql" THEN 500
  ELSE IF paramsPerRow <= 8 THEN 1000
  ELSE IF paramsPerRow <= 25 THEN 500 ELSE 200

AtLeastOne(n) == IF n <= 0 THEN 1 ELSE n

DefaultBatchSizeFor(dialect, paramsPerRow) ==
  IF paramsPerRow <= 0 THEN 100
  ELSE LET fit == MaxParamsFor(dialect) \div paramsPerRow
           cap == CapRows(dialect, paramsPerRow)
       IN AtLeastOne(IF fit > cap THEN cap ELSE fit)

(* A row alone may have too many. *)
TooWide(dialect, paramsPerRow) == paramsPerRow > MaxParamsFor(dialect)

BatchSizeFor(dialect, paramsPerRow, requested) ==
  LET asked == IF requested <= 0 THEN DefaultBatchSizeFor(dialect, paramsPerRow) ELSE requested
      over == paramsPerRow > 0 /\ asked * paramsPerRow > MaxParamsFor(dialect)
  IN AtLeastOne(IF over THEN MaxParamsFor(dialect) \div paramsPerRow ELSE asked)
=============================================================================
