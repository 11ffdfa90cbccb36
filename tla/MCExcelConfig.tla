----------------------------- MODULE MCExcelConfig -----------------------------
(***************************************************************************)
(* Two threads, a workbook that can be read and one that cannot or a second *)
(* good one, and the legacy paths empty, with one file or with a bad and a *)
(* good one.                                                               *)
(***************************************************************************)
EXTENDS ExcelConfig, TLC

CONSTANTS c1, c2, good, other, bad

TwoCallers == {c1, c2}
ThreeBooks == {good, other, bad}
GoodBooks == {good, other}
SomeLegacies == {<<>>, <<bad, good>>}

CallerSymmetry == Permutations(TwoCallers)
================================================================================
