-------------------------- MODULE MCJournalEntries --------------------------
(***************************************************************************)
(* JournalEntries on a small calendar.  Two calendar years; d1 lies in a   *)
(* period of each of two overlapping fiscal years (one from create, one    *)
(* from initializeFiscalYear), d2 in one period only.                      *)
(***************************************************************************)
EXTENDS JournalEntries, TLC

CONSTANTS r1, r2, r3, d1, d2, y1, y2, p1, p2, f1, f2

MCDates == {d1, d2}
MCYears == {y1, y2}
MCYearOf == d1 :> y1 @@ d2 :> y2
MCPeriods == {p1, p2}
MCCovers == d1 :> {p1} @@ d2 :> {p1, p2}
MCFiscalYears == {f1, f2}
MCFiscalYearOf == p1 :> f1 @@ p2 :> f2
=============================================================================
