----------------------------- MODULE EndOfService -----------------------------
(***************************************************************************)
(* The end-of-service benefit of one employee: what EosbService says is    *)
(* owed when each month of service is over, what its monthly accruals have *)
(* put aside, and what the HR page shows.  Time is real time: a year is    *)
(* 365.25 days whatever the calendar says, and the months are as long as   *)
(* the calendar and the day the accrual is made on have them.              *)
(***************************************************************************)
EXTENDS Integers

CONSTANTS
  MonthlyWage,   \* basicSalary + housingAllowance + transportAllowance, in cents
  Year,          \* 365.25 days, in the unit of time
  Day,           \* one day
  Hires,         \* days of hire, each with the days its accruals are made on
  LastMonth,     \* bound on the months of service
  TimeServed,    \* [Hires -> [0..LastMonth -> Nat]]: the time served by then
  Drift,         \* bound on how far that is from as many twelfths of a year
  MaxIrregular   \* bound on the accruals left out or made twice

\* An accrual is made within a month of when twelfths of years have it due.
ASSUME EosbAssumption ==
  /\ MonthlyWage \in Nat /\ LastMonth \in Nat /\ MaxIrregular \in Nat
  /\ Year \in Nat /\ Day \in Nat \ {0} /\ Drift \in Nat /\ 12 * Drift < Year
  /\ TimeServed \in [Hires -> [0..LastMonth -> Nat]]
  /\ \A h \in Hires, m \in 0..LastMonth :
       12 * TimeServed[h][m] - m * Year \in -(12 * Drift)..(12 * Drift)

VARIABLES
  months,     \* since the employee was hired
  hired,
  dated,      \* is the profile's hireDate set?  No service sets it
  provision,  \* credit of the provision account, in cents
  booked,     \* accruals made since the month began
  irregular   \* history: accruals left out or made twice

eosbVars == <<months, hired, dated, provision, booked, irregular>>

EosbInit ==
  /\ months = 0 /\ hired \in Hires /\ dated \in BOOLEAN
  /\ provision = 0 /\ booked = 1 /\ irregular = 0

\* x / n to the nearest whole number, a half upwards: toFixed and numeric(18, 2).
Nearest(x, n) == (2 * x + n) \div (2 * n)

Elapsed == TimeServed[hired][months]

\* An unknown hireDate counts as today.
Served == IF dated THEN Elapsed ELSE 0

\* Half a wage for each of the first five years, a wage for each year after;
\* in cents times 2 * Year.
Owed == IF Served <= 5 * Year THEN MonthlyWage * Served
                              ELSE MonthlyWage * (2 * Served - 5 * Year)

\* The thirds of it that are paid.
Thirds(reason) ==
  IF reason # "Resignation" \/ Served >= 10 * Year THEN 3
  ELSE IF Served < 2 * Year THEN 0 ELSE IF Served < 5 * Year THEN 1 ELSE 2

Liability(reason) == Nearest(Thirds(reason) * Owed, 6 * Year)

\* A likely mistake: the sixth year still has the rate of the first five.
AccrualAfterSix ==
  IF Served < 6 * Year THEN Nearest(MonthlyWage, 24) ELSE Nearest(MonthlyWage, 12)

\* The entry of the month keeps it to the cent.
Accrual == IF Served <= 5 * Year THEN Nearest(MonthlyWage, 24) ELSE Nearest(MonthlyWage, 12)

\* calculateEOSB of the page: days begun, in years with two places, from the day
\* the profile was made when the day of hire is unknown; in 200ths of a cent.
PageYears == Nearest(100 * Day * ((Elapsed + Day - 1) \div Day), Year)
PageAmount == IF PageYears <= 500 THEN MonthlyWage * PageYears
                                  ELSE MonthlyWage * (2 * PageYears - 500)

(***************************************************************************)
(* Steps                                                                   *)
(***************************************************************************)

\* bookMonthlyAccrual has no memory: it may be called again.
BookMonthlyAccrual ==
  /\ irregular + booked <= MaxIrregular
  /\ provision' = provision + Accrual
  /\ booked' = booked + 1
  /\ irregular' = irregular + booked
  /\ UNCHANGED <<months, hired, dated>>

MonthPasses ==
  /\ months < LastMonth
  /\ booked = 0 => irregular < MaxIrregular
  /\ months' = months + 1
  /\ irregular' = irregular + (IF booked = 0 THEN 1 ELSE 0)
  /\ booked' = 0
  /\ UNCHANGED <<hired, dated, provision>>

EosbNext == BookMonthlyAccrual \/ MonthPasses

EosbSpec == EosbInit /\ [][EosbNext]_eosbVars

(***************************************************************************)
(* Properties                                                              *)
(***************************************************************************)

\* One accrual for each month puts aside what a dismissal would cost, through
\* the change of rate after five years: at most the drift of the months, half a
\* cent for each amount rounded and, because sixty months may be more than five
\* years, one month at the higher rate too early lie between the two.  Without a
\* date of hire the lower rate is put aside for a liability of nothing
\* (bookMonthlyAccrual, calculateCurrentLiability).
AccrualsFollow ==
  irregular = 0 /\ booked = 1 =>
    LET ahead == provision - Liability("Termination")
        slack == 24 * MonthlyWage * Drift + 12 * Year * (months + 1)
    IN  IF dated THEN 24 * Year * ahead \in -slack..(slack + MonthlyWage * Year)
                 ELSE ahead = months * Nearest(MonthlyWage, 24)

\* The page is within the wage of a hundredth of a year and a day of what the
\* service says (calculateEOSB).
PageFollows ==
  dated => LET ahead == Year * (PageAmount - 200 * Liability("Active"))
               slack == MonthlyWage * (Year + 200 * Day) + 100 * Year
           IN  ahead \in -slack..slack

\* What is put aside and what the page shows follow the liability, and a
\* resignation is never dearer than a dismissal.
AccrualsFollowLiability ==
  /\ AccrualsFollow
  /\ PageFollows
  /\ Liability("Resignation") <= Liability("Termination")
=============================================================================
