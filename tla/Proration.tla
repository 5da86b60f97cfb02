---------------------------- MODULE Proration ----------------------------
(***************************************************************************)
(* app/proration/calculator.py: what a plan change in mid-cycle costs, in  *)
(* minor units, for the days left of the days the cycle has.               *)
(***************************************************************************)
EXTENDS Integers

\* Python's round: to the nearest integer, a tie to the even one.
RoundHalfEven(n, d) ==
    LET q == n \div d
        r == n % d
    IN  IF 2 * r < d \/ (2 * r = d /\ q % 2 = 0) THEN q ELSE q + 1

Clamp(days, total) ==
    IF days < 0 THEN 0 ELSE IF days > total THEN total ELSE days

Prorate(amount, days, total) ==
    IF total <= 0 THEN 0
    ELSE RoundHalfEven(amount * Clamp(days, total), total)

UnclampedProration(old, new, days, total) ==  \* mutant: the elapsed days, not the days left
    LET credit == Prorate(old, total - days, total)
        charge == Prorate(new, days, total)
    IN  [net |-> charge - credit, lines |-> <<-credit, charge>>]

\* calculate_proration: the two line items and what is collected now.
CalculateProration(old, new, days, total) ==
    LET credit == Prorate(old, days, total)
        charge == Prorate(new, days, total)
    IN  [net |-> charge - credit, lines |-> <<-credit, charge>>]
==========================================================================
