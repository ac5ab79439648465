--------------------------- MODULE RefreshTimes ----------------------------
(***************************************************************************)
(* The times of the relay reservation and its refresh loop                 *)
(* (internal/transport/relay_client.go), in half minutes.                  *)
(***************************************************************************)
EXTENDS Integers

CONSTANTS
  TTL,    \* how long a relay grants a reservation
  Skew    \* how far the relay's clock, which dates the expiry, is ahead

Attempt    == 1    \* reserveOnce gives up after 30 s
Margin     == 10   \* refresh this long before the expiry: 5 min
MinSleep   == 2    \* but never sleep less than a minute
RetryDelay == 4    \* a failure moves the expiry to 2 min from now

\* A grant outlasts the margin and the shortest sleep, as the hour of the
\* circuit-relay default does, and the clocks agree to less than the margin.
ASSUME TimesAssumption ==
  /\ TTL \in Nat /\ TTL >= Margin + MinSleep
  /\ Skew \in 0..(Margin - Attempt)

\* Mutant of Sleep: the shortest sleep is applied to every wait.
SleepPastExpiry(until) == IF until < MinSleep THEN MinSleep ELSE until
\* How long refreshLoop sleeps when the reservation expires in until.
Sleep(until) == IF until - Margin < MinSleep THEN MinSleep ELSE until - Margin

\* A failed attempt and the sleep after it.
Retry == Attempt + Sleep(RetryDelay)

\* The failures that fit between the first refresh and the expiry.
Enough == (Margin - Skew + Sleep(RetryDelay) - 1) \div Retry
=============================================================================
