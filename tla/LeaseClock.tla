----------------------------- MODULE LeaseClock -----------------------------
(***************************************************************************)
(* What the leases of the ownership group have in common: their length,    *)
(* the margin they leave, the clocks they are read on, and the bounds.     *)
(***************************************************************************)
EXTENDS Integers

CONSTANTS
    None,           \* nothing held, nobody home
    Skew,           \* AUTHORITY_CLOCK_SKEW_SECS
    LeaseSecs,      \* AUTHORITY_WRITE_LEASE_SECS or SINGLETON_LEASE_SECS
    Drift,          \* how far apart two clocks may read
    MaxTime,        \* bound on time
    MaxInFlight     \* bound on requests sent and not yet applied or lost

VARIABLE now        \* what the slowest clock reads

(* What any one clock may read. *)
Reading == now..(now + Drift)
=============================================================================
