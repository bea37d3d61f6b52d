------------------------- MODULE MCTicketLifecycle -------------------------
(* Bounded instance of TicketLifecycle: three requests on one ticket, so    *)
(* that a handler can overtake another one twice.                           *)
EXTENDS TicketLifecycle, TLC

\* Requests and staff members are interchangeable; no liveness is checked.
Symmetry == Permutations(Request) \cup Permutations(Staff)
=============================================================================
