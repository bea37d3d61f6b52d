---------------------------- MODULE MCNotifyQueue ----------------------------
(* Bounded instance of NotifyQueue: two workers, so that one can complete a *)
(* job while the other is between its two sessions; one request that may    *)
(* mail two users (update_ticket) and one that mails one (add_comment).     *)
EXTENDS NotifyQueue, TLC

CONSTANTS r1, r2, u1, u2

MCAudience == r1 :> {u1, u2} @@ r2 :> {u1}
=============================================================================
