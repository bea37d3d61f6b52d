------------------------- MODULE MCNotificationStore -------------------------
(* Bounded instances of NotificationStore.                                  *)
EXTENDS NotificationStore, TLC

CONSTANTS n1, n2
==============================================================================
