----------------------- MODULE MCNotificationDelivery -----------------------
(* Instances of NotificationDelivery for TLC. *)
EXTENDS NotificationDelivery, TLC

\* Workers are interchangeable (used by the runs without liveness properties).
WorkerSymmetry == Permutations(Workers)
=============================================================================
