----------------------- MODULE MCNotificationDelivery -----------------------
(* Instances of NotificationDelivery for TLC. *)
EXTENDS NotificationDelivery, TLC

\* Channels and providers are interchangeable: no definition names one. Used
\* by the runs that check no liveness property.
Symmetry == Permutations(Channels) \cup Permutations(Providers)
=============================================================================
