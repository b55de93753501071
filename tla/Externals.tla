------------------------------- MODULE Externals -------------------------------
(***************************************************************************)
(* What the other services do of their own accord to the data this service *)
(* consults or cascades to.                                                *)
(***************************************************************************)
EXTENDS ApiaryBase

ActiveIds == {i \in Present(apiaries) : ~apiaries[i].deleted}

(* A user buys, renews or loses Pro. *)
SubscriptionChanges ==
    /\ "subscription" \in Events
    /\ \E u \in User : \E e \in Entitlement \ {entitlement[u]} :
        entitlement' = [entitlement EXCEPT ![u] = e]
    /\ UNCHANGED <<database, media, hives, reminders, confirmed, pc, locals, out>>

(* The owner deletes a file, whatever refers to it. *)
MediaDeleted ==
    /\ "media" \in Events
    /\ \E m \in Media : /\ media[m] # NoUser
                        /\ media' = [media EXCEPT ![m] = NoUser]
    /\ UNCHANGED <<database, entitlement, hives, reminders, confirmed, pc, locals, out>>

(* hive-service and notification-service attach something to an apiary     *)
(* they see to exist at that moment, or, notification-service, have been   *)
(* told to exist.                                                          *)
HiveAdded ==
    /\ "hive" \in Events
    /\ \E i \in ActiveIds \ hives : hives' = hives \cup {i}
    /\ UNCHANGED <<database, entitlement, media, reminders, confirmed, pc, locals, out>>

(* GET /internal/api/v1/apiaries/{id}/exists: one statement.  204 is an    *)
(* answer about this moment; its reader acts on it when it pleases.        *)
ExistsAnswered ==
    /\ "exists" \in Events
    /\ ConnFree
    /\ \E i \in ActiveIds \ confirmed : confirmed' = confirmed \cup {i}
    /\ UNCHANGED <<database, entitlement, media, hives, reminders, pc, locals, out>>

ReminderAdded ==
    /\ "reminder" \in Events
    /\ \E i \in (ActiveIds \cup confirmed) \ reminders :
        /\ reminders' = reminders \cup {i}
        /\ confirmed' = confirmed \ {i}
    /\ UNCHANGED <<database, entitlement, media, hives, pc, locals, out>>

ExternalStep == SubscriptionChanges \/ MediaDeleted \/ HiveAdded
                \/ ExistsAnswered \/ ReminderAdded
=============================================================================
