------------------------------- MODULE MCRequests -------------------------------
(* Alerts, UserData and Analytics for TLC.  They share nothing that any of them *)
(* changes for another, so each behaviour has the steps of one of them, and the *)
(* other two stay as they are at first.                                         *)
EXTENDS Alerts, UserData, Analytics, TLC

CONSTANTS k1, k2, x1, x2  \* two keys and two addresses

\* Contacts by email under one key or the other, of another type, and without an address.
MCContactDrafts ==
  {[key |-> k1, type |-> "email", address |-> x1], [key |-> k1, type |-> "other", address |-> x1],
   [key |-> k1, type |-> "email", address |-> NoAddress],
   [key |-> k2, type |-> "email", address |-> x2]}

VARIABLE part  \* whose steps the behaviour has

MCVars == <<part, alertVars, userDataVars, analyticsVars>>

MCInit ==
  /\ part \in {"alerts", "user data", "analytics"}
  /\ AlertsInit /\ UserDataInit /\ AnalyticsInit
  /\ part # "alerts" => Stored(contacts) = {} /\ alert = [key |-> k1, complete |-> TRUE]
  /\ part # "user data" => Stored(surveys) = {}
  /\ part # "analytics" => period = 0

MCNext ==
  \/ part = "alerts" /\ AlertsNext /\ UNCHANGED <<part, userDataVars, analyticsVars>>
  \/ part = "user data" /\ UserDataNext /\ UNCHANGED <<part, alertVars, analyticsVars>>
  \/ part = "analytics" /\ AnalyticsNext /\ UNCHANGED <<part, alertVars, userDataVars>>

MCSpec == MCInit /\ [][MCNext]_MCVars

TypeOK == AlertsTypeOK /\ UserDataTypeOK /\ AnalyticsTypeOK

MCSymmetry == Permutations(ContactIds) \cup Permutations(SurveyIds)
  \cup Permutations(ResponseIds) \cup Permutations(AnswerIds)
===============================================================================
