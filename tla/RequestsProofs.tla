----------------------------- MODULE RequestsProofs -----------------------------
(***************************************************************************)
(* Theorems about Alerts, UserData and Analytics, each for every behaviour *)
(* of its own module, and about the three put together in MCRequests.      *)
(***************************************************************************)
EXTENDS MCRequests, TLAPS

-------------------------------------------------------------------------------
(* Alerts.                                                                  *)

\* The loop goes through each contact once, and only while the handler is in it: what
\* it has still to go through it has not mailed.
OneEach(n) ==
  /\ todo[n] # {} => at[n] = "mail"
  /\ \A x, y \in todo[n] : x[1] = y[1] => x = y
  /\ \A x \in todo[n] : mailed[n][x[1]] = 0

\* A handler that answers with an error, or is not in its loop yet, has mailed no
\* contact, and neither has any handler of an incomplete alert.
ErrorMailsNone(n) ==
  at[n] \in {"unsent", "find", "error"} \/ ~alert.complete =>
    \A id \in ContactIds : mailed[n][id] = 0

\* A steady contact is one for the alert; from the loop on it has been tried, or
\* is still to come as it is stored now, unless it is not to be mailed.
SteadyToCome(n) ==
  /\ at[n] = "find" => \A id \in steady[n] : ForAlert(id)
  /\ at[n] \in {"mail", "success"} =>
       \A id \in steady[n] :
         contacts[id].type = "email" /\ contacts[id].address # NoAddress =>
           id \in tried[n] \/ <<id, contacts[id]>> \in todo[n]

\* The addresses that the loop has read, or is about to, are among those held.
AddressesHeld(n) ==
  /\ sent[n] \subseteq held[n]
  /\ at[n] = "unsent" => sent[n] = {}
  /\ \A x \in todo[n] : x[2].address \in held[n]
  /\ at[n] \in {"find", "mail"} =>
       \A id \in ContactIds : ForAlert(id) => contacts[id].address \in held[n]

AttemptInv(n) == OneEach(n) /\ ErrorMailsNone(n) /\ SteadyToCome(n) /\ AddressesHeld(n)

\* The client sends the alert again only after an attempt that told it of an error or
\* gave it no answer.
InTurn ==
  \A n \in Attempts :
    /\ n > attempts => at[n] = "unsent"
    /\ n < attempts => n \in unanswered \/ at[n] = "error"

AlertsInv == AlertsTypeOK /\ InTurn /\ \A n \in Attempts : AttemptInv(n)
-------------------------------------------------------------------------------
\* A stored contact is a contact, and what the loops have to do is made of them.
LEMMA ContactShape ==
  ASSUME AlertsTypeOK
  PROVE  /\ \A id \in Stored(contacts) : id \in ContactIds /\ contacts[id] \in Contact
         /\ \A id \in ContactIds : ForAlert(id) => id \in Stored(contacts) /\ contacts[id].key = alert.key
         /\ \A n \in Attempts : \A x \in todo[n] : x[1] \in ContactIds /\ x[2] \in Contact
BY DEF AlertsTypeOK, Stored, ForAlert

\* The bounded counters.
LEMMA AlertCountersType ==
  ASSUME AlertsTypeOK
  PROVE  /\ MaxAttempts \in Nat /\ MaxChanges \in Nat /\ MaxFaults \in Nat
         /\ attempts \in 0..MaxAttempts /\ changes \in 0..MaxChanges
         /\ mailFaults \in 0..MaxFaults
         /\ Attempts \subseteq Nat
BY AlertsAssumption DEF AlertsTypeOK, Attempts

\* Spending a fault stays within the bound.
LEMMA FaultType ==
  ASSUME AlertsTypeOK, SpendMailFault PROVE mailFaults' \in 0..MaxFaults
<1>1. mailFaults < MaxFaults /\ mailFaults' = mailFaults + 1
  BY DEF SpendMailFault
<1> QED BY <1>1, AlertCountersType

\* An attempt that the step leaves alone, with contacts as they are.
SameAttempt(k) ==
  /\ at'[k] = at[k] /\ todo'[k] = todo[k] /\ mailed'[k] = mailed[k] /\ sent'[k] = sent[k]
  /\ tried'[k] = tried[k] /\ held'[k] = held[k] /\ steady'[k] = steady[k]

\* It keeps what it had.
LEMMA SameAttemptInv ==
  ASSUME UNCHANGED <<contacts, alert>>, NEW k \in Attempts, AttemptInv(k), SameAttempt(k)
  PROVE  AttemptInv(k)'
BY DEF AttemptInv, OneEach, ErrorMailsNone, SteadyToCome, AddressesHeld, ForAlert, SameAttempt
-------------------------------------------------------------------------------
(* One lemma for each kind of step.                                        *)

\* An attempt begins with nothing done.
LEMMA SendAlertInv ==
  ASSUME AlertsInv, NEW n \in Attempts, SendAlert(n) PROVE AlertsInv'
<1> DEFINE now == {id \in ContactIds : ForAlert(id)}
           addresses == {contacts[id].address : id \in now}
<1>1. /\ n = attempts + 1 /\ attempts' = n
      /\ attempts > 0 => attempts \in unanswered \/ at[attempts] = "error"
      /\ at' = [at EXCEPT ![n] = "find"]
      /\ steady' = [steady EXCEPT ![n] = now]
      /\ held' = [held EXCEPT ![n] = addresses]
      /\ contacts' = contacts /\ alert' = alert /\ todo' = todo /\ unanswered' = unanswered
      /\ mailed' = mailed /\ sent' = sent /\ tried' = tried
      /\ changes' = changes /\ mailFaults' = mailFaults
  BY DEF SendAlert
<1>2. attempts \in Nat /\ n \in 1..MaxAttempts /\ \A k \in Attempts : k \in Nat
  BY AlertCountersType DEF AlertsInv, Attempts
<1>3. at[n] = "unsent" /\ todo[n] = {}
  BY <1>1, <1>2 DEF AlertsInv, InTurn, AttemptInv, OneEach
<1>4. AlertsTypeOK'
  <2>1. attempts' \in 0..MaxAttempts /\ unanswered' \subseteq 1..attempts'
    BY <1>1, <1>2 DEF AlertsInv, AlertsTypeOK
  <2>2. addresses \subseteq Addresses \cup {NoAddress}
    <3>1. \A id \in now : contacts[id] \in Contact
      BY ContactShape DEF AlertsInv
    <3> QED BY <3>1 DEF Contact
  <2> HIDE DEF addresses
  <2> QED BY <1>1, <2>1, <2>2 DEF AlertsInv, AlertsTypeOK
<1>5. InTurn'
  <2> SUFFICES ASSUME NEW k \in Attempts
               PROVE  /\ k > attempts' => at'[k] = "unsent"
                      /\ k < attempts' => k \in unanswered \/ at'[k] = "error"
    BY <1>1 DEF InTurn
  <2>1. k > attempts' => k # n /\ k > attempts
    BY <1>1, <1>2
  <2>2. k < attempts' => k # n /\ (k < attempts \/ (k = attempts /\ attempts > 0))
    BY <1>1, <1>2 DEF Attempts
  <2> QED BY <1>1, <2>1, <2>2 DEF AlertsInv, AlertsTypeOK, InTurn
<1>6. ASSUME NEW k \in Attempts PROVE AttemptInv(k)'
  <2>1. CASE k = n
    <3>1. at'[n] = "find" /\ steady'[n] = now /\ held'[n] = addresses
      BY <1>1 DEF AlertsInv, AlertsTypeOK
    <3>2. sent[n] = {}
      BY <1>3 DEF AlertsInv, AttemptInv, AddressesHeld
    <3>3. OneEach(n)' /\ ErrorMailsNone(n)'
      BY <1>1, <1>3, <3>1 DEF AlertsInv, AttemptInv, OneEach, ErrorMailsNone
    <3>4. SteadyToCome(n)' /\ AddressesHeld(n)'
      BY <1>1, <1>3, <3>1, <3>2 DEF SteadyToCome, AddressesHeld, ForAlert
    <3> QED BY <2>1, <3>3, <3>4 DEF AttemptInv
  <2>2. CASE k # n
    <3>1. SameAttempt(k)
      BY <1>1, <2>2 DEF SameAttempt, AlertsInv, AlertsTypeOK
    <3> QED BY <1>1, <3>1, SameAttemptInv DEF AlertsInv
  <2> QED BY <2>1, <2>2
<1> QED BY <1>4, <1>5, <1>6 DEF AlertsInv

\* The loop begins with each contact for the key, as it is stored now.
LEMMA FindContactsInv ==
  ASSUME AlertsInv, NEW n \in Attempts, FindContacts(n) PROVE AlertsInv'
<1> DEFINE found == MatchingKey(alert.key)
           pairs == {<<id, contacts[id]>> : id \in found}
           next == IF found = {} THEN "error" ELSE "mail"
<1>1. /\ at[n] = "find" /\ at' = [at EXCEPT ![n] = next]
      /\ todo' = [todo EXCEPT ![n] = pairs]
      /\ contacts' = contacts /\ alert' = alert /\ unanswered' = unanswered /\ mailed' = mailed
      /\ sent' = sent /\ tried' = tried /\ steady' = steady /\ held' = held
      /\ attempts' = attempts /\ changes' = changes /\ mailFaults' = mailFaults
  BY DEF FindContacts, since
<1>2. found = {id \in ContactIds : ForAlert(id)}
  BY DEF MatchingKey, ForAlert, Stored, AlertsInv, AlertsTypeOK
<1>3. \A id \in found : id \in ContactIds /\ contacts[id] \in Contact
  BY <1>2, ContactShape DEF AlertsInv
<1> HIDE DEF found
<1>4. pairs \subseteq ContactIds \X Contact
  BY <1>3
<1>5. AlertsTypeOK'
  <2> HIDE DEF pairs
  <2> QED BY <1>1, <1>4 DEF AlertsInv, AlertsTypeOK
<1>6. InTurn'
  BY <1>1 DEF AlertsInv, AlertsTypeOK, InTurn
<1>7. ASSUME NEW k \in Attempts PROVE AttemptInv(k)'
  <2>1. CASE k = n
    <3>1. at'[n] = next /\ todo'[n] = pairs
      BY <1>1 DEF AlertsInv, AlertsTypeOK
    <3>2. \A id \in ContactIds : mailed[n][id] = 0
      BY <1>1 DEF AlertsInv, AttemptInv, ErrorMailsNone
    <3>3. OneEach(n)' /\ ErrorMailsNone(n)'
      BY <1>1, <1>3, <3>1, <3>2 DEF OneEach, ErrorMailsNone
    <3>4. SteadyToCome(n)'
      <4>1. \A id \in steady[n] : id \in found
        BY <1>1, <1>2 DEF AlertsInv, AttemptInv, SteadyToCome, AlertsTypeOK
      <4> QED BY <1>1, <3>1, <4>1 DEF SteadyToCome
    <3>5. AddressesHeld(n)'
      <4>1. /\ sent[n] \subseteq held[n]
            /\ \A id \in ContactIds : ForAlert(id) => contacts[id].address \in held[n]
        BY <1>1 DEF AlertsInv, AttemptInv, AddressesHeld
      <4>2. \A x \in pairs : x[2].address \in held[n]
        BY <1>2, <4>1
      <4> QED BY <1>1, <3>1, <4>1, <4>2 DEF AddressesHeld, ForAlert
    <3> QED BY <2>1, <3>3, <3>4, <3>5 DEF AttemptInv
  <2>2. CASE k # n
    <3>1. SameAttempt(k)
      BY <1>1, <2>2 DEF SameAttempt, AlertsInv, AlertsTypeOK
    <3> QED BY <1>1, <3>1, SameAttemptInv DEF AlertsInv
  <2> QED BY <2>1, <2>2
<1> QED BY <1>5, <1>6, <1>7 DEF AlertsInv

\* Handlers that end, with an error or with their process, have nothing more to do;
\* one that answers with an error has mailed no contact.
LEMMA EndInv ==
  ASSUME AlertsInv, NEW ended \in SUBSET Working, NEW how \in {"error", "cut"},
         at' = [n \in Attempts |-> IF n \in ended THEN how ELSE at[n]],
         todo' = [n \in Attempts |-> IF n \in ended THEN {} ELSE todo[n]],
         unanswered' = unanswered \/ unanswered' = unanswered \cup ended,
         UNCHANGED <<contacts, alert, mailed, sent, tried, since, attempts, changes>>,
         mailFaults' \in 0..MaxFaults,
         how = "error" => \A n \in ended : at[n] = "find" \/ ~alert.complete
  PROVE  AlertsInv'
<1>1. \A n \in ended : n \in Attempts /\ at[n] \in {"find", "mail"} /\ n \in 1..attempts
  <2>1. \A n \in ended : n \in Attempts /\ at[n] \in {"find", "mail"} /\ ~(n > attempts)
    BY DEF Working, AlertsInv, InTurn
  <2> QED BY <2>1, AlertCountersType DEF AlertsInv, Attempts
<1>2. AlertsTypeOK'
  BY <1>1 DEF AlertsInv, AlertsTypeOK, since
<1>3. InTurn'
  <2> SUFFICES ASSUME NEW k \in Attempts
               PROVE  /\ k > attempts => at'[k] = "unsent"
                      /\ k < attempts => k \in unanswered' \/ at'[k] = "error"
    BY DEF InTurn
  <2>1. /\ k > attempts => at[k] = "unsent"
        /\ k < attempts => k \in unanswered \/ at[k] = "error"
    BY DEF AlertsInv, InTurn
  <2> QED BY <1>1, <2>1
<1>4. ASSUME NEW k \in Attempts PROVE AttemptInv(k)'
  <2>1. AttemptInv(k)
    BY DEF AlertsInv
  <2>2. CASE k \in ended
    <3>1. at'[k] = how /\ todo'[k] = {}
      BY <2>2
    <3>2. OneEach(k)' /\ ErrorMailsNone(k)'
      BY <2>1, <2>2, <3>1 DEF AttemptInv, OneEach, ErrorMailsNone
    <3>3. SteadyToCome(k)' /\ AddressesHeld(k)'
      BY <2>1, <3>1 DEF AttemptInv, SteadyToCome, AddressesHeld, since
    <3> QED BY <3>2, <3>3 DEF AttemptInv
  <2>3. CASE k \notin ended
    BY <2>1, <2>3, SameAttemptInv DEF SameAttempt, since
  <2> QED BY <2>2, <2>3
<1> QED BY <1>2, <1>3, <1>4 DEF AlertsInv

\* A handler's error is such an end.
LEMMA ErrorInv ==
  ASSUME AlertsInv, NEW n \in Working,
         at' = [at EXCEPT ![n] = "error"], todo' = [todo EXCEPT ![n] = {}],
         UNCHANGED <<contacts, alert, unanswered, mailed, sent, tried, since, attempts, changes>>,
         mailFaults' \in 0..MaxFaults, at[n] = "find" \/ ~alert.complete
  PROVE  AlertsInv'
<1>1. /\ at' = [k \in Attempts |-> IF k \in {n} THEN "error" ELSE at[k]]
      /\ todo' = [k \in Attempts |-> IF k \in {n} THEN {} ELSE todo[k]]
  BY DEF AlertsInv, AlertsTypeOK
<1>2. {n} \in SUBSET Working /\ "error" \in {"error", "cut"}
      /\ \A k \in {n} : at[k] = "find" \/ ~alert.complete
  OBVIOUS
<1> QED BY <1>1, <1>2, EndInv

\* The loop goes on behind a contact x that gets a mail, be it taken or failed, or
\* that is not to be mailed.
LEMMA LoopInv ==
  ASSUME AlertsInv, NEW n \in Attempts, at[n] = "mail", NEW x \in todo[n],
         at' = at, todo' = [todo EXCEPT ![n] = todo[n] \ {x}],
         UNCHANGED <<contacts, alert, unanswered, since, attempts, changes>>,
         mailFaults' \in 0..MaxFaults,
         \/ UNCHANGED <<mailed, sent, tried>> /\ (x[2].type # "email" \/ x[2].address = NoAddress)
         \/ /\ alert.complete /\ x[2].address # NoAddress
            /\ \E taken \in BOOLEAN : MailTo(n, x, taken)
  PROVE  AlertsInv'
<1>1. x[1] \in ContactIds /\ x[2] \in Contact /\ mailed[n][x[1]] = 0 /\ AttemptInv(n)
  BY ContactShape DEF AlertsInv, AttemptInv, OneEach
<1>2. todo'[n] = todo[n] \ {x} /\ \A k \in Attempts \ {n} : todo'[k] = todo[k]
  BY DEF AlertsInv, AlertsTypeOK
<1>3. /\ mailed' \in [Attempts -> [ContactIds -> 0..1]]
      /\ \A k \in Attempts \ {n} : mailed'[k] = mailed[k]
      /\ \A id \in ContactIds \ {x[1]} : mailed'[n][id] = mailed[n][id]
      /\ ~alert.complete => mailed' = mailed
  <2>1. CASE mailed' = mailed
    BY <2>1 DEF AlertsInv, AlertsTypeOK
  <2>2. CASE alert.complete /\ mailed' = [mailed EXCEPT ![n][x[1]] = mailed[n][x[1]] + 1]
    <3>1. mailed' = [mailed EXCEPT ![n] = [mailed[n] EXCEPT ![x[1]] = 1]]
      BY <1>1, <2>2 DEF AlertsInv, AlertsTypeOK
    <3>2. [mailed[n] EXCEPT ![x[1]] = 1] \in [ContactIds -> 0..1]
      BY DEF AlertsInv, AlertsTypeOK
    <3> QED BY <1>1, <2>2, <3>1, <3>2 DEF AlertsInv, AlertsTypeOK
  <2> QED BY <2>1, <2>2 DEF MailTo
<1>4. /\ sent' \in [Attempts -> SUBSET Addresses]
      /\ \A k \in Attempts \ {n} : sent'[k] = sent[k]
      /\ sent'[n] \subseteq sent[n] \cup {x[2].address}
  <2>1. CASE sent' = sent
    BY <2>1 DEF AlertsInv, AlertsTypeOK
  <2>2. CASE x[2].address # NoAddress /\ sent' = [sent EXCEPT ![n] = sent[n] \cup {x[2].address}]
    BY <1>1, <2>2 DEF AlertsInv, AlertsTypeOK, Contact
  <2> QED BY <2>1, <2>2 DEF MailTo
<1>5. /\ tried' \in [Attempts -> SUBSET ContactIds]
      /\ \A k \in Attempts \ {n} : tried'[k] = tried[k]
      /\ \/ tried'[n] = tried[n] /\ (x[2].type # "email" \/ x[2].address = NoAddress)
         \/ tried'[n] = tried[n] \cup {x[1]}
  <2>1. CASE tried' = tried /\ (x[2].type # "email" \/ x[2].address = NoAddress)
    BY <2>1 DEF AlertsInv, AlertsTypeOK
  <2>2. CASE tried' = [tried EXCEPT ![n] = tried[n] \cup {x[1]}]
    BY <1>1, <2>2 DEF AlertsInv, AlertsTypeOK
  <2> QED BY <2>1, <2>2 DEF MailTo
<1>6. AlertsTypeOK'
  <2>1. todo' \in [Attempts -> SUBSET (ContactIds \X Contact)]
    BY DEF AlertsInv, AlertsTypeOK
  <2> QED BY <1>3, <1>4, <1>5, <2>1 DEF AlertsInv, AlertsTypeOK, since
<1>7. InTurn'
  BY DEF AlertsInv, InTurn
<1>8. OneEach(n)'
  <2>1. \A y \in todo'[n] : y[1] \in ContactIds \ {x[1]} /\ mailed[n][y[1]] = 0
    BY <1>1, <1>2, ContactShape DEF AlertsInv, AttemptInv, OneEach
  <2> QED BY <1>1, <1>2, <1>3, <2>1 DEF AttemptInv, OneEach
<1>9. ErrorMailsNone(n)'
  BY <1>1, <1>3 DEF AttemptInv, ErrorMailsNone
<1>10. SteadyToCome(n)'
  <2> SUFFICES ASSUME NEW id \in steady[n], contacts[id].type = "email",
                      contacts[id].address # NoAddress
               PROVE  id \in tried'[n] \/ <<id, contacts[id]>> \in todo'[n]
    BY DEF SteadyToCome, since
  <2>1. id \in tried[n] \/ <<id, contacts[id]>> \in todo[n]
    BY <1>1 DEF AttemptInv, SteadyToCome
  <2>2. CASE x = <<id, contacts[id]>>
    BY <1>5, <2>2
  <2> QED BY <1>2, <1>5, <2>1, <2>2
<1>11. AddressesHeld(n)'
  BY <1>1, <1>2, <1>4 DEF AttemptInv, AddressesHeld, since, ForAlert
<1>12. ASSUME NEW k \in Attempts \ {n} PROVE AttemptInv(k)'
  <2>1. SameAttempt(k)
    BY <1>2, <1>3, <1>4, <1>5 DEF SameAttempt, since
  <2> QED BY <2>1, SameAttemptInv DEF AlertsInv
<1> QED BY <1>6, <1>7, <1>8, <1>9, <1>10, <1>11, <1>12 DEF AlertsInv, AttemptInv

\* The end of the loop and the loss of the answer leave the mails as they are.
LEMMA AnswerInv ==
  ASSUME AlertsInv, NEW n \in Attempts,
         \/ EndOfLoop(n)
         \/ ClientGivesUp(n)
  PROVE  AlertsInv'
<1>1. /\ contacts' = contacts /\ alert' = alert /\ todo' = todo /\ mailed' = mailed
      /\ sent' = sent /\ tried' = tried /\ steady' = steady /\ held' = held
      /\ attempts' = attempts /\ changes' = changes
      /\ \/ at' = at
         \/ at[n] = "mail" /\ todo[n] = {} /\ at' = [at EXCEPT ![n] = "success"]
      /\ \/ unanswered' = unanswered
         \/ n \in Working /\ unanswered' = unanswered \cup {n}
  BY DEF EndOfLoop, ClientGivesUp, since
<1>2. at[n] \in {"find", "mail"} => n \in 1..attempts
  <2>1. at[n] \in {"find", "mail"} => ~(n > attempts)
    BY DEF AlertsInv, InTurn
  <2> QED BY <2>1, AlertCountersType DEF AlertsInv, Attempts
<1>3. AlertsTypeOK'
  <2>1. mailFaults' \in 0..MaxFaults
    BY FaultType DEF EndOfLoop, ClientGivesUp, AlertsInv, AlertsTypeOK
  <2> QED BY <1>1, <1>2, <2>1 DEF AlertsInv, AlertsTypeOK, Working
<1>4. InTurn'
  <2> SUFFICES ASSUME NEW k \in Attempts
               PROVE  /\ k > attempts => at'[k] = "unsent"
                      /\ k < attempts => k \in unanswered' \/ at'[k] = "error"
    BY <1>1 DEF InTurn
  <2>1. /\ k > attempts => at[k] = "unsent"
        /\ k < attempts => k \in unanswered \/ at[k] = "error"
    BY DEF AlertsInv, InTurn
  <2> QED BY <1>1, <2>1 DEF AlertsInv, AlertsTypeOK
<1>5. ASSUME NEW k \in Attempts PROVE AttemptInv(k)'
  <2>1. CASE at'[k] = at[k]
    BY <1>1, <2>1, SameAttemptInv DEF SameAttempt, AlertsInv
  <2>2. CASE k = n /\ at[n] = "mail" /\ todo[n] = {} /\ at'[n] = "success"
    BY <1>1, <2>2 DEF AlertsInv, AttemptInv, OneEach, ErrorMailsNone, SteadyToCome,
                      AddressesHeld, ForAlert
  <2> QED BY <1>1, <2>1, <2>2 DEF AlertsInv, AlertsTypeOK
<1> QED BY <1>3, <1>4, <1>5 DEF AlertsInv

\* Admins change contacts: what they change is no longer steady, and what it is
\* changed to is held.
LEMMA ContactChangesInv ==
  ASSUME AlertsInv, NEW id \in ContactIds, NEW c \in Contact \cup {Gone},
         contacts' = [contacts EXCEPT ![id] = c], ContactChanges(id)
  PROVE  AlertsInv'
<1> DEFINE now == IF c # Gone /\ c.key = alert.key THEN {c.address} ELSE {}
<1>1. /\ contacts'[id] = c /\ \A other \in ContactIds \ {id} : contacts'[other] = contacts[other]
      /\ contacts' \in [ContactIds -> Contact \cup {Unborn, Gone}]
  BY DEF AlertsInv, AlertsTypeOK
<1>2. /\ changes < MaxChanges /\ changes' = changes + 1
      /\ steady' = [n \in Attempts |-> steady[n] \ {id}]
      /\ held' = [n \in Attempts |-> IF n \in Working THEN held[n] \cup now ELSE held[n]]
      /\ at' = at /\ todo' = todo /\ unanswered' = unanswered /\ mailed' = mailed
      /\ sent' = sent /\ tried' = tried
      /\ alert' = alert /\ attempts' = attempts /\ mailFaults' = mailFaults
  BY <1>1 DEF ContactChanges, request
<1>3. now \subseteq Addresses \cup {NoAddress} /\ (c # Gone /\ c.key = alert.key => c.address \in now)
  BY DEF Contact
<1> HIDE DEF now
<1>4. AlertsTypeOK'
  <2>1. changes' \in 0..MaxChanges
    BY <1>2, AlertCountersType DEF AlertsInv
  <2> QED BY <1>1, <1>2, <1>3, <2>1 DEF AlertsInv, AlertsTypeOK
<1>5. InTurn'
  BY <1>2 DEF AlertsInv, InTurn
<1>6. ASSUME NEW n \in Attempts PROVE AttemptInv(n)'
  <2>0. /\ AttemptInv(n)
        /\ held[n] \subseteq held'[n] /\ (at[n] \in {"find", "mail"} => now \subseteq held'[n])
        /\ steady'[n] = steady[n] \ {id}
    BY <1>2 DEF AlertsInv, Working
  <2>1. OneEach(n)' /\ ErrorMailsNone(n)'
    BY <1>2, <2>0 DEF AttemptInv, OneEach, ErrorMailsNone
  <2>2. SteadyToCome(n)'
    <3>1. \A other \in steady'[n] : other \in steady[n] /\ contacts'[other] = contacts[other]
      BY <1>1, <2>0 DEF AlertsInv, AlertsTypeOK
    <3> QED BY <1>2, <2>0, <3>1 DEF AttemptInv, SteadyToCome, ForAlert
  <2>3. AddressesHeld(n)'
    <3>1. at[n] \in {"find", "mail"} =>
            \A other \in ContactIds : ForAlert(other)' => contacts'[other].address \in held'[n]
      BY <1>1, <1>2, <1>3, <2>0 DEF AttemptInv, AddressesHeld, ForAlert
    <3> QED BY <1>2, <2>0, <3>1 DEF AttemptInv, AddressesHeld
  <2> QED BY <2>1, <2>2, <2>3 DEF AttemptInv
<1> QED BY <1>4, <1>5, <1>6 DEF AlertsInv

\* Every step keeps the invariant.
LEMMA AlertsStepInv ==
  ASSUME AlertsInv, [AlertsNext]_alertVars PROVE AlertsInv'
<1>0. AlertsTypeOK /\ mailFaults \in 0..MaxFaults
      /\ todo \in [Attempts -> SUBSET (ContactIds \X Contact)]
  BY DEF AlertsInv, AlertsTypeOK
<1>1. ASSUME NEW n \in Attempts, SendAlert(n) PROVE AlertsInv'
  BY <1>1, SendAlertInv
<1>2. ASSUME NEW n \in Attempts, FindContacts(n) PROVE AlertsInv'
  BY <1>2, FindContactsInv
<1>3. ASSUME NEW n \in Attempts, FindContactsFails(n) PROVE AlertsInv'
  <2>1. todo[n] = {} /\ n \in Working
    BY <1>3 DEF FindContactsFails, AlertsInv, AttemptInv, OneEach, Working
  <2>2. todo' = [todo EXCEPT ![n] = {}]
    BY <1>0, <1>3, <2>1 DEF FindContactsFails
  <2> QED BY <1>0, <1>3, <2>1, <2>2, FaultType, ErrorInv DEF FindContactsFails
<1>4. ASSUME NEW n \in Attempts, EndOfLoop(n) \/ ClientGivesUp(n) PROVE AlertsInv'
  BY <1>4, AnswerInv
<1>5. CASE ProcessEnds
  BY <1>0, <1>5, FaultType, EndInv DEF ProcessEnds
<1>6. ASSUME NEW n \in Attempts, NEW x \in todo[n], PassOver(n, x) PROVE AlertsInv'
  BY <1>0, <1>6, LoopInv DEF PassOver, AfterOther
<1>7. ASSUME NEW n \in Attempts, NEW x \in todo[n], RefuseAlert(n, x) PROVE AlertsInv'
  BY <1>0, <1>7, ErrorInv DEF RefuseAlert, Working
<1>8. ASSUME NEW n \in Attempts, NEW x \in todo[n], SendMail(n, x) PROVE AlertsInv'
  BY <1>0, <1>8, LoopInv DEF SendMail
<1>9. ASSUME NEW n \in Attempts, NEW x \in todo[n], MailFails(n, x) PROVE AlertsInv'
  BY <1>0, <1>9, FaultType, LoopInv DEF MailFails, LogAndGoOn
<1>10. ASSUME NEW id \in ContactIds, NEW draft \in Drafts,
              CreateAlertContact(id, draft) \/ UpdateAlertContact(id, draft)
       PROVE  AlertsInv'
  BY <1>10, AlertsAssumption, ContactChangesInv DEF CreateAlertContact, UpdateAlertContact
<1>11. ASSUME NEW id \in ContactIds, DeleteAlertContact(id) PROVE AlertsInv'
  BY <1>11, ContactChangesInv DEF DeleteAlertContact
<1>12. CASE UNCHANGED alertVars
  <2>1. AlertsTypeOK' /\ InTurn'
    BY <1>12 DEF alertVars, request, since, AlertsInv, AlertsTypeOK, InTurn
  <2>2. \A n \in Attempts : AttemptInv(n)'
    BY <1>12, SameAttemptInv DEF alertVars, request, since, AlertsInv, SameAttempt
  <2> QED BY <2>1, <2>2 DEF AlertsInv
<1> QED
  BY <1>1, <1>2, <1>3, <1>4, <1>5, <1>6, <1>7, <1>8, <1>9, <1>10, <1>11, <1>12
     DEF AlertsNext

\* The inductive invariant.
LEMMA AlertsInvariant == AlertsSpec => []AlertsInv
<1>1. AlertsInit => AlertsInv
  <2> SUFFICES ASSUME AlertsInit PROVE AlertsInv
    OBVIOUS
  <2>1. AlertsTypeOK
    <3>1. contacts \in [ContactIds -> Contact \cup {Unborn, Gone}]
      BY AlertsAssumption DEF AlertsInit
    <3>2. 0 \in 0..MaxAttempts /\ 0 \in 0..MaxChanges /\ 0 \in 0..MaxFaults /\ 0 \in 0..1
      BY AlertsAssumption
    <3> QED BY <3>1, <3>2, Zenon DEF AlertsInit, AlertsTypeOK, Nothing
  <2>2. InTurn
    BY DEF AlertsInit, InTurn, Attempts
  <2>3. \A n \in Attempts : AttemptInv(n)
    BY DEF AlertsInit, Nothing, AttemptInv, OneEach, ErrorMailsNone, SteadyToCome, AddressesHeld
  <2> QED BY <2>1, <2>2, <2>3 DEF AlertsInv
<1> QED BY <1>1, AlertsStepInv, PTL DEF AlertsSpec
-------------------------------------------------------------------------------
\* The state of the contacts, the client and the handlers always has its type; that
\* no attempt mails a contact twice is part of it.
THEOREM AlertsTypeCorrect == AlertsSpec => []AlertsTypeOK
BY AlertsInvariant, PTL DEF AlertsInv

\* A client that repeats POST /survey-alerts has a contact mailed again only behind
\* an attempt that gave it no answer: one that told it of an error mailed no contact,
\* and none will be mailed for it later.
THEOREM MailsOnce == AlertsSpec => []MailedOnce
<1>1. AlertsInv => MailedOnce
  <2> SUFFICES ASSUME AlertsInv, NEW id \in ContactIds, NEW m \in Attempts, NEW n \in Attempts,
                      m < n, mailed[m][id] > 0, mailed[n][id] > 0
               PROVE  m \in unanswered
    BY DEF MailedOnce
  <2>1. at[m] # "error" /\ at[n] # "unsent"
    BY DEF AlertsInv, AttemptInv, ErrorMailsNone
  <2>2. m < attempts
    BY <2>1, AlertCountersType DEF AlertsInv, InTurn, Attempts
  <2> QED BY <2>1, <2>2 DEF AlertsInv, InTurn
<1> QED BY <1>1, AlertsInvariant, PTL

\* An alert that is answered with success has tried to mail every contact that had
\* the key and an address all the time.
THEOREM MailsAll == AlertsSpec => []AllMailed
<1>1. AlertsInv => AllMailed
  BY DEF AlertsInv, AttemptInv, AllMailed, SteadyToCome, OneEach
<1> QED BY <1>1, AlertsInvariant, PTL

\* Mails go only to addresses that a contact for the alert's key had while the
\* attempt was at work.
THEOREM MailsToContacts == AlertsSpec => []MailedToContacts
<1>1. AlertsInv => MailedToContacts
  BY DEF AlertsInv, AttemptInv, AddressesHeld, MailedToContacts
<1> QED BY <1>1, AlertsInvariant, PTL
-------------------------------------------------------------------------------
(* User data.                                                               *)

\* The part of the user's documents that a goroutine is to read.
PartOf(x) == IF x = "surveys" THEN SurveyIds \X Survey ELSE ResponseIds \X Response

HasRead(x) == got[x] # NotRead /\ ~got[x].failed

\* What the user has now lies between what has not changed since the request began
\* and what the user had since then.
NowIsBetween ==
  reading = "at work" =>
    kept \subseteq Mine(surveys, responses) /\ Mine(surveys, responses) \subseteq had

\* So does what each goroutine has read, as far as it was its part to read.
ReadIsBetween ==
  reading \in {"at work", "answered"} =>
    \A x \in Sources : HasRead(x) =>
      kept \cap PartOf(x) \subseteq got[x].docs /\ got[x].docs \subseteq had

\* An answer has both parts.
AnswerHasBoth == reading = "answered" => \A x \in Sources : HasRead(x)

DataInv == NowIsBetween /\ ReadIsBetween /\ AnswerHasBoth

\* The score counts no response that is not stored yet, and none is left out of a
\* score that does not exist.
ScoreInv ==
  /\ ScoreFollowsCopies
  /\ uncounted \cap Free(responses) = {}
  /\ IF counted = NoScore THEN uncounted = {} ELSE counted \cap Free(responses) = {}
-------------------------------------------------------------------------------
(* The documents.                                                          *)

\* A survey is no response.
LEMMA PartsDisjoint == PartOf("surveys") \cap PartOf("responses") = {}
<1>1. ASSUME NEW d \in Survey, d \in Response PROVE FALSE
  <2>1. DOMAIN d = {"creator", "type"} /\ DOMAIN d = {"user", "survey", "type"}
    BY <1>1 DEF Survey, Response
  <2> QED BY <2>1
<1> QED BY <1>1 DEF PartOf

\* The documents of the user are found in the part where they belong.
LEMMA MineType ==
  ASSUME NEW ss \in [SurveyIds -> Survey \cup {Unborn, Gone}],
         NEW rs \in [ResponseIds -> Response \cup {Unborn, Gone}]
  PROVE  MySurveys(ss) \subseteq PartOf("surveys") /\ MyResponses(rs) \subseteq PartOf("responses")
BY DEF MySurveys, MyResponses, Stored, PartOf

\* A collection's stored documents.
LEMMA StoredDocument ==
  ASSUME UserDataTypeOK
  PROVE  /\ \A s \in Stored(surveys) : s \in SurveyIds /\ surveys[s] \in Survey
         /\ \A r \in Stored(responses) : r \in ResponseIds /\ responses[r] \in Response
BY DEF UserDataTypeOK, Stored
-------------------------------------------------------------------------------
(* Types.                                                                  *)

\* A survey gets a type that there is, whichever API it comes through.
LEMMA TypeForType ==
  ASSUME NEW api \in {"client", "admin"}, NEW type \in Types \cup {NoType}
  PROVE  TypeFor(api, type) \in Types
BY DEF TypeFor, Types

\* The two bounded counters.
LEMMA UserCountersType ==
  ASSUME UserDataTypeOK
  PROVE  /\ MaxWrites \in Nat /\ MaxReads \in Nat
         /\ writes \in 0..MaxWrites /\ reads \in 0..MaxReads
BY UserDataAssumption, Zenon DEF UserDataTypeOK

\* A change of the two collections within their types keeps the rest of the state
\* within its own.
LEMMA WrittenType ==
  ASSUME UserDataTypeOK, Written,
         surveys' \in [SurveyIds -> Survey \cup {Unborn, Gone}],
         responses' \in [ResponseIds -> Response \cup {Unborn, Gone}]
  PROVE  /\ reading' = reading /\ got' = got
         /\ kept' \subseteq had' /\ had' \subseteq Document
         /\ writes' \in 0..MaxWrites /\ reads' \in 0..MaxReads
<1>1. Mine(surveys', responses') \subseteq Document
  BY MineType DEF Mine, Document, PartOf
<1>2. kept' \subseteq had' /\ had' \subseteq Document
  BY <1>1 DEF Written, UserDataTypeOK
<1>3. writes' \in 0..MaxWrites /\ reads' \in 0..MaxReads
  <2>1. writes < MaxWrites /\ writes' = writes + 1 /\ reads' = reads
    BY DEF Written
  <2> QED BY <2>1, UserCountersType
<1> QED BY <1>2, <1>3 DEF Written

\* The state of the surveys, the responses, the score and the request for the
\* user's data always has its type.
LEMMA UserDataStepType ==
  ASSUME UserDataTypeOK, [UserDataNext]_userDataVars PROVE UserDataTypeOK'
<1> USE UserDataAssumption
<1>1. CASE AskForData
  <2>1. Mine(surveys, responses) \subseteq Document
    BY MineType DEF Mine, Document, PartOf, UserDataTypeOK
  <2>2. reads' \in 0..MaxReads
    <3>1. reads < MaxReads /\ reads' = reads + 1
      BY <1>1 DEF AskForData
    <3> QED BY <3>1, UserCountersType
  <2>3. reading' = "at work" /\ got' \in [Sources -> Reading \cup {NotRead}]
    BY <1>1 DEF AskForData
  <2> QED BY <1>1, <2>1, <2>2, <2>3, Zenon DEF AskForData, Unwritten, UserDataTypeOK
<1>2. ASSUME NEW x \in Sources, NEW found \in Reading, Read(x, found)
      PROVE  UserDataTypeOK'
  BY <1>2 DEF Read, Unwritten, UserDataTypeOK
<1>3. ASSUME ReadSurveys \/ ReadResponses \/ \E x \in Sources : ReadFails(x)
      PROVE  UserDataTypeOK'
  <2>1. /\ [docs |-> OfCreator, failed |-> FALSE] \in Reading
        /\ [docs |-> MyResponses(responses), failed |-> FALSE] \in Reading
        /\ [docs |-> {}, failed |-> TRUE] \in Reading
    BY MineType DEF OfCreator, Reading, Document, PartOf, UserDataTypeOK
  <2> QED BY <1>2, <1>3, <2>1 DEF ReadSurveys, ReadResponses, ReadFails, Sources
<1>4. CASE Join
  BY <1>4 DEF Join, Unwritten, UserDataTypeOK
<1>5. CASE GetScore
  <2>1. QuizAnswers(responses) \subseteq ResponseIds
    BY StoredDocument DEF QuizAnswers
  <2> QED BY <1>5, <2>1 DEF GetScore, UserDataTypeOK
<1>6. ASSUME NEW s \in SurveyIds, DeleteSurvey(s) PROVE UserDataTypeOK'
  <2>1. surveys' \in [SurveyIds -> Survey \cup {Unborn, Gone}] /\ responses' = responses
    BY <1>6 DEF DeleteSurvey, UserDataTypeOK
  <2> QED BY <1>6, <2>1, WrittenType DEF DeleteSurvey, UserDataTypeOK
<1>7. ASSUME NEW s \in SurveyIds, NEW u \in Users, BeginAnswer(u, s) PROVE UserDataTypeOK'
  <2>1. [user |-> u, survey |-> s, type |-> surveys[s].type] \in Response
    BY <1>7, StoredDocument DEF BeginAnswer, Survey, Response
  <2> QED BY <1>7, <2>1 DEF BeginAnswer, UserDataTypeOK
<1>8. ASSUME NEW s \in SurveyIds, NEW api \in {"client", "admin"},
             NEW type \in Types \cup {NoType}, UpdateSurvey(s, api, type)
      PROVE  UserDataTypeOK'
  <2>1. surveys[s] \in Survey /\ TypeFor(api, type) \in Types
    BY <1>8, StoredDocument, TypeForType DEF UpdateSurvey
  <2>2. surveys' = [surveys EXCEPT ![s] = [surveys[s] EXCEPT !.type = TypeFor(api, type)]]
    BY <1>8 DEF UpdateSurvey
  <2>3. [surveys[s] EXCEPT !.type = TypeFor(api, type)] \in Survey
    BY <2>1 DEF Survey
  <2>4. surveys' \in [SurveyIds -> Survey \cup {Unborn, Gone}] /\ responses' = responses
    BY <1>8, <2>2, <2>3 DEF UpdateSurvey, UserDataTypeOK
  <2> QED BY <1>8, <2>4, WrittenType DEF UpdateSurvey, UserDataTypeOK
<1>9. ASSUME NEW s \in SurveyIds, NEW api \in {"client", "admin"}, NEW u \in Users,
             NEW type \in Types \cup {NoType}, CreateSurvey(s, u, api, type)
      PROVE  UserDataTypeOK'
  <2>1. [creator |-> u, type |-> TypeFor(api, type)] \in Survey
    BY TypeForType DEF Survey
  <2>2. surveys' \in [SurveyIds -> Survey \cup {Unborn, Gone}] /\ responses' = responses
    BY <1>9, <2>1 DEF CreateSurvey, UserDataTypeOK
  <2> QED BY <1>9, <2>2, WrittenType DEF CreateSurvey, UserDataTypeOK
<1>10. ASSUME NEW r \in ResponseIds, StoreAnswer(r) PROVE UserDataTypeOK'
  <2>1. surveys' = surveys /\ responses' \in [ResponseIds -> Response \cup {Unborn, Gone}]
    BY <1>10 DEF StoreAnswer, UserDataTypeOK
  <2>2. QuizAnswers(responses') \subseteq ResponseIds
    BY <2>1 DEF QuizAnswers, Stored
  <2>3. counted' = NoScore \/ counted' \subseteq ResponseIds
    BY <1>10, <2>2 DEF StoreAnswer, CountedWith, UserDataTypeOK
  <2>4. uncounted' \subseteq ResponseIds /\ writing' = NoAnswer
    BY <1>10 DEF StoreAnswer, UserDataTypeOK
  <2> QED BY <1>10, <2>1, <2>3, <2>4, WrittenType DEF StoreAnswer, UserDataTypeOK
<1>11. ASSUME NEW u \in Users, NEW ids \in SUBSET SurveyIds, NEW types \in SUBSET Types,
              DeleteSurveyResponses(u, ids, types)
       PROVE  UserDataTypeOK'
  <2>1. surveys' = surveys /\ responses' \in [ResponseIds -> Response \cup {Unborn, Gone}]
    BY <1>11 DEF DeleteSurveyResponses, UserDataTypeOK
  <2> QED BY <1>11, <2>1, WrittenType DEF DeleteSurveyResponses, UserDataTypeOK
<1>12. CASE UNCHANGED userDataVars
  BY <1>12 DEF userDataVars, UserDataTypeOK
<1> QED
  BY <1>1, <1>3, <1>4, <1>5, <1>6, <1>7, <1>8, <1>9, <1>10, <1>11, <1>12 DEF UserDataNext

\* The state of surveys, responses, score and request always has its type.
THEOREM UserDataTypeCorrect == UserDataSpec => []UserDataTypeOK
<1>1. UserDataInit => UserDataTypeOK
  BY UserDataAssumption DEF UserDataInit, UserDataTypeOK
<1> QED BY <1>1, UserDataStepType, PTL DEF UserDataSpec
-------------------------------------------------------------------------------
(* The data of the user.                                                   *)

\* Changes to the collections keep the invariant: what is new comes into had, what
\* has gone leaves kept, and what has been read stays between the two.
LEMMA WrittenDataInv ==
  ASSUME UserDataTypeOK, DataInv, Written PROVE DataInv'
<1>1. /\ reading' = reading /\ got' = got
      /\ kept' \subseteq kept /\ had \subseteq had'
      /\ reading = "at work" => kept' \subseteq Mine(surveys', responses')
                             /\ Mine(surveys', responses') \subseteq had'
  BY DEF Written
<1>2. NowIsBetween'
  BY <1>1 DEF NowIsBetween, Mine, MySurveys, MyResponses, Stored
<1>3. ReadIsBetween' /\ AnswerHasBoth'
  BY <1>1 DEF DataInv, ReadIsBetween, AnswerHasBoth, HasRead, PartOf
<1> QED BY <1>2, <1>3 DEF DataInv

\* A goroutine that reads its part of the collections gets what is there now.
LEMMA ReadDataInv ==
  ASSUME UserDataTypeOK, DataInv, NEW x \in Sources, NEW found \in Reading, Read(x, found),
         ~found.failed => found.docs = IF x = "surveys" THEN MySurveys(surveys)
                                                        ELSE MyResponses(responses)
  PROVE  DataInv'
<1>1. /\ reading = "at work" /\ reading' = "at work" /\ kept' = kept /\ had' = had
      /\ surveys' = surveys /\ responses' = responses
      /\ got'[x] = found /\ \A y \in Sources \ {x} : got'[y] = got[y]
  BY DEF Read, Unwritten, UserDataTypeOK
<1>2. NowIsBetween'
  <2>1. Mine(surveys, responses)' = Mine(surveys, responses)
    BY <1>1 DEF Mine, MySurveys, MyResponses, Stored
  <2> QED BY <1>1, <2>1 DEF DataInv, NowIsBetween
<1>3. ASSUME ~found.failed
      PROVE  kept \cap PartOf(x) \subseteq found.docs /\ found.docs \subseteq had
  <2>1. kept \subseteq MySurveys(surveys) \cup MyResponses(responses)
        /\ MySurveys(surveys) \cup MyResponses(responses) \subseteq had
    BY <1>1 DEF DataInv, NowIsBetween, Mine
  <2>2. MySurveys(surveys) \subseteq PartOf("surveys")
        /\ MyResponses(responses) \subseteq PartOf("responses")
    BY MineType DEF UserDataTypeOK
  <2>3. CASE x = "surveys"
    BY <1>3, <2>1, <2>2, <2>3, PartsDisjoint
  <2>4. CASE x = "responses"
    BY <1>3, <2>1, <2>2, <2>4, PartsDisjoint
  <2> QED BY <2>3, <2>4 DEF Sources
<1>4. ReadIsBetween'
  <2> SUFFICES ASSUME NEW y \in Sources, HasRead(y)'
               PROVE  kept \cap PartOf(y) \subseteq got'[y].docs /\ got'[y].docs \subseteq had
    BY <1>1 DEF ReadIsBetween, PartOf
  <2>1. CASE y = x
    BY <1>1, <1>3, <2>1 DEF HasRead
  <2>2. CASE y # x
    BY <1>1, <2>2 DEF DataInv, ReadIsBetween, HasRead
  <2> QED BY <2>1, <2>2
<1>5. AnswerHasBoth'
  BY <1>1 DEF AnswerHasBoth
<1> QED BY <1>2, <1>4, <1>5 DEF DataInv

\* Every step keeps the invariant.
LEMMA UserDataStepDataInv ==
  ASSUME UserDataTypeOK, DataInv, [UserDataNext]_userDataVars PROVE DataInv'
<1>1. CASE AskForData
  BY <1>1 DEF AskForData, Unwritten, DataInv, NowIsBetween, ReadIsBetween, AnswerHasBoth,
              HasRead, Mine, MySurveys, MyResponses, Stored, Sources
<1>2. CASE ReadSurveys
  <2>1. [docs |-> OfCreator, failed |-> FALSE] \in Reading
    BY MineType DEF OfCreator, Reading, Document, PartOf, UserDataTypeOK
  <2> QED BY <1>2, <2>1, ReadDataInv DEF ReadSurveys, OfCreator, Sources
<1>3. CASE ReadResponses
  <2>1. [docs |-> MyResponses(responses), failed |-> FALSE] \in Reading
    BY MineType DEF Reading, Document, PartOf, UserDataTypeOK
  <2> QED BY <1>3, <2>1, ReadDataInv DEF ReadResponses, Sources
<1>4. ASSUME NEW x \in Sources, ReadFails(x) PROVE DataInv'
  <2>1. [docs |-> {}, failed |-> TRUE] \in Reading
    BY DEF Reading
  <2> QED BY <1>4, <2>1, ReadDataInv DEF ReadFails
<1>5. CASE Join
  <2>1. /\ reading = "at work" /\ got' = got /\ kept' = kept /\ had' = had
        /\ \A x \in Sources : got[x] # NotRead
        /\ reading' = "refused" \/ (reading' = "answered" /\ ~AnyError)
    BY <1>5 DEF Join
  <2>2. NowIsBetween'
    BY <2>1 DEF NowIsBetween
  <2>3. ReadIsBetween'
    BY <2>1 DEF DataInv, ReadIsBetween, HasRead, PartOf
  <2>4. AnswerHasBoth'
    BY <2>1 DEF AnswerHasBoth, AnyError, HasRead
  <2> QED BY <2>2, <2>3, <2>4 DEF DataInv
<1>6. CASE Written
  BY <1>6, WrittenDataInv
<1>7. CASE UNCHANGED <<surveys, responses, reading, got, kept, had>>
  BY <1>7 DEF DataInv, NowIsBetween, ReadIsBetween, AnswerHasBoth, HasRead, PartOf,
              Mine, MySurveys, MyResponses, Stored
<1> QED
  BY <1>1, <1>2, <1>3, <1>4, <1>5, <1>6, <1>7
     DEF UserDataNext, userDataVars, GetScore, DeleteSurvey, BeginAnswer, UpdateSurvey,
         CreateSurvey, StoreAnswer, DeleteSurveyResponses

\* GET /user-data answers with every document of the user that did not change while
\* the request was at work, and with nothing that the user did not have meanwhile,
\* in whatever order its two goroutines read and others write.
THEOREM AnswersCurrentData == UserDataSpec => []DataIsCurrent
<1>1. UserDataInit => DataInv
  BY UserDataAssumption
     DEF UserDataInit, DataInv, NowIsBetween, ReadIsBetween, AnswerHasBoth
<1>2. UserDataTypeOK /\ DataInv => DataIsCurrent
  <2> SUFFICES ASSUME UserDataTypeOK, DataInv, reading = "answered"
               PROVE  kept \subseteq Data /\ Data \subseteq had
    BY DEF DataIsCurrent
  <2>1. \A x \in Sources : kept \cap PartOf(x) \subseteq got[x].docs /\ got[x].docs \subseteq had
    BY DEF DataInv, ReadIsBetween, AnswerHasBoth
  <2>2. kept \subseteq PartOf("surveys") \cup PartOf("responses")
    BY DEF UserDataTypeOK, Document, PartOf
  <2> QED BY <2>1, <2>2 DEF Data, Sources
<1> QED
  BY <1>1, <1>2, UserDataTypeCorrect, UserDataStepDataInv, PTL DEF UserDataSpec
-------------------------------------------------------------------------------
(* The score.                                                              *)

\* The response that is being stored: it was not stored before, is stored now, and
\* all others stay as they are.
LEMMA ResponseStored ==
  ASSUME UserDataTypeOK, NEW r \in ResponseIds, StoreAnswer(r)
  PROVE  /\ writing \in Response
         /\ r \in Free(responses)
         /\ responses'[r] = writing /\ \A q \in ResponseIds \ {r} : responses'[q] = responses[q]
         /\ Stored(responses') = Stored(responses) \cup {r} /\ r \notin Stored(responses)
         /\ Free(responses') = Free(responses) \ {r}
<1>1. writing \in Response /\ r \in Free(responses) /\ responses' = [responses EXCEPT ![r] = writing]
  BY DEF StoreAnswer, UserDataTypeOK
<1>2. writing \notin {Unborn, Gone}
  BY <1>1, UserDataAssumption
<1> QED
  BY <1>1, <1>2 DEF UserDataTypeOK, Stored, Free

\* Storing an answer keeps the invariant: whether the score takes it up, is made from
\* what is stored, or is left behind by a request that fails.
LEMMA StoreAnswerScoreInv ==
  ASSUME UserDataTypeOK, ScoreInv, NEW r \in ResponseIds, StoreAnswer(r)
  PROVE  ScoreInv'
<1> DEFINE Quizzes == {q \in Stored(responses) : responses[q].user = Me /\ responses[q].type = Quiz}
           IsQuiz  == writing.user = Me /\ writing.type = Quiz
           NewQuizzes == QuizAnswers(responses')
<1>1. NewQuizzes = IF IsQuiz THEN Quizzes \cup {r} ELSE Quizzes
  <2>1. \A q \in Stored(responses) : q # r /\ responses'[q] = responses[q]
    BY ResponseStored, StoredDocument
  <2> QED BY <2>1, ResponseStored DEF QuizAnswers
<1>2. r \notin Quizzes /\ Quizzes \subseteq Stored(responses)
  BY ResponseStored
<1>3. counted # NoScore => counted \subseteq ResponseIds /\ counted \cap Stored(responses) = Quizzes \ uncounted
                        /\ r \notin counted
  BY ResponseStored DEF ScoreInv, ScoreFollowsCopies, UserDataTypeOK
<1>4. r \notin uncounted /\ (counted = NoScore => uncounted = {})
  BY ResponseStored DEF ScoreInv
<1>5. NewQuizzes \subseteq Stored(responses') /\ NewQuizzes \subseteq ResponseIds
  BY <1>1, <1>2, ResponseStored, StoredDocument
<1>6. NewQuizzes = {q \in Stored(responses') : responses'[q].user = Me /\ responses'[q].type = Quiz}
  BY DEF QuizAnswers
<1>7. SUFFICES /\ counted' # NoScore =>
                    counted' \cap Stored(responses') = NewQuizzes \ uncounted'
               /\ uncounted' \cap Free(responses') = {}
               /\ IF counted' = NoScore THEN uncounted' = {}
                                        ELSE counted' \cap Free(responses') = {}
  BY <1>6 DEF ScoreInv, ScoreFollowsCopies
<1>8. NewQuizzes \cap Free(responses') = {}
  BY <1>5, DocumentsAssumption DEF Stored, Free
<1> HIDE DEF Quizzes, NewQuizzes
<1>9. CASE IsQuiz /\ counted' = CountedWith(r) /\ uncounted' = uncounted
  <2>1. CASE counted = NoScore
    <3>1. counted' = NewQuizzes
      BY <1>9, <2>1 DEF CountedWith, NewQuizzes
    <3>2. counted' # NoScore
      BY <3>1, <1>5, UserDataAssumption
    <3> QED BY <1>4, <1>5, <1>8, <1>9, <2>1, <3>1, <3>2
  <2>2. CASE counted # NoScore
    <3>1. counted' = counted \cup {r}
      BY <1>9, <2>2 DEF CountedWith
    <3>2. counted' # NoScore
      BY <3>1, <1>3, <2>2, UserDataAssumption
    <3>3. counted \cap Free(responses) = {} /\ uncounted \cap Free(responses) = {}
      BY <2>2 DEF ScoreInv
    <3> QED BY <1>1, <1>2, <1>3, <1>4, <1>9, <2>2, <3>1, <3>2, <3>3, ResponseStored
  <2> QED BY <2>1, <2>2
<1>10. CASE /\ IsQuiz /\ counted' = counted
            /\ uncounted' = IF counted = NoScore THEN uncounted ELSE uncounted \cup {r}
  <2>1. CASE counted = NoScore
    BY <1>4, <1>10, <2>1
  <2>2. CASE counted # NoScore
    <3>1. counted \cap Free(responses) = {} /\ uncounted \cap Free(responses) = {}
      BY <2>2 DEF ScoreInv
    <3> QED BY <1>1, <1>2, <1>3, <1>4, <1>10, <2>2, <3>1, ResponseStored
  <2> QED BY <2>1, <2>2
<1>11. CASE ~IsQuiz /\ counted' = counted /\ uncounted' = uncounted
  <2>1. uncounted \cap Free(responses) = {}
        /\ (counted # NoScore => counted \cap Free(responses) = {})
    BY DEF ScoreInv
  <2> QED BY <1>1, <1>2, <1>3, <1>4, <1>11, <2>1, ResponseStored
<1> QED
  BY <1>9, <1>10, <1>11 DEF StoreAnswer, IsQuiz

\* Every step keeps the invariant.
LEMMA UserDataStepScoreInv ==
  ASSUME UserDataTypeOK, ScoreInv, [UserDataNext]_userDataVars PROVE ScoreInv'
<1>1. ASSUME NEW r \in ResponseIds, StoreAnswer(r) PROVE ScoreInv'
  BY <1>1, StoreAnswerScoreInv
<1>2. CASE GetScore
  <2>1. /\ counted' = QuizAnswers(responses) /\ uncounted' = uncounted /\ responses' = responses
        /\ uncounted = {}
    BY <1>2 DEF GetScore, ScoreInv
  <2>2. QuizAnswers(responses) \subseteq ResponseIds
    BY StoredDocument DEF QuizAnswers
  <2>3. counted' # NoScore
    BY <2>1, <2>2, UserDataAssumption
  <2>4. QuizAnswers(responses) \cap Free(responses) = {}
    BY DEF QuizAnswers, Stored, Free
  <2> QED BY <2>1, <2>3, <2>4 DEF ScoreInv, ScoreFollowsCopies, QuizAnswers, Stored, Free
<1>3. ASSUME NEW u \in Users, NEW ids \in SUBSET SurveyIds, NEW types \in SUBSET Types,
             DeleteSurveyResponses(u, ids, types)
      PROVE  ScoreInv'
  <2>1. counted' = counted /\ uncounted' = uncounted
    BY <1>3 DEF DeleteSurveyResponses
  <2>2. /\ DOMAIN responses' = ResponseIds
        /\ \A r \in ResponseIds :
             \/ responses'[r] = Gone /\ responses[r] \notin {Unborn, Gone}
             \/ responses'[r] = responses[r]
    BY <1>3 DEF DeleteSurveyResponses, Stored
  <2>3. /\ Stored(responses') \subseteq Stored(responses)
        /\ \A r \in Stored(responses') : responses'[r] = responses[r]
        /\ Free(responses') = Free(responses)
    BY <2>2, DocumentsAssumption DEF Stored, Free, UserDataTypeOK
  <2>4. counted # NoScore =>
          counted \cap Stored(responses') =
            {r \in Stored(responses') : responses'[r].user = Me /\ responses'[r].type = Quiz} \ uncounted
    BY <2>3 DEF ScoreInv, ScoreFollowsCopies
  <2> QED BY <2>1, <2>3, <2>4 DEF ScoreInv, ScoreFollowsCopies
<1>4. CASE UNCHANGED <<responses, counted, uncounted>>
  BY <1>4 DEF ScoreInv, ScoreFollowsCopies, Stored, Free
<1> QED
  BY <1>1, <1>2, <1>3, <1>4
     DEF UserDataNext, userDataVars, AskForData, ReadSurveys, ReadResponses, ReadFails, Read,
         Join, Unwritten, DeleteSurvey, BeginAnswer, UpdateSurvey, CreateSurvey

\* The score counts, of the stored responses, those whose copy of the survey says
\* fashion quiz and no others, but for those whose request failed in between,
\* however surveys change and responses are deleted, and be it kept up to date or
\* made by GET /score or POST /survey-responses from what is stored.
THEOREM ScoreCountsCopies == UserDataSpec => []ScoreFollowsCopies
<1>1. UserDataInit => ScoreInv
  BY DEF UserDataInit, ScoreInv, ScoreFollowsCopies
<1>2. ScoreInv => ScoreFollowsCopies
  BY DEF ScoreInv
<1> QED
  BY <1>1, <1>2, UserDataTypeCorrect, UserDataStepScoreInv, PTL DEF UserDataSpec
-------------------------------------------------------------------------------
(* Analytics.                                                               *)

\* A window that is being asked for goes on from the last one: exactly where that
\* ended for a collector with dates, and not later for one with an offset, which
\* comes back before the offset has passed.
WindowGoesOn ==
  /\ period # 0 => hour - upto <= period
  /\ window # NoRequest =>
       /\ IF period = 0 THEN window.start = upto ELSE window.start <= upto
       /\ upto <= window.end /\ window.end <= hour

\* For a collector with dates: what has been collected was dated before the end of
\* the last window, and collected once.
CollectedBefore ==
  period = 0 => \A a \in AnswerIds : collected[a] > 0 =>
    /\ collected[a] = 1
    /\ answers[a] # Unborn
    /\ a \in Stored(answers) => answers[a].stamp < upto

\* An answer that is dated before the end of the last window is stored and has been
\* collected, unless it was late: not stored yet when its window was read.
DatedBefore ==
  \A a \in Stored(answers) : answers[a].stamp < upto /\ a \notin late =>
    answers[a].stored /\ collected[a] >= 1

AnalyticsInv == AnalyticsTypeOK /\ WindowGoesOn /\ CollectedBefore /\ DatedBefore
-------------------------------------------------------------------------------
\* The two marks are no responses.
LEMMA StoredAnswer ==
  ASSUME AnalyticsTypeOK, NEW a \in AnswerIds
  PROVE  /\ a \in Stored(answers) => answers[a] \in Answer
         /\ a \in Stored(answers) <=> answers[a] \in Answer
BY AnalyticsAssumption DEF AnalyticsTypeOK, Stored

\* The window that the handler makes of the parameters goes on from the last one.
LEMMA AskedWindow ==
  ASSUME AnalyticsTypeOK, WindowGoesOn,
         NEW params \in Parameters, ~Refused(params)
  PROVE  /\ WindowOf(params) \in Interval
         /\ IF period = 0 THEN WindowOf(params).start = upto ELSE WindowOf(params).start <= upto
         /\ upto <= WindowOf(params).end /\ WindowOf(params).end <= hour
<1> USE AnalyticsAssumption DEF AnalyticsTypeOK, Interval
<1>1. CASE period = 0
  <2>1. params.start = upto /\ params.end \in (upto + 1)..hour
    BY <1>1 DEF Parameters, Refused
  <2>2. NoInstant \notin {params.start, params.end}
    BY <2>1
  <2> QED BY <1>1, <2>1, <2>2 DEF WindowOf
<1>2. CASE period # 0
  <2>1. params.offset = period /\ params.end = NoInstant
    BY <1>2 DEF Parameters
  <2>2. WindowOf(params) = [start |-> hour - period, end |-> hour]
    BY <2>1 DEF WindowOf
  <2> QED BY <1>2, <2>2 DEF WindowGoesOn
<1> QED BY <1>1, <1>2

\* The invariant holds initially.
LEMMA AnalyticsInitInv == AnalyticsInit => AnalyticsInv
BY AnalyticsAssumption
   DEF AnalyticsInit, AnalyticsInv, AnalyticsTypeOK, WindowGoesOn, CollectedBefore,
       DatedBefore, Stored

\* Reading a window keeps it: what it collects lies behind the last window's end,
\* and it leaves out nothing from there to its own.
LEMMA ReadWindowInv ==
  ASSUME AnalyticsInv, ReadWindow PROVE AnalyticsInv'
<1> USE AnalyticsAssumption DEF AnalyticsInv, ReadWindow
<1>1. /\ window.start \in Int /\ window.end \in Int
      /\ window.start <= upto /\ upto <= window.end /\ window.end <= hour
  BY DEF WindowGoesOn, AnalyticsTypeOK, Interval
<1>2. AnalyticsTypeOK'
  <2>1. upto' \in 0..hour'
    BY <1>1 DEF AnalyticsTypeOK
  <2>2. collected' \in [AnswerIds -> 0..2]
    BY DEF AnalyticsTypeOK
  <2>3. late' \subseteq AnswerIds
    BY DEF AnalyticsTypeOK, Stored
  <2> QED BY <2>1, <2>2, <2>3 DEF AnalyticsTypeOK
<1>3. WindowGoesOn'
  BY <1>1 DEF WindowGoesOn, AnalyticsTypeOK
<1>4. CollectedBefore'
  <2> SUFFICES ASSUME period = 0, NEW a \in AnswerIds, collected'[a] > 0
               PROVE  /\ collected'[a] = 1 /\ answers[a] # Unborn
                      /\ a \in Stored(answers) => answers[a].stamp < window.end
    BY DEF CollectedBefore, Stored
  <2>1. window.start = upto
    BY DEF WindowGoesOn
  <2>2. a \in Stored(answers) => answers[a].stamp \in Nat
    BY StoredAnswer DEF Answer
  <2>3. CASE a \in Dated(window) /\ answers[a].stored
    <3>1. a \in Stored(answers) /\ upto <= answers[a].stamp /\ answers[a].stamp < window.end
      BY <2>1, <2>3 DEF Dated, Within
    <3>2. ~(collected[a] > 0)
      BY <2>2, <3>1 DEF CollectedBefore, AnalyticsTypeOK
    <3> QED BY <2>3, <3>1, <3>2 DEF AnalyticsTypeOK, Stored
  <2>4. CASE ~(a \in Dated(window) /\ answers[a].stored)
    <3>1. collected[a] > 0 /\ collected'[a] = collected[a]
      BY <2>4
    <3> QED BY <1>1, <2>2, <3>1 DEF CollectedBefore, AnalyticsTypeOK
  <2> QED BY <2>3, <2>4
<1>5. DatedBefore'
  <2> SUFFICES ASSUME NEW a \in Stored(answers), answers[a].stamp < window.end, a \notin late'
               PROVE  answers[a].stored /\ collected'[a] >= 1
    BY DEF DatedBefore, Stored
  <2>1. a \in AnswerIds /\ answers[a].stamp \in Nat
    BY StoredAnswer DEF Answer, Stored, AnalyticsTypeOK
  <2>2. CASE answers[a].stamp < upto
    <3>1. answers[a].stored /\ collected[a] >= 1
      BY <2>2 DEF DatedBefore
    <3> QED BY <2>1, <3>1 DEF AnalyticsTypeOK
  <2>3. CASE ~(answers[a].stamp < upto)
    <3>1. window.start <= answers[a].stamp
      BY <1>1, <2>1, <2>3 DEF AnalyticsTypeOK
    <3>2. answers[a].stored
      BY <3>1
    <3>3. a \in Dated(window)
      BY <3>1 DEF Dated, Within
    <3> QED BY <2>1, <3>2, <3>3 DEF AnalyticsTypeOK
  <2> QED BY <2>2, <2>3
<1> QED BY <1>2, <1>3, <1>4, <1>5

\* So does a step of a response on its way: it is dated with the present time,
\* which no window has reached, and keeps that date.
LEMMA AnswerStepInv ==
  ASSUME AnalyticsInv, NEW a \in AnswerIds,
         StampAnswer(a) \/ InsertAnswer(a) \/ AnswerFails(a) \/ DeleteAnswer(a)
  PROVE  AnalyticsInv'
<1> USE AnalyticsAssumption, DocumentsAssumption DEF AnalyticsInv, Unasked
<1>1. /\ hour' = hour /\ period' = period /\ upto' = upto /\ window' = window
      /\ collected' = collected /\ late' = late /\ refusals' \in 0..MaxRefusals
  BY DEF StampAnswer, InsertAnswer, AnswerFails, DeleteAnswer, Refusal, AnalyticsTypeOK
<1>2. /\ \A b \in AnswerIds \ {a} : answers'[b] = answers[b]
      /\ answers' \in [AnswerIds -> Answer \cup {Unborn, Gone}]
      /\ \/ answers[a] = Unborn /\ answers'[a] = [stamp |-> hour, stored |-> FALSE]
         \/ /\ answers[a] \in Answer /\ answers'[a] \in Answer
            /\ answers'[a].stamp = answers[a].stamp /\ (answers[a].stored => answers'[a].stored)
         \/ answers[a] \in Answer /\ answers'[a] = Gone
  <2>1. CASE StampAnswer(a)
    <3>1. answers[a] = Unborn /\ [stamp |-> hour, stored |-> FALSE] \in Answer
      BY <2>1 DEF StampAnswer, Free, Answer, AnalyticsTypeOK
    <3> QED BY <2>1, <3>1 DEF StampAnswer, AnalyticsTypeOK
  <2>2. CASE InsertAnswer(a)
    <3>1. answers[a] \in Answer
      BY <2>2, StoredAnswer DEF InsertAnswer
    <3>2. answers' = [answers EXCEPT ![a] = [answers[a] EXCEPT !.stored = TRUE]]
      BY <2>2 DEF InsertAnswer
    <3>3. /\ [answers[a] EXCEPT !.stored = TRUE] \in Answer
          /\ [answers[a] EXCEPT !.stored = TRUE].stamp = answers[a].stamp
          /\ [answers[a] EXCEPT !.stored = TRUE].stored
      BY <3>1 DEF Answer
    <3> QED BY <3>1, <3>2, <3>3 DEF AnalyticsTypeOK
  <2>3. CASE AnswerFails(a) \/ DeleteAnswer(a)
    <3>1. answers[a] \in Answer
      BY <2>3, StoredAnswer DEF AnswerFails, DeleteAnswer
    <3> QED BY <2>3, <3>1 DEF AnswerFails, DeleteAnswer, AnalyticsTypeOK
  <2> QED BY <2>1, <2>2, <2>3
<1>3. AnalyticsTypeOK'
  BY <1>1, <1>2 DEF AnalyticsTypeOK
<1>4. WindowGoesOn'
  BY <1>1 DEF WindowGoesOn
<1>5. \A b \in AnswerIds : b \in Stored(answers)' <=> answers'[b] \in Answer
  BY <1>2 DEF Stored
<1>6. CollectedBefore'
  <2> SUFFICES ASSUME period = 0, NEW b \in AnswerIds, collected[b] > 0
               PROVE  /\ collected[b] = 1 /\ answers'[b] # Unborn
                      /\ b \in Stored(answers)' => answers'[b].stamp < upto
    BY <1>1 DEF CollectedBefore
  <2>1. /\ collected[b] = 1 /\ answers[b] # Unborn
        /\ answers[b] \in Answer => answers[b].stamp < upto
    BY StoredAnswer DEF CollectedBefore
  <2> QED BY <1>2, <1>5, <2>1
<1>7. DatedBefore'
  <2> SUFFICES ASSUME NEW b \in AnswerIds, answers'[b] \in Answer,
                      answers'[b].stamp < upto, b \notin late
               PROVE  answers'[b].stored /\ collected[b] >= 1
    BY <1>1, <1>2, <1>5 DEF DatedBefore, Stored
  <2>1. answers[b] \in Answer => (answers[b].stamp < upto => answers[b].stored /\ collected[b] >= 1)
    BY StoredAnswer DEF DatedBefore
  <2>2. answers[b] = Unborn => FALSE
    BY <1>2 DEF AnalyticsTypeOK
  <2> QED BY <1>2, <2>1, <2>2
<1> QED BY <1>3, <1>4, <1>6, <1>7

\* And every other step.
LEMMA AnalyticsStepInv ==
  ASSUME AnalyticsInv, [AnalyticsNext]_analyticsVars PROVE AnalyticsInv'
<1> USE DEF AnalyticsInv
<1>1. CASE Ask
  <2>1. PICK params \in Parameters : ~Refused(params) /\ window' = WindowOf(params)
    BY <1>1 DEF Ask
  <2>2. AnalyticsTypeOK' /\ WindowGoesOn'
    BY <1>1, <2>1, AskedWindow DEF Ask, AnalyticsTypeOK, WindowGoesOn
  <2>3. CollectedBefore' /\ DatedBefore'
    BY <1>1 DEF Ask, CollectedBefore, DatedBefore, Stored
  <2> QED BY <2>2, <2>3
<1>2. CASE ReadWindow
  BY <1>2, ReadWindowInv
<1>3. CASE ReadWindowFails
  <2>1. AnalyticsTypeOK' /\ WindowGoesOn'
    BY <1>3, AnalyticsAssumption DEF ReadWindowFails, Refusal, AnalyticsTypeOK, WindowGoesOn
  <2>2. CollectedBefore' /\ DatedBefore'
    BY <1>3 DEF ReadWindowFails, CollectedBefore, DatedBefore, Stored
  <2> QED BY <2>1, <2>2
<1>4. CASE Tick
  <2>1. AnalyticsTypeOK' /\ WindowGoesOn'
    BY <1>4, AnalyticsAssumption
       DEF Tick, Unasked, AnalyticsTypeOK, WindowGoesOn, Interval
  <2>2. CollectedBefore' /\ DatedBefore'
    BY <1>4 DEF Tick, Unasked, CollectedBefore, DatedBefore, Stored
  <2> QED BY <2>1, <2>2
<1>5. ASSUME NEW a \in AnswerIds,
             StampAnswer(a) \/ InsertAnswer(a) \/ AnswerFails(a) \/ DeleteAnswer(a)
      PROVE  AnalyticsInv'
  BY <1>5, AnswerStepInv
<1>6. CASE UNCHANGED analyticsVars
  BY <1>6 DEF analyticsVars, AnalyticsTypeOK, WindowGoesOn, CollectedBefore, DatedBefore, Stored
<1> QED
  BY <1>1, <1>2, <1>3, <1>4, <1>5, <1>6 DEF AnalyticsNext

\* The inductive invariant.
LEMMA AnalyticsInvariant == AnalyticsSpec => []AnalyticsInv
BY AnalyticsInitInv, AnalyticsStepInv, PTL DEF AnalyticsSpec
-------------------------------------------------------------------------------
\* The state of the collector, the handler and the responses always has its type.
THEOREM AnalyticsTypeCorrect == AnalyticsSpec => []AnalyticsTypeOK
BY AnalyticsInvariant, PTL DEF AnalyticsInv

\* A collector that asks with dates, for one window after the other, gets no
\* response twice, whenever the response is dated and stored, and however often
\* GET /analytics/survey-responses fails and is asked again.
THEOREM CollectsOnce == AnalyticsSpec => []CollectedOnce
<1>1. AnalyticsInv => CollectedOnce
  BY DEF AnalyticsInv, AnalyticsTypeOK, CollectedBefore, CollectedOnce
<1> QED BY <1>1, AnalyticsInvariant, PTL

\* A collector, with dates or with an offset, misses no stored response but those
\* that were not stored yet when their window was read.
THEOREM MissesOnlyInFlight == AnalyticsSpec => []MissedOnlyInFlight
<1>1. AnalyticsInv => MissedOnlyInFlight
  BY DEF AnalyticsInv, DatedBefore, MissedOnlyInFlight
<1> QED BY <1>1, AnalyticsInvariant, PTL
-------------------------------------------------------------------------------
(* The three together.                                                      *)

\* A behaviour of the three together is one of each, with the steps of one of them.
LEMMA EachPart ==
  /\ MCSpec => AlertsSpec
  /\ MCSpec => UserDataSpec
  /\ MCSpec => AnalyticsSpec
<1>1. MCInit => AlertsInit /\ UserDataInit /\ AnalyticsInit
  BY DEF MCInit
<1>2. [MCNext]_MCVars => [AlertsNext]_alertVars
  BY DEF MCNext, MCVars
<1>3. [MCNext]_MCVars => [UserDataNext]_userDataVars
  BY DEF MCNext, MCVars
<1>4. [MCNext]_MCVars => [AnalyticsNext]_analyticsVars
  BY DEF MCNext, MCVars
<1> QED BY <1>1, <1>2, <1>3, <1>4, PTL DEF MCSpec, AlertsSpec, UserDataSpec, AnalyticsSpec

\* Alerts, user data and analytics keep their types whichever of them is at work.
THEOREM RequestsTypeCorrect == MCSpec => []TypeOK
<1>1. AlertsTypeOK /\ UserDataTypeOK /\ AnalyticsTypeOK => TypeOK
  BY DEF TypeOK
<1> QED BY <1>1, EachPart, AlertsTypeCorrect, UserDataTypeCorrect, AnalyticsTypeCorrect, PTL
===============================================================================
