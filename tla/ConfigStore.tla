------------------------------ MODULE ConfigStore ------------------------------
(***************************************************************************)
(* What the configurations promise to admins and to the code that reads    *)
(* them: one store, and for each server a copy that is replaced only by    *)
(* what is stored.  An admin's call is judged by the store as it is when   *)
(* the call comes, and later it changes the document it was judged by, and *)
(* no other, or nothing if that one is gone; the calls between the two are *)
(* not seen.  There are no loads, streams or versions here.                *)
(***************************************************************************)
CONSTANTS Servers, Keys, Values, NoConfig, Ids, Admins, Done, Failed

VARIABLES
  stored,  \* the document for each key
  copies,  \* each server's copy of all of them
  calls    \* each admin's call: at work, or what it reported

vars    == <<stored, copies, calls>>
Content == [value : Values, system : BOOLEAN]
Nothing == [key \in Keys |-> NoConfig]

Init ==
  /\ stored = Nothing
  /\ copies = [s \in Servers |-> Nothing]
  /\ calls = [a \in Admins |-> Failed]

AtWork(a) == calls[a] \notin {Done, Failed}

\* System configurations, as they are and as they are to be, are for system admins.
Allowed(config, bySystem) == config # NoConfig => (config.system => bySystem)

\* A call comes and is judged: to insert a configuration, or to change the stored one.
Ask(a, key, new, bySystem) ==
  /\ ~ AtWork(a)
  /\ \E judged \in {NoConfig, stored[key]} :
       /\ judged # NoConfig \/ new # NoConfig
       /\ Allowed(judged, bySystem) /\ Allowed(new, bySystem)
       /\ calls' = [calls EXCEPT ![a] = [bySystem |-> bySystem, key |-> key, new |-> new,
                                         judged |-> judged]]
  /\ UNCHANGED <<stored, copies>>

\* An id that no document has or had when a call at work was judged by it.
FreshId(id) ==
  /\ \A key \in Keys : stored[key] # NoConfig => stored[key].id # id
  /\ \A a \in Admins : AtWork(a) /\ calls[a].judged # NoConfig => calls[a].judged.id # id

Put(c, id) ==
  stored' = [stored EXCEPT ![c.key] =
    IF c.new = NoConfig THEN NoConfig
    ELSE [id |-> id, system |-> c.new.system, value |-> c.new.value]]

\* The document that a call was judged by is stored.
Stands(c) ==
  c.judged # NoConfig /\ stored[c.key] # NoConfig /\ stored[c.key].id = c.judged.id

\* A call inserts a document with a fresh id for a key that has none, or writes the one
\* that it was judged by, whether or not this is reported; or it writes nothing, which is
\* reported as a success only if that one is gone.
Finish(a, result) ==
  /\ AtWork(a)
  /\ calls' = [calls EXCEPT ![a] = result]
  /\ \E c \in {calls[a]} :
       \/ /\ c.judged = NoConfig /\ stored[c.key] = NoConfig
          /\ \E id \in Ids : FreshId(id) /\ Put(c, id)
       \/ Stands(c) /\ Put(c, c.judged.id)
       \/ /\ result = Done => c.judged # NoConfig /\ ~ Stands(c)
          /\ UNCHANGED stored
  /\ UNCHANGED copies

\* A server takes a copy of what is stored.
Copy(s) ==
  /\ copies' = [copies EXCEPT ![s] = stored]
  /\ UNCHANGED <<stored, calls>>

\* A server goes down: its copy is lost, and some of the calls are never reported.
Lose(s, lost) ==
  /\ copies' = [copies EXCEPT ![s] = Nothing]
  /\ calls' = [a \in Admins |-> IF a \in lost THEN Failed ELSE calls[a]]
  /\ UNCHANGED stored

Next ==
  \/ \E s \in Servers : Copy(s) \/ \E lost \in SUBSET {a \in Admins : AtWork(a)} : Lose(s, lost)
  \/ \E a \in Admins :
       \/ \E result \in {Done, Failed} : Finish(a, result)
       \/ \E key \in Keys, new \in Content \cup {NoConfig}, bySystem \in BOOLEAN :
            Ask(a, key, new, bySystem)

Spec == Init /\ [][Next]_vars
===============================================================================
