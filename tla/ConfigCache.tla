------------------------------ MODULE ConfigCache ------------------------------
(***************************************************************************)
(* The configurations and the copy of them each server keeps in memory     *)
(* (driven/storage: adapter.go, database.go, collection.go, listener.go).  *)
(* A server loads all configurations when it starts and again each time    *)
(* the change stream of the collection reports a change, every time in a   *)
(* goroutine of its own.  An admin handler decides from the copy and       *)
(* writes to the database by a call of its own, so that other handlers may *)
(* write in between (core/app_admin.go).                                   *)
(*                                                                         *)
(* A version is the number of changes made so far.  A snapshot is what a   *)
(* load returns: all configurations, and the version they are from.        *)
(***************************************************************************)
EXTENDS Naturals, FiniteSets

CONSTANTS
  Servers,     \* running instances of the program
  Keys,        \* (type, app_id, org_id): unique in the collection
  AllOrgsKeys, \* those whose org_id stands for all organisations
  Values,      \* contents of a configuration
  NoConfig,    \* no configuration for a key
  Slots,       \* reload goroutines of a server: bounds how many run at once
  Idle,        \* a slot with no goroutine
  Spawned,     \* a goroutine that has not loaded yet
  NoToken,     \* a change stream with no resume token
  Admins,      \* admin handlers: bounds how many are at work at once
  Done,        \* a handler that reported success and waits for the next call
  Failed,      \* one that did not, or has not been called yet
  MaxVersion,  \* bound on the number of changes
  MaxFaults,   \* bound on crashes, broken streams and failed calls
  Spaced       \* TRUE if changes leave servers time to reload: each is made when
               \* all servers have caught up with the one before, and an admin's
               \* call goes to a server that has caught up and missed nothing

Config   == [id : Nat, system : BOOLEAN, value : Values]
Content  == [value : Values, system : BOOLEAN]
Snapshot == [version : Nat, configs : [Keys -> Config \cup {NoConfig}]]

\* A handler between its look at the copy and its write: for whom, what is to be
\* stored (nothing, to delete), and the document it looked at (none, to insert).
\* What the database held for the key at that time is remembered for the
\* properties; the program does not know it.
Call == [server : Servers, bySystem : BOOLEAN, key : Keys,
         new : Content \cup {NoConfig}, old : Config \cup {NoConfig},
         was : Config \cup {NoConfig}]

\* What one knows of it who sees neither servers nor copies.
SeenCall == [bySystem : BOOLEAN, key : Keys, new : Content \cup {NoConfig},
             judged : Config \cup {NoConfig}]

ASSUME CacheAssumption ==
  /\ IsFiniteSet(Slots)
  /\ MaxVersion \in Nat /\ MaxFaults \in Nat
  /\ Spaced \in BOOLEAN
  /\ NoToken \notin Nat
  /\ AllOrgsKeys \subseteq Keys
  /\ NoConfig \notin Config \cup Content
  /\ Done # Failed /\ {Done, Failed} \cap (Call \cup SeenCall) = {}
  /\ Idle # Spawned
  /\ Idle \notin Snapshot /\ Spawned \notin Snapshot

VARIABLES
  configs,  \* collection configs
  version,  \* changes made so far
  phase,    \* how far each server has come in Start
  first,    \* the snapshot Start has loaded
  stream,   \* each server's change stream: open, the next change, resume token
  reload,   \* each server's reload goroutines
  cache,    \* each server's copy: cachedConfigs
  admin,    \* each admin handler: at work, or what it reported
  missed,   \* servers whose last reload failed or whose stream skipped a change
            \* (the program keeps no such record)
  faults

vars == <<configs, version, phase, first, stream, reload, cache, admin, missed, faults>>

NoConfigs == [k \in Keys |-> NoConfig]
Empty     == [version |-> 0, configs |-> NoConfigs]
Closed(token) == [open |-> FALSE, at |-> 0, token |-> token]

\* What loadConfigs reads.
Current == [version |-> version, configs |-> configs]

TypeOK ==
  /\ configs \in [Keys -> Config \cup {NoConfig}]
  /\ version \in 0..MaxVersion
  /\ phase \in [Servers -> {"down", "connected", "listening", "loaded", "up"}]
  /\ first \in [Servers -> Snapshot]
  /\ stream \in [Servers -> [open : BOOLEAN, at : 0..MaxVersion,
                             token : 0..MaxVersion \cup {NoToken}]]
  /\ reload \in [Servers -> [Slots -> Snapshot \cup {Idle, Spawned}]]
  /\ cache \in [Servers -> Snapshot]
  /\ admin \in [Admins -> Call \cup {Done, Failed}]
  /\ missed \subseteq Servers
  /\ faults \in 0..MaxFaults

Init ==
  /\ configs = NoConfigs
  /\ version = 0
  /\ phase = [s \in Servers |-> "down"]
  /\ first = [s \in Servers |-> Empty]
  /\ stream = [s \in Servers |-> Closed(NoToken)]
  /\ reload = [s \in Servers |-> [g \in Slots |-> Idle]]
  /\ cache = [s \in Servers |-> Empty]
  /\ admin = [a \in Admins |-> Failed]
  /\ missed = {}
  /\ faults = 0

Spend == faults < MaxFaults /\ faults' = faults + 1

Working(a) == admin[a] \notin {Done, Failed}
-------------------------------------------------------------------------------
(* Start.                                                                  *)

Enter(s, from, to) == phase[s] = from /\ phase' = [phase EXCEPT ![s] = to]

\* database.start ends by launching the goroutine that watches the collection.
Connect(s) ==
  /\ Enter(s, "down", "connected")
  /\ UNCHANGED <<configs, version, first, stream, reload, cache, admin, missed, faults>>

RegisterStorageListener(s) ==
  /\ Enter(s, "connected", "listening")
  /\ UNCHANGED <<configs, version, first, stream, reload, cache, admin, missed, faults>>

FirstLoad(s) ==
  /\ Enter(s, "listening", "loaded")
  /\ first' = [first EXCEPT ![s] = Current]
  /\ UNCHANGED <<configs, version, stream, reload, cache, admin, missed, faults>>

FirstSet(s) ==
  /\ Enter(s, "loaded", "up")
  /\ cache' = [cache EXCEPT ![s] = first[s]]
  /\ UNCHANGED <<configs, version, first, stream, reload, admin, missed, faults>>

\* The process ends, by itself or because its first load failed.
Crash(s) ==
  /\ Spend
  /\ phase[s] # "down"
  /\ phase' = [phase EXCEPT ![s] = "down"]
  /\ first' = [first EXCEPT ![s] = Empty]
  /\ stream' = [stream EXCEPT ![s] = Closed(NoToken)]
  /\ reload' = [reload EXCEPT ![s] = [g \in Slots |-> Idle]]
  /\ cache' = [cache EXCEPT ![s] = Empty]
  /\ missed' = missed \ {s}
  /\ admin' = [a \in Admins |-> IF Working(a) /\ admin[a].server = s THEN Failed ELSE admin[a]]
  /\ UNCHANGED <<configs, version>>
-------------------------------------------------------------------------------
(* The change stream.                                                      *)

\* A mistake: the token of a broken stream is not used.
ResumeAtNow(s) == version

\* A mistake: a stream is always told to resume after a token.
ResumeAtToken(s) == stream[s].token

\* Without a token a stream starts with the changes to come.
ResumeAt(s) == IF stream[s].token = NoToken THEN version ELSE stream[s].token

OpenStream(s) ==
  /\ phase[s] # "down" /\ ~ stream[s].open
  /\ stream' = [stream EXCEPT ![s] = [@ EXCEPT !.open = TRUE, !.at = ResumeAt(s)]]
  /\ UNCHANGED <<configs, version, phase, first, reload, cache, admin, missed, faults>>

\* The next change: onDataChanged starts a goroutine if the listener is there.
NextChange(s) ==
  /\ stream[s].open /\ stream[s].at < version
  /\ stream' = [stream EXCEPT ![s].at = @ + 1]
  /\ IF phase[s] = "connected"
     THEN UNCHANGED reload
     ELSE \E g \in Slots : /\ reload[s][g] = Idle
                           /\ reload' = [reload EXCEPT ![s][g] = Spawned]
  /\ UNCHANGED <<configs, version, phase, first, cache, admin, missed, faults>>

\* The cursor ends with an error: watch returns its resume token.
StreamBreaks(s) ==
  /\ Spend
  /\ stream[s].open
  /\ stream' = [stream EXCEPT ![s] = Closed(@.at)]
  /\ UNCHANGED <<configs, version, phase, first, reload, cache, admin, missed>>

\* Opening the stream fails: watch returns no token, even if it was given one,
\* and the changes after that token are skipped.
OpenFails(s) ==
  /\ Spend
  /\ phase[s] # "down" /\ ~ stream[s].open
  /\ stream' = [stream EXCEPT ![s] = Closed(NoToken)]
  /\ missed' = IF stream[s].token \in {NoToken, version} THEN missed ELSE missed \cup {s}
  /\ UNCHANGED <<configs, version, phase, first, reload, cache, admin>>
-------------------------------------------------------------------------------
(* OnConfigsUpdated: loadConfigs takes no lock, setCachedConfigs does.     *)

\* The server answers from the copy it has while it loads.
LoadConfigs(s, g) ==
  /\ reload[s][g] = Spawned
  /\ reload' = [reload EXCEPT ![s][g] = Current]
  /\ missed' = missed \ {s}
  /\ UNCHANGED <<configs, version, phase, first, stream, cache, admin, faults>>

\* The listener ignores the error: nothing reloads until the next change.
LoadFails(s, g) ==
  /\ Spend
  /\ reload[s][g] = Spawned
  /\ reload' = [reload EXCEPT ![s][g] = Idle]
  /\ missed' = missed \cup {s}
  /\ UNCHANGED <<configs, version, phase, first, stream, cache, admin>>

SetCachedConfigs(s, g) ==
  /\ reload[s][g] \notin {Idle, Spawned}
  /\ cache' = [cache EXCEPT ![s] = reload[s][g]]
  /\ reload' = [reload EXCEPT ![s][g] = Idle]
  /\ UNCHANGED <<configs, version, phase, first, stream, admin, missed, faults>>
-------------------------------------------------------------------------------
(* Admin handlers (core/app_admin.go), on a server that is up.             *)

\* A server that has nothing to catch up with: no change it will be told of and
\* no reload under way.
CaughtUp(s) ==
  \/ phase[s] = "down"
  \/ /\ phase[s] = "up"
     /\ \A g \in Slots : reload[s][g] = Idle
     /\ IF stream[s].open THEN stream[s].at = version ELSE stream[s].token = version

\* A call that the checks let pass, with the document that they looked at.
Proceed(a, s, key, new, old, bySystem) ==
  /\ phase[s] = "up" /\ ~ Working(a)
  /\ Spaced => s \notin missed /\ CaughtUp(s)
  /\ admin' = [admin EXCEPT ![a] =
       [server |-> s, bySystem |-> bySystem, key |-> key, new |-> new, old |-> old,
        was |-> IF old = NoConfig THEN NoConfig ELSE configs[key]]]
  /\ UNCHANGED <<configs, version, phase, first, stream, reload, cache, missed, faults>>

\* The claims' CanAccess, for admins of the configuration's application and
\* organisation: system configurations are for system admins.
CanAccess(bySystem, system) == system => bySystem

\* A mistake: what applies to all organisations need not be a system configuration.
AllOrgsUnchecked(key, new) == TRUE

\* What applies to all organisations must be a system configuration.
AllOrgsRule(key, new) == key \in AllOrgsKeys => new.system

\* A mistake: any admin creates a system configuration.
AnyMayCreate(bySystem, system) == TRUE

MayCreate(bySystem, system) == CanAccess(bySystem, system)

CreateConfig(a, s, key, new, bySystem) ==
  /\ AllOrgsRule(key, new) /\ MayCreate(bySystem, new.system)
  /\ Proceed(a, s, key, new, NoConfig, bySystem)

\* A mistake: handlers look at the configurations loaded when the server started.
CachedAtStart(s, key) == first[s].configs[key]

\* The cached configuration a handler looks at.
Cached(s, key) == cache[s].configs[key]

\* A mistake: only the configuration as it is to be is looked at.
MayUpdateTo(bySystem, old, system) == CanAccess(bySystem, system)

\* UpdateConfig looks at the configuration as it is and as it is to be.
MayUpdate(bySystem, old, system) == (old.system => bySystem) /\ CanAccess(bySystem, system)

UpdateConfig(a, s, key, new, bySystem) ==
  LET old == Cached(s, key)
  IN  /\ AllOrgsRule(key, new)
      /\ old # NoConfig /\ MayUpdate(bySystem, old, new.system)
      /\ Proceed(a, s, key, new, old, bySystem)

\* The request names an id, which the copy must know.
DeleteConfig(a, s, key, bySystem) ==
  LET old == Cached(s, key)
  IN  /\ old # NoConfig /\ CanAccess(bySystem, old.system)
      /\ Proceed(a, s, key, NoConfig, old, bySystem)
-------------------------------------------------------------------------------
(* Their writes (driven/storage/adapter.go).                               *)

Ends(a, result) == admin' = [admin EXCEPT ![a] = result]

\* The write is done; its answer may be lost, which the handler reports as an error.
Answers(a) ==
  \/ Ends(a, Done) /\ UNCHANGED faults
  \/ Ends(a, Failed) /\ Spend

Put(key, d) ==
  /\ version < MaxVersion
  /\ Spaced => \A s \in Servers : CaughtUp(s)
  /\ configs' = [configs EXCEPT ![key] = d]
  /\ version' = version + 1

\* A document that stands for a configuration of this content.
Document(id, content) == [id |-> id, system |-> content.system, value |-> content.value]

\* The id is a fresh one; the unique index refuses a second document for a key.
InsertConfig(a, c) ==
  /\ c.old = NoConfig /\ c.new # NoConfig
  /\ IF configs[c.key] = NoConfig
     THEN Put(c.key, Document(version + 1, c.new)) /\ Answers(a)
     ELSE Ends(a, Failed) /\ UNCHANGED <<configs, version, faults>>

\* A mistake: the document is found by what a configuration is for, not by its id.
FoundByKey(d, old) == d # NoConfig

\* The filter names the id of the document that the handler looked at.
Found(d, old) == d # NoConfig /\ d.id = old.id

\* That no document may match the filter is not looked at.
UpdateOne(a, c) ==
  /\ c.old # NoConfig /\ c.new # NoConfig
  /\ IF Found(configs[c.key], c.old)
     THEN Put(c.key, Document(configs[c.key].id, c.new))
     ELSE UNCHANGED <<configs, version>>
  /\ Answers(a)

DeleteMany(a, c) ==
  /\ c.old # NoConfig /\ c.new = NoConfig
  /\ IF Found(configs[c.key], c.old)
     THEN Put(c.key, NoConfig)
     ELSE UNCHANGED <<configs, version>>
  /\ Answers(a)

\* The write does not reach the database.
WriteFails(a) == Spend /\ Ends(a, Failed) /\ UNCHANGED <<configs, version>>

Write(a) ==
  /\ Working(a)
  /\ \E c \in {admin[a]} : InsertConfig(a, c) \/ UpdateOne(a, c) \/ DeleteMany(a, c) \/ WriteFails(a)
  /\ UNCHANGED <<phase, first, stream, reload, cache, missed>>
-------------------------------------------------------------------------------
Watching(s) == OpenStream(s) \/ NextChange(s)
Starting(s) ==
  Connect(s) \/ RegisterStorageListener(s) \/ FirstLoad(s) \/ FirstSet(s)
Reloading(s, g) == LoadConfigs(s, g) \/ SetCachedConfigs(s, g)

Failing(s) ==
  \/ Crash(s) \/ StreamBreaks(s) \/ OpenFails(s)
  \/ \E g \in Slots : LoadFails(s, g)

Asking(a, s) ==
  \E key \in Keys, bySystem \in BOOLEAN :
    \/ \E new \in Content : \/ CreateConfig(a, s, key, new, bySystem)
                            \/ UpdateConfig(a, s, key, new, bySystem)
    \/ DeleteConfig(a, s, key, bySystem)

Next ==
  \/ \E s \in Servers :
       \/ Starting(s) \/ Watching(s) \/ Failing(s)
       \/ \E g \in Slots : Reloading(s, g)
       \/ \E a \in Admins : Asking(a, s)
  \/ \E a \in Admins : Write(a)

\* The goroutines of a running server are scheduled; a server that is down is
\* started again.  Nobody has to change a configuration, and nothing has to fail.
Fairness ==
  \A s \in Servers :
    /\ WF_vars(Starting(s)) /\ WF_vars(Watching(s))
    /\ \A g \in Slots : WF_vars(Reloading(s, g))

Spec == Init /\ [][Next]_vars /\ Fairness
-------------------------------------------------------------------------------
(* Properties.                                                             *)

Fresh(s) == cache[s] = Current

\* A running server that has nothing to catch up with answers from what is
\* stored, through broken streams and crashes, unless its last reload failed or
\* its stream was broken and could not be reopened.  It needs changes that leave
\* servers time to reload: two reloads at once may end in the wrong order.
CaughtUpIsFresh ==
  \A s \in Servers : (phase[s] = "up" /\ CaughtUp(s) /\ s \notin missed) => Fresh(s)

\* As long as a server runs, its copy never goes back to older configurations.
CacheNeverGoesBack ==
  [][\A s \in Servers : phase'[s] # "down" => cache'[s].version >= cache[s].version]_vars

\* The document of an earlier time is stored still.
Kept(document, was) == document # NoConfig /\ was # NoConfig /\ document.id = was.id

\* What a call that reports success has done: it stored what it was to insert; it
\* changed the configuration that was stored when it looked, unless another call
\* has deleted that one since; the one that was stored is no more.
HasDone(c, document) ==
  LET new == Document(document.id, c.new)
  IN  IF c.old = NoConfig THEN document # NoConfig /\ document = new
      ELSE /\ c.was # NoConfig
           /\ IF c.new = NoConfig THEN ~ Kept(document, c.was)
              ELSE Kept(document, c.was) => document = new

\* What a success reported to an admin means, with any number of calls at work at
\* once: UpdateConfig and DeleteConfig look at a copy and never at what their write
\* has matched, and still a success without effect is one of an update whose
\* document another call deleted meanwhile.
ReportedDone ==
  [][\A a \in Admins : \A c \in {admin[a]} :
       Working(a) /\ admin'[a] = Done => HasDone(c, configs'[c.key])]_vars

\* The step is the write of a call for the key, by a system admin.
BySystemAdmin(key) ==
  \E a \in Admins :
    Working(a) /\ admin'[a] # admin[a] /\ admin[a].key = key /\ admin[a].bySystem

Changed(key) == configs[key] # NoConfig /\ configs'[key] # configs[key]

\* A configuration for all organisations is changed or deleted by system admins only,
\* however old the copies are that their calls and others go by: it cannot lose the
\* flag that the checks look at.
AllOrgsKept == [][\A key \in AllOrgsKeys : Changed(key) => BySystemAdmin(key)]_vars

\* Any configuration is changed or deleted only for one who was allowed to when the
\* call looked: then it was stored already, and no system configuration unless the
\* caller is a system admin.  (It may have become one since: the check of UpdateConfig
\* is of the time of its look.)
ChangedByEntitled ==
  [][\A key \in Keys : Changed(key) =>
       \E a \in Admins :
         /\ Working(a) /\ admin'[a] # admin[a] /\ admin[a].key = key
         /\ Kept(configs[key], admin[a].was) /\ (admin[a].was.system => admin[a].bySystem)]_vars

Seen(call) ==
  [bySystem |-> call.bySystem, key |-> call.key, new |-> call.new, judged |-> call.old]

Store == INSTANCE ConfigStore
           WITH Ids <- 1..MaxVersion, stored <- configs,
                copies <- [s \in Servers |-> cache[s].configs],
                calls  <- [a \in Admins |-> IF Working(a) THEN Seen(admin[a]) ELSE admin[a]]

\* Calls that look at their server's copy act as if they had looked at the store, each
\* write and each report is one that the store allows after that look, and every load
\* and set of a copy acts as if it took all configurations at the moment of the set.
ActsAsStore == Store!Spec

\* "FindConfig finds the config" (adapter.go:197): once changes stop, every
\* server comes to answer from what is stored, and stays so.
Converges == \A s \in Servers : <>[](phase[s] = "up" => Fresh(s) \/ s \in missed)
===============================================================================
