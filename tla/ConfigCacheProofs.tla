--------------------------- MODULE ConfigCacheProofs ---------------------------
(***************************************************************************)
(* Proofs about module ConfigCache, for every value of its constants.      *)
(***************************************************************************)
EXTENDS ConfigCache, TLAPS

\* The stream of a server.
Stream == [open : BOOLEAN, at : 0..MaxVersion, token : 0..MaxVersion \cup {NoToken}]

\* A reload of the server is under way.
Pending(s) == \E g \in Slots : reload[s][g] # Idle

\* There is no change that the server's stream, open or to be opened again, will tell of.
ToldOfAll(s) ==
  IF stream[s].open THEN stream[s].at = version ELSE stream[s].token \in {version, NoToken}

\* What makes a server's copy good as long as changes are spaced: every snapshot that
\* is still to be used is what is stored, and a server that has missed nothing and will
\* be told of nothing has it already, or has a reload under way.
ServerInv(s) ==
  /\ \A g \in Slots : reload[s][g] \in {Idle, Spawned, Current}
  /\ phase[s] = "loaded" => first[s] = Current
  /\ phase[s] = "down" => ~Pending(s) /\ ~stream[s].open
  /\ cache[s].version <= version
  /\ phase[s] = "up" /\ s \notin missed /\ ToldOfAll(s) => Fresh(s) \/ Pending(s)

\* A handler at work looked at what was stored, which let it pass; ids are never used again.
CallInv(a) ==
  Working(a) =>
    /\ admin[a].was = admin[a].old
    /\ admin[a].old # NoConfig => /\ admin[a].old.id \in 1..version
                                  /\ admin[a].old.system => admin[a].bySystem

IdsInv == \A key \in Keys : configs[key] # NoConfig => configs[key].id \in 1..version

CacheInv ==
  /\ Spaced /\ TypeOK /\ IdsInv
  /\ \A s \in Servers : ServerInv(s)
  /\ \A a \in Admins : CallInv(a)
-------------------------------------------------------------------------------
(* Types.                                                                  *)

\* What loadConfigs reads is a snapshot, and so is an empty copy.
LEMMA Snapshots ==
  /\ Empty \in Snapshot /\ Empty.version = 0
  /\ TypeOK => Current \in Snapshot /\ Current.version = version /\ version \in Nat
<1>1. ASSUME version \in 0..MaxVersion PROVE version \in Nat
  BY <1>1, CacheAssumption
<1> QED BY <1>1 DEF TypeOK, Current, Empty, NoConfigs, Snapshot

\* A closed stream is a stream.
LEMMA Streams ==
  /\ 0 \in 0..MaxVersion
  /\ \A token \in 0..MaxVersion \cup {NoToken} :
       /\ Closed(token) \in Stream
       /\ ~Closed(token).open /\ Closed(token).token = token
BY CacheAssumption DEF Closed, Stream

\* The program starts with nothing stored and no server running.
LEMMA TypeInit == Init => TypeOK
<1>1. 0 \in 0..MaxVersion /\ 0 \in 0..MaxFaults
  BY CacheAssumption
<1>2. Init => configs \in [Keys -> Config \cup {NoConfig}]
  BY DEF Init, NoConfigs
<1>3. Init => admin \in [Admins -> Call \cup {Done, Failed}]
  BY DEF Init
<1>4. Init => stream \in [Servers -> Stream]
  BY Streams DEF Init
<1>5. Init => /\ first \in [Servers -> Snapshot] /\ cache \in [Servers -> Snapshot]
              /\ reload \in [Servers -> [Slots -> Snapshot \cup {Idle, Spawned}]]
  BY Snapshots DEF Init
<1> QED BY <1>1, <1>2, <1>3, <1>4, <1>5 DEF Init, TypeOK, Stream

\* What a server does by itself.
LEMMA TypeServer ==
  ASSUME TypeOK, NEW s \in Servers,
         Starting(s) \/ Watching(s) \/ Failing(s) \/ \E g \in Slots : Reloading(s, g)
  PROVE  TypeOK'
<1>1. stream[s] \in Stream /\ Current \in Snapshot /\ Empty \in Snapshot
  BY Snapshots DEF TypeOK, Stream
<1>2. CASE Starting(s)
  <2>1. CASE Connect(s)
    BY <2>1 DEF TypeOK, Connect, Enter
  <2>2. CASE RegisterStorageListener(s)
    BY <2>2 DEF TypeOK, RegisterStorageListener, Enter
  <2>3. CASE FirstLoad(s)
    BY <1>1, <2>3 DEF TypeOK, FirstLoad, Enter
  <2>4. CASE FirstSet(s)
    BY <2>4 DEF TypeOK, FirstSet, Enter
  <2> QED BY <1>2, <2>1, <2>2, <2>3, <2>4 DEF Starting
<1>3. ASSUME Spend PROVE faults' \in 0..MaxFaults
  <2>1. faults \in 0..MaxFaults
    BY DEF TypeOK
  <2> QED BY <1>3, <2>1, CacheAssumption DEF Spend
<1>4. CASE OpenStream(s)
  <2>1. ResumeAt(s) \in 0..MaxVersion
    BY <1>1 DEF TypeOK, ResumeAt, Stream
  <2>2. [stream[s] EXCEPT !.open = TRUE, !.at = ResumeAt(s)] \in Stream
    BY <1>1, <2>1 DEF Stream
  <2> QED BY <1>4, <2>2 DEF TypeOK, OpenStream, Stream
<1>5. CASE NextChange(s)
  <2>1. stream[s].at + 1 \in 0..MaxVersion
    <3>1. stream[s].at \in 0..MaxVersion /\ version \in 0..MaxVersion /\ stream[s].at < version
      BY <1>1, <1>5 DEF TypeOK, Stream, NextChange
    <3> QED BY <3>1, CacheAssumption
  <2>2. [stream[s] EXCEPT !.at = @ + 1] \in Stream
    BY <1>1, <2>1 DEF Stream
  <2>3. stream' \in [Servers -> Stream]
    BY <1>5, <2>2 DEF TypeOK, NextChange, Stream
  <2>4. reload' \in [Servers -> [Slots -> Snapshot \cup {Idle, Spawned}]]
    <3>1. reload' = reload \/ \E g \in Slots : reload' = [reload EXCEPT ![s][g] = Spawned]
      BY <1>5 DEF NextChange
    <3>2. ASSUME NEW g \in Slots, reload' = [reload EXCEPT ![s][g] = Spawned]
          PROVE  reload' \in [Servers -> [Slots -> Snapshot \cup {Idle, Spawned}]]
      <4>1. [reload[s] EXCEPT ![g] = Spawned] \in [Slots -> Snapshot \cup {Idle, Spawned}]
        BY DEF TypeOK
      <4>2. reload' = [reload EXCEPT ![s] = [reload[s] EXCEPT ![g] = Spawned]]
        BY <3>2
      <4> QED BY <4>1, <4>2 DEF TypeOK
    <3> QED BY <3>1, <3>2 DEF TypeOK
  <2> QED BY <1>5, <2>3, <2>4 DEF TypeOK, NextChange, Stream
<1>6. CASE Crash(s)
  <2>1. admin' \in [Admins -> Call \cup {Done, Failed}]
    BY <1>6 DEF TypeOK, Crash
  <2> QED BY <1>1, <1>3, <1>6, <2>1, Streams DEF TypeOK, Crash, Stream
<1>7. CASE StreamBreaks(s)
  <2>1. Closed(stream[s].at) \in Stream
    BY <1>1, Streams DEF Stream
  <2> QED BY <1>3, <1>7, <2>1 DEF TypeOK, StreamBreaks, Stream
<1>8. CASE OpenFails(s)
  BY <1>3, <1>8, Streams DEF TypeOK, OpenFails, Stream
<1>9. ASSUME NEW g \in Slots, LoadFails(s, g) PROVE TypeOK'
  BY <1>3, <1>9 DEF TypeOK, LoadFails
<1>10. ASSUME NEW g \in Slots, LoadConfigs(s, g) PROVE TypeOK'
  BY <1>1, <1>10 DEF TypeOK, LoadConfigs
<1>11. ASSUME NEW g \in Slots, SetCachedConfigs(s, g) PROVE TypeOK'
  BY <1>11 DEF TypeOK, SetCachedConfigs
<1> QED
  BY <1>2, <1>4, <1>5, <1>6, <1>7, <1>8, <1>9, <1>10, <1>11 DEF Watching, Failing, Reloading

\* A call that comes.
LEMMA TypeAsk ==
  ASSUME TypeOK, NEW a \in Admins, NEW s \in Servers, Asking(a, s)
  PROVE  TypeOK'
<1>1. PICK key \in Keys, new \in Content \cup {NoConfig}, old \in Config \cup {NoConfig},
           bySystem \in BOOLEAN : Proceed(a, s, key, new, old, bySystem)
  <2>1. PICK key \in Keys, bySystem \in BOOLEAN :
          \/ \E new \in Content : \/ CreateConfig(a, s, key, new, bySystem)
                                  \/ UpdateConfig(a, s, key, new, bySystem)
          \/ DeleteConfig(a, s, key, bySystem)
    BY DEF Asking
  <2>2. Cached(s, key) \in Config \cup {NoConfig}
    BY DEF TypeOK, Cached, Snapshot
  <2> QED BY <2>1, <2>2 DEF CreateConfig, UpdateConfig, DeleteConfig
<1> DEFINE call == [server |-> s, bySystem |-> bySystem, key |-> key, new |-> new, old |-> old,
                    was |-> IF old = NoConfig THEN NoConfig ELSE configs[key]]
<1>2. call \in Call
  BY DEF Call, TypeOK
<1> HIDE DEF call
<1>3. admin' = [admin EXCEPT ![a] = call]
  BY <1>1 DEF Proceed, call
<1> QED BY <1>1, <1>2, <1>3 DEF TypeOK, Proceed

\* A document that is written.
LEMMA DocumentType ==
  ASSUME NEW id \in Nat, NEW content \in Content
  PROVE  /\ Document(id, content) \in Config /\ Document(id, content).id = id
         /\ Document(id, content).value = content.value
         /\ Document(id, content).system = content.system
BY DEF Document, Config, Content

\* The ways in which a call's write changes the collection.
Inserts(c) ==
  /\ c.old = NoConfig /\ c.new \in Content /\ configs[c.key] = NoConfig
  /\ Put(c.key, Document(version + 1, c.new))

Updates(c) ==
  /\ c.old # NoConfig /\ c.new \in Content /\ Found(configs[c.key], c.old)
  /\ Put(c.key, Document(c.old.id, c.new))

Deletes(c) ==
  /\ c.old # NoConfig /\ c.new = NoConfig /\ Found(configs[c.key], c.old)
  /\ Put(c.key, NoConfig)

\* The write ends the call, and changes the collection in one of these ways or not at all;
\* that is reported as a success only if the call's document is gone.
LEMMA WriteCases ==
  ASSUME TypeOK, NEW a \in Admins, Write(a)
  PROVE  /\ Working(a) /\ admin[a] \in Call /\ faults' \in 0..MaxFaults
         /\ UNCHANGED <<phase, first, stream, reload, cache, missed>>
         /\ \E result \in {Done, Failed} :
              /\ admin' = [admin EXCEPT ![a] = result]
              /\ \/ Inserts(admin[a]) \/ Updates(admin[a]) \/ Deletes(admin[a])
                 \/ /\ UNCHANGED <<configs, version>>
                    /\ result = Done =>
                         admin[a].old # NoConfig /\ ~Found(configs[admin[a].key], admin[a].old)
<1> DEFINE c == admin[a]
<1>1. /\ Working(a) /\ c \in Call
      /\ InsertConfig(a, c) \/ UpdateOne(a, c) \/ DeleteMany(a, c) \/ WriteFails(a)
      /\ UNCHANGED <<phase, first, stream, reload, cache, missed>>
  BY DEF Write, Working, TypeOK
<1>2. c.new \in Content \cup {NoConfig} /\ NoConfig \notin Content
  BY <1>1, CacheAssumption DEF Call
<1> HIDE DEF c
<1>3. Answers(a) => /\ \E result \in {Done, Failed} : admin' = [admin EXCEPT ![a] = result]
                    /\ faults' \in 0..MaxFaults
  <2>1. faults \in 0..MaxFaults /\ (Spend => faults' \in 0..MaxFaults)
    BY CacheAssumption DEF TypeOK, Spend
  <2> QED BY <2>1 DEF Answers, Ends
<1>4. CASE InsertConfig(a, c)
  BY <1>1, <1>2, <1>3, <1>4, CacheAssumption DEF InsertConfig, Inserts, Ends, TypeOK, c
<1>5. CASE UpdateOne(a, c)
  BY <1>1, <1>2, <1>3, <1>5 DEF UpdateOne, Updates, Found, c
<1>6. CASE DeleteMany(a, c)
  BY <1>1, <1>2, <1>3, <1>6 DEF DeleteMany, Deletes, c
<1>7. CASE WriteFails(a)
  <2>1. faults' \in 0..MaxFaults
    BY <1>7, CacheAssumption DEF WriteFails, TypeOK, Spend
  <2> QED BY <1>1, <1>7, <2>1, CacheAssumption DEF WriteFails, Ends, c
<1> QED BY <1>1, <1>4, <1>5, <1>6, <1>7

\* A write.
LEMMA TypeWrite ==
  ASSUME TypeOK, NEW a \in Admins, Write(a)
  PROVE  TypeOK'
<1> DEFINE c == admin[a]
<1>1. c \in Call /\ faults' \in 0..MaxFaults
      /\ UNCHANGED <<phase, first, stream, reload, cache, missed>>
      /\ admin' \in [Admins -> Call \cup {Done, Failed}]
  BY WriteCases DEF TypeOK
<1>2. Inserts(c) \/ Updates(c) \/ Deletes(c) \/ UNCHANGED <<configs, version>>
  BY WriteCases
<1>3. c.key \in Keys /\ (c.old = NoConfig \/ c.old.id \in Nat) /\ version \in 0..MaxVersion
  BY <1>1 DEF Call, Config, TypeOK
<1> HIDE DEF c
<1>4. ASSUME NEW key \in Keys, NEW d \in Config \cup {NoConfig}, Put(key, d)
      PROVE  configs' \in [Keys -> Config \cup {NoConfig}] /\ version' \in 0..MaxVersion
  BY <1>3, <1>4, CacheAssumption DEF TypeOK, Put
<1>5. version + 1 \in Nat
  BY <1>3, CacheAssumption
<1>6. configs' \in [Keys -> Config \cup {NoConfig}] /\ version' \in 0..MaxVersion
  <2>1. CASE Inserts(c)
    BY <1>3, <1>4, <1>5, <2>1, DocumentType DEF Inserts
  <2>2. CASE Updates(c)
    BY <1>3, <1>4, <2>2, DocumentType DEF Updates
  <2>3. CASE Deletes(c)
    BY <1>3, <1>4, <2>3 DEF Deletes
  <2> QED BY <1>2, <2>1, <2>2, <2>3 DEF TypeOK
<1> QED BY <1>1, <1>6 DEF TypeOK

\* The collection, the copies, the streams and the goroutines are what the program
\* takes them for, whether or not changes are spaced.
THEOREM CacheTypeCorrect == Spec => []TypeOK
<1>1. TypeOK /\ [Next]_vars => TypeOK'
  <2>1. CASE UNCHANGED vars
    BY <2>1 DEF vars, TypeOK
  <2> QED BY <2>1, TypeServer, TypeAsk, TypeWrite DEF Next
<1> QED BY <1>1, TypeInit, PTL DEF Spec
-------------------------------------------------------------------------------
(* What a server does by itself keeps the invariant.                       *)

\* The other servers do not see it, nor does a handler, except that it may be ended.
LEMMA LocalStep ==
  ASSUME CacheInv, TypeOK', NEW s \in Servers, UNCHANGED <<configs, version>>,
         \A a \in Admins : admin'[a] \in {admin[a], Failed},
         \A o \in Servers \ {s} :
           /\ phase'[o] = phase[o] /\ first'[o] = first[o] /\ stream'[o] = stream[o]
           /\ reload'[o] = reload[o] /\ cache'[o] = cache[o] /\ (o \in missed' <=> o \in missed),
         ServerInv(s)'
  PROVE  CacheInv'
<1>1. ASSUME NEW o \in Servers \ {s} PROVE ServerInv(o)'
  <2>1. ServerInv(o)
    BY DEF CacheInv
  <2> QED BY <2>1 DEF ServerInv, Pending, ToldOfAll, Fresh, Current
<1>2. ASSUME NEW a \in Admins PROVE CallInv(a)'
  <2>1. CallInv(a)
    BY DEF CacheInv
  <2> QED BY <2>1 DEF CallInv, Working
<1> QED BY <1>1, <1>2 DEF CacheInv, IdsInv

\* Snapshots are no marks.
LEMMA SnapshotsAreNoMarks ==
  ASSUME TypeOK
  PROVE  Current \in Snapshot /\ Current # Idle /\ Current # Spawned
         /\ Current.version = version /\ version \in Nat /\ Idle # Spawned
BY Snapshots, CacheAssumption

\* A server that starts loads what is stored, and nothing is written until it has set it.
LEMMA StartingInv ==
  ASSUME CacheInv, NEW s \in Servers, Starting(s) PROVE CacheInv'
<1>1. TypeOK /\ ServerInv(s) /\ TypeOK'
  BY TypeServer DEF CacheInv
<1>2. Current \in Snapshot /\ Current.version = version /\ version \in Nat
  BY <1>1, Snapshots
<1>3. CASE Connect(s) \/ RegisterStorageListener(s)
  <2>1. UNCHANGED <<configs, version, first, stream, reload, cache, admin, missed>>
        /\ phase'[s] \in {"connected", "listening"}
        /\ \A o \in Servers \ {s} : phase'[o] = phase[o]
    BY <1>1, <1>3 DEF Connect, RegisterStorageListener, Enter, TypeOK
  <2>2. ServerInv(s)'
    BY <1>1, <2>1 DEF ServerInv, Current
  <2> QED BY <1>1, <2>1, <2>2, LocalStep
<1>4. CASE FirstLoad(s)
  <2>1. UNCHANGED <<configs, version, stream, reload, cache, admin, missed>>
        /\ phase'[s] = "loaded" /\ first'[s] = Current
        /\ \A o \in Servers \ {s} : phase'[o] = phase[o] /\ first'[o] = first[o]
    BY <1>1, <1>4 DEF FirstLoad, Enter, TypeOK
  <2>2. ServerInv(s)'
    BY <1>1, <2>1 DEF ServerInv, Current
  <2> QED BY <1>1, <2>1, <2>2, LocalStep
<1>5. CASE FirstSet(s)
  <2>1. UNCHANGED <<configs, version, first, stream, reload, admin, missed>>
        /\ phase[s] = "loaded" /\ phase'[s] = "up" /\ cache'[s] = first[s]
        /\ \A o \in Servers \ {s} : phase'[o] = phase[o] /\ cache'[o] = cache[o]
    BY <1>1, <1>5 DEF FirstSet, Enter, TypeOK
  <2>2. cache'[s] = Current /\ cache'[s].version <= version
    BY <1>1, <1>2, <2>1 DEF ServerInv
  <2>3. ServerInv(s)'
    BY <1>1, <2>1, <2>2 DEF ServerInv, Current, Fresh
  <2> QED BY <1>1, <2>1, <2>3, LocalStep
<1> QED BY <1>3, <1>4, <1>5 DEF Starting

\* A stream that is opened has been told of no more than it had been; each change that it
\* tells a server that is up of starts a reload.
LEMMA WatchingInv ==
  ASSUME CacheInv, NEW s \in Servers, Watching(s) PROVE CacheInv'
<1>1. TypeOK /\ ServerInv(s) /\ TypeOK' /\ stream[s] \in Stream
  BY TypeServer DEF CacheInv, TypeOK, Stream
<1>2. CASE OpenStream(s)
  <2> DEFINE next == [stream[s] EXCEPT !.open = TRUE, !.at = ResumeAt(s)]
  <2>1. UNCHANGED <<configs, version, phase, first, reload, cache, admin, missed>>
        /\ phase[s] # "down" /\ ~stream[s].open /\ stream' = [stream EXCEPT ![s] = next]
    BY <1>2 DEF OpenStream
  <2>2. next.open /\ next.at = ResumeAt(s)
    BY <1>1 DEF Stream
  <2> HIDE DEF next
  <2>3. stream'[s] = next /\ \A o \in Servers \ {s} : stream'[o] = stream[o]
    BY <1>1, <2>1 DEF TypeOK
  <2>4. ToldOfAll(s)' => ToldOfAll(s)
    BY <2>1, <2>2, <2>3 DEF ToldOfAll, ResumeAt
  <2>5. ServerInv(s)'
    BY <1>1, <2>1, <2>4 DEF ServerInv, Current, Fresh, Pending
  <2> QED BY <1>1, <2>1, <2>3, <2>5, LocalStep
<1>3. CASE NextChange(s)
  <2>1. UNCHANGED <<configs, version, phase, first, cache, admin, missed>>
    BY <1>3 DEF NextChange
  <2>2. \A o \in Servers \ {s} : stream'[o] = stream[o] /\ reload'[o] = reload[o]
    BY <1>1, <1>3 DEF NextChange, TypeOK
  <2>3. CASE phase[s] = "connected"
    <3>1. reload' = reload
      BY <1>3, <2>3 DEF NextChange
    <3>2. ServerInv(s)'
      BY <1>1, <2>1, <2>3, <3>1 DEF ServerInv, Current, Pending
    <3> QED BY <1>1, <2>1, <2>2, <3>2, LocalStep
  <2>4. ASSUME NEW g \in Slots, reload' = [reload EXCEPT ![s][g] = Spawned], phase[s] # "connected"
        PROVE  CacheInv'
    <3>1. reload'[s][g] = Spawned /\ \A h \in Slots \ {g} : reload'[s][h] = reload[s][h]
      BY <1>1, <2>4 DEF TypeOK
    <3>2. Pending(s)'
      BY <3>1, CacheAssumption DEF Pending
    <3>3. phase[s] # "down"
      BY <1>1, <1>3 DEF NextChange, ServerInv
    <3>4. ServerInv(s)'
      BY <1>1, <2>1, <3>1, <3>2, <3>3 DEF ServerInv, Current
    <3> QED BY <1>1, <2>1, <2>2, <3>4, LocalStep
  <2> QED BY <1>3, <2>3, <2>4 DEF NextChange
<1> QED BY <1>2, <1>3 DEF Watching

\* A failure leaves a server down, or that has missed something, or where it was.
LEMMA FailingInv ==
  ASSUME CacheInv, NEW s \in Servers, Failing(s) PROVE CacheInv'
<1>1. TypeOK /\ ServerInv(s) /\ TypeOK' /\ stream[s] \in Stream
  BY TypeServer DEF CacheInv, TypeOK, Stream
<1>2. version \in Nat
  BY <1>1, Snapshots
<1>3. CASE Crash(s)
  <2>1. /\ UNCHANGED <<configs, version>>
        /\ \A a \in Admins : admin'[a] \in {admin[a], Failed}
        /\ phase'[s] = "down" /\ cache'[s] = Empty /\ \A g \in Slots : reload'[s][g] = Idle
        /\ stream'[s] = Closed(NoToken)
        /\ \A o \in Servers \ {s} :
             /\ phase'[o] = phase[o] /\ first'[o] = first[o] /\ stream'[o] = stream[o]
             /\ reload'[o] = reload[o] /\ cache'[o] = cache[o] /\ (o \in missed' <=> o \in missed)
    BY <1>1, <1>3 DEF Crash, TypeOK
  <2>2. cache'[s].version <= version'
    BY <1>2, <2>1, Snapshots
  <2>3. ServerInv(s)'
    BY <2>1, <2>2, Streams DEF ServerInv, Pending
  <2> QED BY <1>1, <2>1, <2>3, LocalStep
<1>4. CASE StreamBreaks(s)
  <2> DEFINE next == Closed(stream[s].at)
  <2>1. UNCHANGED <<configs, version, phase, first, reload, cache, admin, missed>>
        /\ stream[s].open /\ stream' = [stream EXCEPT ![s] = next]
    BY <1>4 DEF StreamBreaks
  <2>2. ~next.open /\ next.token = stream[s].at /\ stream[s].at # NoToken
    BY <1>1, CacheAssumption, Streams DEF Stream
  <2> HIDE DEF next
  <2>3. stream'[s] = next /\ \A o \in Servers \ {s} : stream'[o] = stream[o]
    BY <1>1, <2>1 DEF TypeOK
  <2>4. ToldOfAll(s)' => ToldOfAll(s)
    BY <2>1, <2>2, <2>3 DEF ToldOfAll
  <2>5. ServerInv(s)'
    BY <1>1, <2>1, <2>4 DEF ServerInv, Current, Fresh, Pending
  <2> QED BY <1>1, <2>1, <2>3, <2>5, LocalStep
<1>5. CASE OpenFails(s)
  <2>1. /\ UNCHANGED <<configs, version, phase, first, reload, cache, admin>>
        /\ ~stream[s].open /\ stream' = [stream EXCEPT ![s] = Closed(NoToken)]
        /\ missed' = IF stream[s].token \in {NoToken, version} THEN missed ELSE missed \cup {s}
    BY <1>5 DEF OpenFails
  <2>2. s \notin missed' => ToldOfAll(s) /\ s \notin missed
    BY <2>1 DEF ToldOfAll
  <2>3. \A o \in Servers \ {s} : stream'[o] = stream[o] /\ (o \in missed' <=> o \in missed)
    BY <1>1, <2>1 DEF TypeOK
  <2>4. ~stream'[s].open
    BY <1>1, <2>1, Streams DEF TypeOK
  <2>5. ServerInv(s)'
    BY <1>1, <2>1, <2>2, <2>4 DEF ServerInv, Current, Fresh, Pending
  <2> QED BY <1>1, <2>1, <2>3, <2>5, LocalStep
<1>6. ASSUME NEW g \in Slots, LoadFails(s, g) PROVE CacheInv'
  <2>1. /\ UNCHANGED <<configs, version, phase, first, stream, cache, admin>>
        /\ reload[s][g] # Idle /\ reload'[s][g] = Idle
        /\ \A h \in Slots \ {g} : reload'[s][h] = reload[s][h]
        /\ s \in missed'
        /\ \A o \in Servers \ {s} : reload'[o] = reload[o] /\ (o \in missed' <=> o \in missed)
    BY <1>1, <1>6, CacheAssumption DEF LoadFails, TypeOK
  <2>2. phase[s] # "down"
    BY <1>1, <2>1 DEF ServerInv, Pending
  <2>3. ServerInv(s)'
    BY <1>1, <2>1, <2>2 DEF ServerInv, Current
  <2> QED BY <1>1, <2>1, <2>3, LocalStep
<1> QED BY <1>3, <1>4, <1>5, <1>6 DEF Failing

\* A reload takes what is stored, and nothing is written until it has set it.
LEMMA ReloadingInv ==
  ASSUME CacheInv, NEW s \in Servers, NEW g \in Slots, Reloading(s, g) PROVE CacheInv'
<1>1. TypeOK /\ ServerInv(s) /\ TypeOK'
  BY TypeServer DEF CacheInv
<1>2. Current # Idle /\ Current # Spawned /\ Current.version = version /\ version \in Nat
      /\ Idle # Spawned
  BY <1>1, SnapshotsAreNoMarks
<1>3. CASE LoadConfigs(s, g)
  <2>1. /\ UNCHANGED <<configs, version, phase, first, stream, admin>>
        /\ reload[s][g] # Idle /\ reload'[s][g] = Current /\ cache' = cache
        /\ \A h \in Slots \ {g} : reload'[s][h] = reload[s][h]
        /\ \A o \in Servers \ {s} : reload'[o] = reload[o] /\ (o \in missed' <=> o \in missed)
    BY <1>1, <1>2, <1>3 DEF LoadConfigs, TypeOK
  <2>2. Pending(s)'
    BY <1>2, <2>1 DEF Pending
  <2>3. phase[s] # "down"
    BY <1>1, <2>1 DEF ServerInv, Pending
  <2>4. ServerInv(s)'
    BY <1>1, <2>1, <2>2, <2>3 DEF ServerInv, Current
  <2> QED BY <1>1, <2>1, <2>4, LocalStep
<1>4. CASE SetCachedConfigs(s, g)
  <2>1. /\ UNCHANGED <<configs, version, phase, first, stream, admin, missed>>
        /\ reload[s][g] \notin {Idle, Spawned} /\ reload'[s][g] = Idle
        /\ cache'[s] = reload[s][g]
        /\ \A h \in Slots \ {g} : reload'[s][h] = reload[s][h]
        /\ \A o \in Servers \ {s} : reload'[o] = reload[o] /\ cache'[o] = cache[o]
    BY <1>1, <1>4 DEF SetCachedConfigs, TypeOK
  <2>2. cache'[s] = Current /\ cache'[s].version <= version
    BY <1>1, <1>2, <2>1 DEF ServerInv
  <2>3. phase[s] # "down"
    BY <1>1, <2>1 DEF ServerInv, Pending
  <2>4. ServerInv(s)'
    BY <1>1, <2>1, <2>2, <2>3 DEF ServerInv, Current, Fresh
  <2> QED BY <1>1, <2>1, <2>4, LocalStep
<1> QED BY <1>3, <1>4 DEF Reloading
-------------------------------------------------------------------------------
(* Writes.                                                                 *)

\* A server that has caught up and missed nothing has what is stored.
LEMMA CaughtUpHasIt ==
  ASSUME CacheInv, NEW s \in Servers, phase[s] = "up", CaughtUp(s), s \notin missed
  PROVE  Fresh(s)
<1>1. ServerInv(s)
  BY DEF CacheInv
<1>2. ~Pending(s) /\ ToldOfAll(s)
  BY DEF CaughtUp, Pending, ToldOfAll
<1> QED BY <1>1, <1>2 DEF ServerInv

\* So a handler looks at what is stored.
LEMMA LooksAtStored ==
  ASSUME CacheInv, NEW a \in Admins, NEW s \in Servers, Asking(a, s)
  PROVE  \E key \in Keys, new \in Content \cup {NoConfig}, bySystem \in BOOLEAN :
           \E old \in {NoConfig, configs[key]} :
             /\ Proceed(a, s, key, new, old, bySystem)
             /\ old # NoConfig \/ new # NoConfig
             /\ old # NoConfig => (old.system => bySystem)
             /\ new # NoConfig => (new.system => bySystem)
<1>1. PICK key \in Keys, bySystem \in BOOLEAN :
        \/ \E new \in Content : \/ CreateConfig(a, s, key, new, bySystem)
                                \/ UpdateConfig(a, s, key, new, bySystem)
        \/ DeleteConfig(a, s, key, bySystem)
  BY DEF Asking
<1>2. ASSUME NEW new, NEW old, Proceed(a, s, key, new, old, bySystem)
      PROVE  Cached(s, key) = configs[key]
  <2>1. Fresh(s)
    BY <1>2, CaughtUpHasIt DEF Proceed, CacheInv
  <2> QED BY <2>1 DEF Cached, Fresh, Current
<1>3. NoConfig \notin Content
  BY CacheAssumption
<1>4. ASSUME NEW new \in Content, CreateConfig(a, s, key, new, bySystem)
      PROVE  Proceed(a, s, key, new, NoConfig, bySystem) /\ (new.system => bySystem)
  BY <1>4 DEF CreateConfig, MayCreate, CanAccess
<1>5. ASSUME NEW new \in Content, UpdateConfig(a, s, key, new, bySystem)
      PROVE  /\ Proceed(a, s, key, new, configs[key], bySystem) /\ (new.system => bySystem)
             /\ configs[key] # NoConfig /\ (configs[key].system => bySystem)
  <2>1. Cached(s, key) = configs[key]
    BY <1>2, <1>5 DEF UpdateConfig
  <2> QED BY <1>5, <2>1 DEF UpdateConfig, MayUpdate, CanAccess
<1>6. ASSUME DeleteConfig(a, s, key, bySystem)
      PROVE  /\ Proceed(a, s, key, NoConfig, configs[key], bySystem)
             /\ configs[key] # NoConfig /\ (configs[key].system => bySystem)
  <2>1. Cached(s, key) = configs[key]
    BY <1>2, <1>6 DEF DeleteConfig
  <2> QED BY <1>6, <2>1 DEF DeleteConfig, CanAccess
<1>7. CASE \E new \in Content : CreateConfig(a, s, key, new, bySystem)
  BY <1>3, <1>4, <1>7
<1>8. CASE \E new \in Content : UpdateConfig(a, s, key, new, bySystem)
  BY <1>3, <1>5, <1>8
<1>9. CASE DeleteConfig(a, s, key, bySystem)
  BY <1>6, <1>9
<1> QED BY <1>1, <1>7, <1>8, <1>9

\* A call that comes remembers what is stored.
LEMMA AskingInv ==
  ASSUME CacheInv, NEW a \in Admins, NEW s \in Servers, Asking(a, s) PROVE CacheInv'
<1>1. PICK key \in Keys, new \in Content \cup {NoConfig}, bySystem \in BOOLEAN :
           \E old \in {NoConfig, configs[key]} :
             /\ Proceed(a, s, key, new, old, bySystem)
             /\ old # NoConfig => (old.system => bySystem)
  BY LooksAtStored
<1>2. PICK old \in {NoConfig, configs[key]} :
             /\ Proceed(a, s, key, new, old, bySystem)
             /\ old # NoConfig => (old.system => bySystem)
  BY <1>1
<1>3. TypeOK /\ TypeOK' /\ IdsInv
  BY TypeAsk DEF CacheInv
<1>4. UNCHANGED <<configs, version, phase, first, stream, reload, cache, missed>>
  BY <1>2 DEF Proceed
<1>5. \A o \in Admins \ {a} : admin'[o] = admin[o]
  BY <1>2, <1>3 DEF Proceed, TypeOK
<1>6. admin'[a].was = old /\ admin'[a].old = old /\ admin'[a].bySystem = bySystem
  BY <1>2, <1>3 DEF Proceed, TypeOK
<1>7. old # NoConfig => old.id \in 1..version
  BY <1>3 DEF IdsInv
<1>8. ASSUME NEW o \in Admins PROVE CallInv(o)'
  <2>1. CallInv(o)
    BY DEF CacheInv
  <2> QED BY <1>2, <1>4, <1>5, <1>6, <1>7, <2>1 DEF CallInv, Working
<1>9. ASSUME NEW o \in Servers PROVE ServerInv(o)'
  <2>1. ServerInv(o)
    BY DEF CacheInv
  <2> QED BY <1>4, <2>1 DEF ServerInv, Pending, ToldOfAll, Fresh, Current
<1> QED BY <1>3, <1>4, <1>8, <1>9 DEF CacheInv, IdsInv

\* A change finds every server with nothing under way, and leaves each running one with
\* a change to be told of.
LEMMA PutServers ==
  ASSUME CacheInv, NEW key, NEW d, Put(key, d),
         UNCHANGED <<phase, first, stream, reload, cache, missed>>, NEW o \in Servers
  PROVE  ServerInv(o)'
<1>1. TypeOK /\ version \in Nat /\ version' = version + 1 /\ ServerInv(o) /\ CaughtUp(o)
  BY Snapshots DEF CacheInv, Put
<1>2. cache[o].version <= version /\ cache[o].version \in Nat
  BY <1>1 DEF ServerInv, TypeOK, Snapshot
<1>3. cache'[o].version <= version'
  BY <1>1, <1>2
<1>4. ~Pending(o)
  BY <1>1 DEF CaughtUp, Pending, ServerInv
<1>5. ASSUME phase[o] = "up" PROVE ~ToldOfAll(o)'
  <2>1. version' # version /\ version # NoToken
    BY <1>1, CacheAssumption
  <2> QED BY <1>1, <1>5, <2>1 DEF CaughtUp, ToldOfAll
<1> QED BY <1>1, <1>3, <1>4, <1>5 DEF ServerInv, Pending, CaughtUp

\* The document that a call was judged by, if a write finds it, is the one for its key.
LEMMA WritingInv ==
  ASSUME CacheInv, NEW a \in Admins, Write(a) PROVE CacheInv'
<1> DEFINE c == admin[a]
<1>1. /\ TypeOK /\ TypeOK' /\ IdsInv /\ c \in Call
      /\ UNCHANGED <<phase, first, stream, reload, cache, missed>>
  BY TypeWrite, WriteCases DEF CacheInv
<1>2. Inserts(c) \/ Updates(c) \/ Deletes(c) \/ UNCHANGED <<configs, version>>
  BY <1>1, WriteCases
<1>3. \A o \in Admins : admin'[o] \in {admin[o], Done, Failed}
  BY <1>1, WriteCases DEF TypeOK
<1>4. version \in Nat /\ c.key \in Keys /\ configs \in [Keys -> Config \cup {NoConfig}]
  BY <1>1, Snapshots DEF Call, TypeOK
<1> HIDE DEF c
<1>5. CASE UNCHANGED <<configs, version>>
  <2>1. ASSUME NEW o \in Servers PROVE ServerInv(o)'
    <3>1. ServerInv(o)
      BY DEF CacheInv
    <3> QED BY <1>1, <1>5, <3>1 DEF ServerInv, Pending, ToldOfAll, Fresh, Current
  <2>2. ASSUME NEW o \in Admins PROVE CallInv(o)'
    <3>1. CallInv(o)
      BY DEF CacheInv
    <3> QED BY <1>3, <1>5, <3>1 DEF CallInv, Working
  <2> QED BY <1>1, <1>5, <2>1, <2>2 DEF CacheInv, IdsInv
<1>6. ASSUME NEW d \in Config \cup {NoConfig}, Put(c.key, d),
             d # NoConfig => d.id \in 1..(version + 1)
      PROVE  CacheInv'
  <2>1. version' = version + 1 /\ configs' = [configs EXCEPT ![c.key] = d]
    BY <1>6 DEF Put
  <2>2. ASSUME NEW key \in Keys, configs'[key] # NoConfig PROVE configs'[key].id \in 1..version'
    <3>1. CASE key = c.key
      BY <1>4, <1>6, <2>1, <2>2, <3>1
    <3>2. CASE key # c.key
      <4>1. configs'[key] = configs[key]
        BY <1>4, <2>1, <3>2
      <4>2. configs[key].id \in 1..version
        BY <1>1, <2>2, <4>1 DEF IdsInv
      <4> QED BY <1>4, <2>1, <4>1, <4>2
    <3> QED BY <3>1, <3>2
  <2>3. ASSUME NEW o \in Admins PROVE CallInv(o)'
    <3>1. CallInv(o)
      BY DEF CacheInv
    <3>2. ASSUME NEW id \in 1..version PROVE id \in 1..version'
      BY <1>4, <2>1
    <3> QED BY <1>3, <3>1, <3>2 DEF CallInv, Working
  <2>4. \A o \in Servers : ServerInv(o)'
    BY <1>1, <1>6, PutServers
  <2> QED BY <1>1, <2>2, <2>3, <2>4 DEF CacheInv, IdsInv
<1>7. CASE Inserts(c)
  <2>1. version + 1 \in Nat /\ version + 1 \in 1..(version + 1)
    BY <1>4
  <2> QED BY <1>6, <1>7, <2>1, DocumentType DEF Inserts
<1>8. CASE Updates(c)
  <2>1. c.old.id \in 1..version
    BY <1>1, <1>4, <1>8 DEF Updates, Found, IdsInv
  <2>2. c.old.id \in Nat /\ c.old.id \in 1..(version + 1)
    BY <1>4, <2>1
  <2> QED BY <1>6, <1>8, <2>2, DocumentType DEF Updates
<1>9. CASE Deletes(c)
  BY <1>6, <1>9 DEF Deletes
<1> QED BY <1>2, <1>5, <1>7, <1>8, <1>9
-------------------------------------------------------------------------------
(* The invariant and what follows from it, when changes are spaced.        *)

\* No server runs at the start.
LEMMA CacheInvInit == Spaced /\ Init => CacheInv
<1> SUFFICES ASSUME Spaced, Init PROVE CacheInv
  OBVIOUS
<1>1. TypeOK
  BY TypeInit
<1>2. IdsInv /\ \A a \in Admins : CallInv(a)
  BY DEF Init, NoConfigs, IdsInv, CallInv, Working
<1>3. ASSUME NEW s \in Servers PROVE ServerInv(s)
  <2>1. /\ phase[s] = "down" /\ stream[s] = Closed(NoToken) /\ cache[s] = Empty /\ version = 0
        /\ \A g \in Slots : reload[s][g] = Idle
    BY DEF Init
  <2>2. cache[s].version <= version
    BY <2>1, Snapshots
  <2> QED BY <2>1, <2>2, Streams DEF ServerInv, Pending
<1> QED BY <1>1, <1>2, <1>3 DEF CacheInv

\* Every step keeps it.
LEMMA CacheInvStep == CacheInv /\ [Next]_vars => CacheInv'
<1> SUFFICES ASSUME CacheInv, [Next]_vars PROVE CacheInv'
  OBVIOUS
<1>1. CASE Next
  BY <1>1, StartingInv, WatchingInv, FailingInv, ReloadingInv, AskingInv, WritingInv DEF Next
<1>2. CASE UNCHANGED vars
  BY <1>2 DEF vars, CacheInv, TypeOK, IdsInv, CallInv, Working, ServerInv, Pending, ToldOfAll, Fresh,
               Current
<1> QED BY <1>1, <1>2

\* So it always holds.
LEMMA CacheInvariant == Spaced /\ Spec => []CacheInv
<1> QED BY CacheInvInit, CacheInvStep, PTL DEF Spec

\* When changes leave servers time to reload, a running server that has nothing to catch
\* up with answers from what is stored, through broken streams and crashes, unless its
\* last reload failed or its stream could not be reopened after its token.
THEOREM CaughtUpServersAreFresh == Spaced /\ Spec => []CaughtUpIsFresh
<1>1. CacheInv => CaughtUpIsFresh
  BY CaughtUpHasIt DEF CaughtUpIsFresh
<1> QED BY <1>1, CacheInvariant, PTL

\* Then no copy goes back to older configurations while its server runs, however many
\* reloads overlap.
THEOREM CachesNeverGoBack == Spaced /\ Spec => CacheNeverGoesBack
<1>1. ASSUME CacheInv, Next, NEW s \in Servers, phase'[s] # "down"
      PROVE  cache'[s].version >= cache[s].version
  <2>1. /\ TypeOK /\ ServerInv(s) /\ version \in Nat /\ Current.version = version
        /\ cache[s].version \in Nat /\ cache[s].version <= version
    BY <1>1, Snapshots DEF CacheInv, TypeOK, Snapshot, ServerInv
  <2>2. cache'[s] = Current => cache'[s].version >= cache[s].version
    BY <2>1
  <2>3. cache'[s] = cache[s] => cache'[s].version >= cache[s].version
    BY <2>1
  <2>4. ASSUME NEW o \in Servers, Starting(o) PROVE cache'[s] \in {cache[s], Current}
    <3>1. ServerInv(o)
      BY <1>1 DEF CacheInv
    <3>2. CASE FirstSet(o)
      BY <2>1, <3>1, <3>2 DEF FirstSet, Enter, TypeOK, ServerInv
    <3> QED BY <2>4, <3>2 DEF Starting, Connect, RegisterStorageListener, FirstLoad
  <2>5. ASSUME NEW o \in Servers, NEW g \in Slots, Reloading(o, g)
        PROVE  cache'[s] \in {cache[s], Current}
    <3>1. ServerInv(o)
      BY <1>1 DEF CacheInv
    <3>2. CASE SetCachedConfigs(o, g)
      BY <2>1, <3>1, <3>2 DEF SetCachedConfigs, TypeOK, ServerInv
    <3>3. CASE LoadConfigs(o, g)
      BY <2>1, <3>3 DEF LoadConfigs, TypeOK
    <3> QED BY <2>5, <3>2, <3>3 DEF Reloading
  <2>6. ASSUME NEW o \in Servers, Failing(o) PROVE cache'[s] = cache[s]
    <3>1. CASE Crash(o)
      <4>1. o # s
        BY <1>1, <2>1, <3>1 DEF Crash, TypeOK
      <4> QED BY <2>1, <3>1, <4>1 DEF Crash, TypeOK
    <3> QED BY <2>6, <3>1 DEF Failing, StreamBreaks, OpenFails, LoadFails
  <2>7. ASSUME NEW o \in Servers, NEW a \in Admins, Watching(o) \/ Asking(a, o) \/ Write(a)
        PROVE  cache' = cache
    <3>1. CASE Watching(o)
      BY <3>1 DEF Watching, OpenStream, NextChange
    <3>2. CASE Asking(a, o)
      <4>1. PICK key \in Keys, bySystem \in BOOLEAN :
              \/ \E new \in Content : \/ CreateConfig(a, o, key, new, bySystem)
                                      \/ UpdateConfig(a, o, key, new, bySystem)
              \/ DeleteConfig(a, o, key, bySystem)
        BY <3>2 DEF Asking
      <4> QED BY <4>1 DEF CreateConfig, UpdateConfig, DeleteConfig, Proceed
    <3>3. CASE Write(a)
      BY <3>3 DEF Write
    <3> QED BY <2>7, <3>1, <3>2, <3>3
  <2>8. ASSUME NEW o \in Servers, Watching(o) PROVE cache' = cache
    BY <2>8 DEF Watching, OpenStream, NextChange
  <2> QED BY <1>1, <2>2, <2>3, <2>4, <2>5, <2>6, <2>7, <2>8 DEF Next
<1>2. CacheInv /\ [Next]_vars =>
        [\A s \in Servers : phase'[s] # "down" => cache'[s].version >= cache[s].version]_vars
  BY <1>1
<1> QED BY <1>2, CacheInvariant, PTL DEF Spec, CacheNeverGoesBack

-------------------------------------------------------------------------------
(* Admin calls.                                                            *)

\* A step that is no write changes no configuration, and ends a call with an error only.
LEMMA OnlyWritesChange ==
  ASSUME TypeOK, Next, ~ \E a \in Admins : Write(a)
  PROVE  /\ configs' = configs
         /\ \A a \in Admins : Working(a) => admin'[a] \in {admin[a], Failed}
<1>1. ASSUME NEW s \in Servers, Starting(s) \/ Watching(s)
      PROVE  UNCHANGED <<configs, admin>>
  BY <1>1 DEF Starting, Connect, RegisterStorageListener, FirstLoad, FirstSet, Watching,
              OpenStream, NextChange
<1>2. ASSUME NEW s \in Servers, NEW g \in Slots, Reloading(s, g) PROVE UNCHANGED <<configs, admin>>
  BY <1>2 DEF Reloading, LoadConfigs, SetCachedConfigs
<1>3. ASSUME NEW s \in Servers, Failing(s)
      PROVE  configs' = configs /\ \A a \in Admins : admin'[a] \in {admin[a], Failed}
  BY <1>3 DEF Failing, Crash, StreamBreaks, OpenFails, LoadFails
<1>4. ASSUME NEW s \in Servers, NEW a \in Admins, Asking(a, s)
      PROVE  configs' = configs /\ ~Working(a) /\ \A o \in Admins \ {a} : admin'[o] = admin[o]
  <2>1. PICK key \in Keys, bySystem \in BOOLEAN :
          \/ \E new \in Content : \/ CreateConfig(a, s, key, new, bySystem)
                                  \/ UpdateConfig(a, s, key, new, bySystem)
          \/ DeleteConfig(a, s, key, bySystem)
    BY <1>4 DEF Asking
  <2> QED BY <2>1 DEF CreateConfig, UpdateConfig, DeleteConfig, Proceed, TypeOK
<1> QED BY <1>1, <1>2, <1>3, <1>4 DEF Next

\* A reported success is that of a write.
LEMMA ReportStep ==
  ASSUME CacheInv, Next, NEW a \in Admins, NEW c \in {admin[a]}, Working(a), admin'[a] = Done
  PROVE  HasDone(c, configs'[c.key])
<1>1. TypeOK /\ CallInv(a) /\ Done # Failed /\ admin[a] # Done
  BY CacheAssumption DEF CacheInv, Working
<1>2. PICK b \in Admins : Write(b)
  BY <1>1, OnlyWritesChange
<1>3. PICK result \in {Done, Failed} :
        /\ admin' = [admin EXCEPT ![b] = result]
        /\ \/ Inserts(admin[b]) \/ Updates(admin[b]) \/ Deletes(admin[b])
           \/ /\ UNCHANGED <<configs, version>>
              /\ result = Done =>
                   admin[b].old # NoConfig /\ ~Found(configs[admin[b].key], admin[b].old)
  BY <1>1, <1>2, WriteCases
<1>4. a = b /\ result = Done
  BY <1>1, <1>3 DEF TypeOK
<1>5. c \in Call /\ c.was = c.old /\ NoConfig \notin Content \cup Config
  BY <1>1, <1>2, <1>4, WriteCases, CacheAssumption DEF CallInv
<1>6. c.key \in Keys /\ configs \in [Keys -> Config \cup {NoConfig}] /\ version + 1 \in Nat
  BY <1>1, <1>5, Snapshots DEF Call, TypeOK
<1>7. CASE Inserts(c)
  <2>1. configs'[c.key] = Document(version + 1, c.new) /\ c.old = NoConfig
    BY <1>6, <1>7 DEF Inserts, Put
  <2>2. Document(version + 1, c.new) # NoConfig /\ Document(version + 1, c.new).id = version + 1
    BY <1>5, <1>6, <1>7, DocumentType DEF Inserts
  <2> QED BY <2>1, <2>2 DEF HasDone
<1>8. CASE Updates(c)
  <2>1. configs'[c.key] = Document(c.old.id, c.new) /\ c.old # NoConfig /\ c.new # NoConfig
    BY <1>5, <1>6, <1>8 DEF Updates, Put
  <2>2. c.old.id \in Nat
    BY <1>5, <1>8 DEF Call, Config, Updates
  <2>3. Document(c.old.id, c.new).id = c.old.id
    BY <1>8, <2>2, DocumentType DEF Updates
  <2> QED BY <1>5, <2>1, <2>3 DEF HasDone
<1>9. CASE Deletes(c)
  BY <1>5, <1>6, <1>9 DEF Deletes, Put, HasDone, Kept
<1>10. CASE c.old # NoConfig /\ ~Found(configs[c.key], c.old) /\ configs' = configs
  BY <1>5, <1>10 DEF HasDone, Kept, Found
<1> QED BY <1>3, <1>4, <1>7, <1>8, <1>9, <1>10

\* With any number of calls at work, on any servers, a success reported without effect is
\* that of an update whose document was deleted after the call had come.
THEOREM ReportsAreDone == Spaced /\ Spec => ReportedDone
<1>1. CacheInv /\ [Next]_vars =>
        [\A a \in Admins : \A c \in {admin[a]} :
           Working(a) /\ admin'[a] = Done => HasDone(c, configs'[c.key])]_vars
  BY ReportStep
<1> QED BY <1>1, CacheInvariant, PTL DEF Spec, ReportedDone

\* A change of a stored document is the write of a call for its key that found it.
LEMMA ChangeStep ==
  ASSUME TypeOK, Next, NEW key \in Keys, Changed(key)
  PROVE  \E a \in Admins :
           /\ Write(a) /\ Working(a) /\ admin'[a] # admin[a] /\ admin[a].key = key
           /\ admin[a].old # NoConfig /\ Found(configs[key], admin[a].old)
<1>1. PICK a \in Admins : Write(a)
  BY OnlyWritesChange DEF Changed
<1>2. PICK result \in {Done, Failed} :
        /\ admin' = [admin EXCEPT ![a] = result]
        /\ \/ Inserts(admin[a]) \/ Updates(admin[a]) \/ Deletes(admin[a])
           \/ UNCHANGED <<configs, version>>
  BY <1>1, WriteCases
<1>3. Working(a) /\ admin'[a] # admin[a]
  BY <1>1, <1>2, WriteCases DEF Working, TypeOK
<1>4. admin[a].key = key /\ ~Inserts(admin[a])
  BY <1>2 DEF Changed, Inserts, Updates, Deletes, Put, TypeOK
<1>5. admin[a].old # NoConfig /\ Found(configs[key], admin[a].old)
  BY <1>2, <1>4 DEF Changed, Updates, Deletes
<1> QED BY <1>1, <1>3, <1>4, <1>5

\* A configuration is changed or deleted only for one who was allowed to when the call
\* came, though others may write between its look and its write.
THEOREM ChangesAreEntitled == Spaced /\ Spec => ChangedByEntitled
<1>1. ASSUME CacheInv, Next, NEW key \in Keys, Changed(key)
      PROVE  \E a \in Admins :
               /\ Working(a) /\ admin'[a] # admin[a] /\ admin[a].key = key
               /\ Kept(configs[key], admin[a].was) /\ (admin[a].was.system => admin[a].bySystem)
  <2>1. TypeOK
    BY <1>1 DEF CacheInv
  <2>2. PICK a \in Admins :
          /\ Working(a) /\ admin'[a] # admin[a] /\ admin[a].key = key
          /\ admin[a].old # NoConfig /\ Found(configs[key], admin[a].old)
    BY <1>1, <2>1, ChangeStep
  <2>3. admin[a].was = admin[a].old /\ (admin[a].old.system => admin[a].bySystem)
    BY <1>1, <2>2 DEF CacheInv, CallInv
  <2> QED BY <2>2, <2>3 DEF Kept, Found
<1>2. CacheInv /\ [Next]_vars =>
        [\A key \in Keys : Changed(key) =>
           \E a \in Admins :
             /\ Working(a) /\ admin'[a] # admin[a] /\ admin[a].key = key
             /\ Kept(configs[key], admin[a].was) /\ (admin[a].was.system => admin[a].bySystem)]_vars
  BY <1>1
<1> QED BY <1>2, CacheInvariant, PTL DEF Spec, ChangedByEntitled

\* What applies to all organisations is a system configuration, in every copy and in what
\* calls at work are to store, whose callers are system admins.
Systemic(documents) ==
  \A key \in AllOrgsKeys : documents[key] # NoConfig => documents[key].system

AllOrgsServer(s) ==
  /\ Systemic(cache[s].configs) /\ Systemic(first[s].configs)
  /\ \A g \in Slots : reload[s][g] \notin {Idle, Spawned} => Systemic(reload[s][g].configs)

AllOrgsCall(a) ==
  Working(a) /\ admin[a].key \in AllOrgsKeys =>
    admin[a].bySystem /\ (admin[a].new # NoConfig => admin[a].new.system)

AllOrgsInv ==
  /\ TypeOK /\ Systemic(configs)
  /\ \A s \in Servers : AllOrgsServer(s)
  /\ \A a \in Admins : AllOrgsCall(a)

\* Servers only copy what is stored, or what they have loaded before.
LEMMA AllOrgsServers ==
  ASSUME AllOrgsInv, NEW s \in Servers,
         Starting(s) \/ Watching(s) \/ Failing(s) \/ \E g \in Slots : Reloading(s, g)
  PROVE  AllOrgsInv'
<1>1. TypeOK /\ TypeOK' /\ Systemic(configs) /\ AllOrgsServer(s)
  BY TypeServer DEF AllOrgsInv
<1>2. Systemic(Current.configs) /\ Systemic(Empty.configs)
  BY <1>1, CacheAssumption DEF Current, Empty, NoConfigs, Systemic
<1>3. configs' = configs /\ \A a \in Admins : admin'[a] \in {admin[a], Failed}
  <2>1. CASE Starting(s) \/ Watching(s)
    BY <2>1 DEF Starting, Connect, RegisterStorageListener, FirstLoad, FirstSet, Watching,
                OpenStream, NextChange
  <2>2. CASE Failing(s)
    BY <2>2 DEF Failing, Crash, StreamBreaks, OpenFails, LoadFails
  <2>3. CASE \E g \in Slots : Reloading(s, g)
    BY <2>3 DEF Reloading, LoadConfigs, SetCachedConfigs
  <2> QED BY <2>1, <2>2, <2>3
<1>4. ASSUME NEW o \in Servers PROVE AllOrgsServer(o)'
  <2>1. AllOrgsServer(o)
    BY DEF AllOrgsInv
  <2>2. CASE Starting(s)
    <3>1. reload' = reload /\ first'[o] \in {first[o], Current} /\ cache'[o] \in {cache[o], first[o]}
      BY <1>1, <2>2 DEF Starting, Connect, RegisterStorageListener, FirstLoad, FirstSet, TypeOK
    <3> QED BY <1>2, <2>1, <3>1 DEF AllOrgsServer
  <2>3. CASE Watching(s)
    <3>1. cache' = cache /\ first' = first
      BY <2>3 DEF Watching, OpenStream, NextChange
    <3>2. \A g \in Slots : reload'[o][g] \in {reload[o][g], Spawned}
      BY <1>1, <2>3 DEF Watching, OpenStream, NextChange, TypeOK
    <3> QED BY <2>1, <3>1, <3>2 DEF AllOrgsServer
  <2>4. CASE Failing(s)
    <3>1. cache'[o] \in {cache[o], Empty} /\ first'[o] \in {first[o], Empty}
      BY <1>1, <2>4 DEF Failing, Crash, StreamBreaks, OpenFails, LoadFails, TypeOK
    <3>2. \A g \in Slots : reload'[o][g] \in {reload[o][g], Idle}
      BY <1>1, <2>4 DEF Failing, Crash, StreamBreaks, OpenFails, LoadFails, TypeOK
    <3> QED BY <1>2, <2>1, <3>1, <3>2 DEF AllOrgsServer
  <2>5. ASSUME NEW g \in Slots, LoadConfigs(s, g) PROVE AllOrgsServer(o)'
    <3>1. first' = first /\ cache' = cache
      BY <1>1, <2>5 DEF LoadConfigs, TypeOK
    <3>2. \A h \in Slots : reload'[o][h] \in {reload[o][h], Current}
      BY <1>1, <2>5 DEF LoadConfigs, TypeOK
    <3> QED BY <1>2, <2>1, <3>1, <3>2 DEF AllOrgsServer
  <2>6. ASSUME NEW g \in Slots, SetCachedConfigs(s, g) PROVE AllOrgsServer(o)'
    <3>1. /\ first' = first /\ reload[s][g] \notin {Idle, Spawned}
          /\ cache'[o] = cache[o] \/ (o = s /\ cache'[o] = reload[s][g])
      BY <1>1, <2>6 DEF SetCachedConfigs, TypeOK
    <3>2. \A h \in Slots : reload'[o][h] \in {reload[o][h], Idle}
      BY <1>1, <2>6 DEF SetCachedConfigs, TypeOK
    <3> QED BY <1>1, <2>1, <3>1, <3>2 DEF AllOrgsServer
  <2> QED BY <2>2, <2>3, <2>4, <2>5, <2>6 DEF Reloading
<1>5. ASSUME NEW a \in Admins PROVE AllOrgsCall(a)'
  <2>1. AllOrgsCall(a)
    BY DEF AllOrgsInv
  <2> QED BY <1>3, <2>1 DEF AllOrgsCall, Working
<1> QED BY <1>1, <1>3, <1>4, <1>5 DEF AllOrgsInv

\* A call that comes is of a system admin, whether it is let pass by the copy or by the rule.
LEMMA AllOrgsAsking ==
  ASSUME AllOrgsInv, NEW a \in Admins, NEW s \in Servers, Asking(a, s) PROVE AllOrgsInv'
<1>1. TypeOK /\ TypeOK' /\ AllOrgsServer(s)
  BY TypeAsk DEF AllOrgsInv
<1>2. PICK key \in Keys, bySystem \in BOOLEAN :
        \/ \E new \in Content : \/ CreateConfig(a, s, key, new, bySystem)
                                \/ UpdateConfig(a, s, key, new, bySystem)
        \/ DeleteConfig(a, s, key, bySystem)
  BY DEF Asking
<1>3. PICK new, old :
        /\ Proceed(a, s, key, new, old, bySystem)
        /\ key \in AllOrgsKeys => bySystem /\ (new # NoConfig => new.system)
  <2>1. ASSUME NEW new \in Content, CreateConfig(a, s, key, new, bySystem)
        PROVE  /\ Proceed(a, s, key, new, NoConfig, bySystem)
               /\ key \in AllOrgsKeys => bySystem /\ new.system
    BY <2>1 DEF CreateConfig, AllOrgsRule, MayCreate, CanAccess
  <2>2. ASSUME NEW new \in Content, UpdateConfig(a, s, key, new, bySystem)
        PROVE  /\ Proceed(a, s, key, new, Cached(s, key), bySystem)
               /\ key \in AllOrgsKeys => bySystem /\ new.system
    BY <2>2 DEF UpdateConfig, AllOrgsRule, MayUpdate, CanAccess
  <2>3. ASSUME DeleteConfig(a, s, key, bySystem)
        PROVE  /\ Proceed(a, s, key, NoConfig, Cached(s, key), bySystem)
               /\ key \in AllOrgsKeys => bySystem
    BY <1>1, <2>3 DEF DeleteConfig, CanAccess, Cached, AllOrgsServer, Systemic
  <2> QED BY <1>2, <2>1, <2>2, <2>3
<1>4. UNCHANGED <<configs, first, reload, cache>>
  BY <1>3 DEF Proceed
<1>5. ASSUME NEW o \in Admins PROVE AllOrgsCall(o)'
  <2>1. AllOrgsCall(o)
    BY DEF AllOrgsInv
  <2>2. CASE o = a
    BY <1>1, <1>3, <2>2 DEF Proceed, TypeOK, AllOrgsCall
  <2>3. CASE o # a
    BY <1>1, <1>3, <2>1, <2>3 DEF Proceed, TypeOK, AllOrgsCall, Working
  <2> QED BY <2>2, <2>3
<1>6. ASSUME NEW o \in Servers PROVE AllOrgsServer(o)'
  <2>1. AllOrgsServer(o)
    BY DEF AllOrgsInv
  <2> QED BY <1>4, <2>1 DEF AllOrgsServer
<1> QED BY <1>1, <1>4, <1>5, <1>6 DEF AllOrgsInv

\* It stores nothing else.
LEMMA AllOrgsWrite ==
  ASSUME AllOrgsInv, NEW a \in Admins, Write(a) PROVE AllOrgsInv'
<1> DEFINE c == admin[a]
<1>1. /\ TypeOK /\ TypeOK' /\ AllOrgsCall(a) /\ Working(a) /\ c \in Call
      /\ UNCHANGED <<first, reload, cache>>
  BY TypeWrite, WriteCases DEF AllOrgsInv
<1>2. Inserts(c) \/ Updates(c) \/ Deletes(c) \/ UNCHANGED <<configs, version>>
  BY <1>1, WriteCases
<1>3. \A o \in Admins : admin'[o] \in {admin[o], Done, Failed}
  BY <1>1, WriteCases DEF TypeOK
<1>4. c.key \in AllOrgsKeys => (c.new # NoConfig => c.new.system)
  BY <1>1 DEF AllOrgsCall
<1>5. NoConfig \notin Content /\ configs \in [Keys -> Config \cup {NoConfig}]
      /\ AllOrgsKeys \subseteq Keys /\ Systemic(configs)
  BY <1>1, CacheAssumption DEF TypeOK, AllOrgsInv
<1> HIDE DEF c
<1>6. ASSUME NEW d, Put(c.key, d), c.key \in AllOrgsKeys /\ d # NoConfig => d.system
      PROVE  Systemic(configs')
  BY <1>5, <1>6 DEF Put, Systemic
<1>7. ASSUME NEW id, c.new \in Content PROVE Document(id, c.new).system = c.new.system
  BY DEF Document
<1>8. Systemic(configs')
  <2>1. CASE Inserts(c)
    BY <1>4, <1>5, <1>6, <1>7, <2>1 DEF Inserts
  <2>2. CASE Updates(c)
    BY <1>4, <1>5, <1>6, <1>7, <2>2 DEF Updates
  <2>3. CASE Deletes(c)
    BY <1>6, <2>3 DEF Deletes
  <2> QED BY <1>2, <1>5, <2>1, <2>2, <2>3
<1>9. ASSUME NEW o \in Admins PROVE AllOrgsCall(o)'
  <2>1. AllOrgsCall(o)
    BY DEF AllOrgsInv
  <2> QED BY <1>3, <2>1 DEF AllOrgsCall, Working
<1>10. ASSUME NEW o \in Servers PROVE AllOrgsServer(o)'
  <2>1. AllOrgsServer(o)
    BY DEF AllOrgsInv
  <2> QED BY <1>1, <2>1 DEF AllOrgsServer
<1> QED BY <1>1, <1>8, <1>9, <1>10 DEF AllOrgsInv, Systemic

\* Whether or not changes are spaced, and however old the copies, configurations for all
\* organisations are changed and deleted by system admins only.
THEOREM AllOrgsAreKept == Spec => AllOrgsKept
<1>1. Init => AllOrgsInv
  <2> SUFFICES ASSUME Init PROVE AllOrgsInv
    OBVIOUS
  <2>1. Systemic(configs) /\ Systemic(Empty.configs)
    BY CacheAssumption DEF Init, Empty, NoConfigs, Systemic
  <2>2. \A s \in Servers : AllOrgsServer(s)
    BY <2>1 DEF Init, AllOrgsServer
  <2>3. \A a \in Admins : AllOrgsCall(a)
    BY DEF Init, AllOrgsCall, Working
  <2> QED BY <2>1, <2>2, <2>3, TypeInit DEF AllOrgsInv
<1>2. AllOrgsInv /\ [Next]_vars => AllOrgsInv'
  <2>1. CASE AllOrgsInv /\ UNCHANGED vars
    BY <2>1 DEF vars, AllOrgsInv, TypeOK, Systemic, AllOrgsServer, AllOrgsCall, Working
  <2> QED BY <2>1, AllOrgsServers, AllOrgsAsking, AllOrgsWrite DEF Next
<1>3. ASSUME AllOrgsInv, Next, NEW key \in AllOrgsKeys, Changed(key) PROVE BySystemAdmin(key)
  <2>1. TypeOK /\ key \in Keys
    BY <1>3, CacheAssumption DEF AllOrgsInv
  <2>2. PICK a \in Admins : Working(a) /\ admin'[a] # admin[a] /\ admin[a].key = key
    BY <1>3, <2>1, ChangeStep
  <2>3. admin[a].bySystem
    BY <1>3, <2>2 DEF AllOrgsInv, AllOrgsCall
  <2> QED BY <2>2, <2>3 DEF BySystemAdmin
<1>4. AllOrgsInv /\ [Next]_vars => [\A key \in AllOrgsKeys : Changed(key) => BySystemAdmin(key)]_vars
  BY <1>3
<1> QED BY <1>1, <1>2, <1>4, PTL DEF Spec, AllOrgsKept
-------------------------------------------------------------------------------
(* The refinement of ConfigStore, when changes are spaced.                 *)

\* What the store has of the servers' copies and of the handlers.
Copies == [s \in Servers |-> cache[s].configs]
Calls  == [a \in Admins |-> IF Working(a) THEN Seen(admin[a]) ELSE admin[a]]

\* A call is at work for the store as long as its handler is.
LEMMA AtWorkIsWorking ==
  ASSUME TypeOK, NEW a \in Admins
  PROVE  /\ Store!AtWork(a) <=> Working(a)
         /\ Working(a) => Calls[a] = Seen(admin[a])
         /\ ~Working(a) => Calls[a] = admin[a]
<1>1. Working(a) => admin[a] \in Call
  BY DEF TypeOK, Working
<1>2. ASSUME NEW call \in Call PROVE Seen(call) \notin {Done, Failed}
  <2>1. Seen(call) \in SeenCall
    BY DEF Call, Seen, SeenCall
  <2> QED BY <2>1, CacheAssumption
<1> QED BY <1>1, <1>2 DEF Store!AtWork, Calls, Working

\* The end of a call.
LEMMA EndOfCall ==
  ASSUME TypeOK, NEW a \in Admins, NEW result \in {Done, Failed},
         admin' = [admin EXCEPT ![a] = result]
  PROVE  Calls' = [Calls EXCEPT ![a] = result]
<1>1. \A o \in Admins : admin'[o] = IF o = a THEN result ELSE admin[o]
  BY DEF TypeOK
<1>2. Calls' = [o \in Admins |-> IF o = a THEN result ELSE Calls[o]]
  BY <1>1 DEF Calls, Working
<1>3. Calls = [o \in Admins |-> Calls[o]]
  BY DEF Calls
<1> HIDE DEF Calls
<1> QED BY <1>2, <1>3

\* Loads, streams and failed calls change nothing that the store shows; a copy that is
\* set is what is stored, though it has been loaded before; a server that goes down takes
\* its copy and its calls with it.
LEMMA ServerRefines ==
  ASSUME CacheInv, NEW s \in Servers,
         Starting(s) \/ Watching(s) \/ Failing(s) \/ \E g \in Slots : Reloading(s, g)
  PROVE  Store!Next \/ UNCHANGED <<configs, cache, admin>>
<1>1. TypeOK /\ ServerInv(s)
  BY DEF CacheInv
<1>2. ASSUME cache' = [cache EXCEPT ![s] = Current], UNCHANGED <<configs, admin>>
      PROVE  Store!Next
  <2>1. Copies' = [Copies EXCEPT ![s] = configs]
    <3>1. \A o \in Servers : cache'[o] = IF o = s THEN Current ELSE cache[o]
      BY <1>1, <1>2 DEF TypeOK
    <3>2. Copies' = [o \in Servers |-> IF o = s THEN configs ELSE Copies[o]]
      BY <3>1 DEF Copies, Current
    <3> QED BY <3>2 DEF Copies
  <2>2. Calls' = Calls
    BY <1>2 DEF Calls, Working
  <2>3. Store!Copy(s)
    BY <1>2, <2>1, <2>2 DEF Store!Copy, Copies, Calls
  <2> QED BY <2>3 DEF Store!Next
<1>3. CASE Starting(s)
  <2>1. CASE FirstSet(s)
    <3>1. first[s] = Current
      BY <1>1, <2>1 DEF FirstSet, Enter, ServerInv
    <3> QED BY <1>2, <2>1, <3>1 DEF FirstSet
  <2> QED BY <1>3, <2>1 DEF Starting, Connect, RegisterStorageListener, FirstLoad
<1>4. CASE Watching(s)
  BY <1>4 DEF Watching, OpenStream, NextChange
<1>5. CASE Crash(s)
  <2>1. PICK lost : lost = {a \in Admins : Working(a) /\ admin[a].server = s}
    OBVIOUS
  <2>2. Copies' = [Copies EXCEPT ![s] = Store!Nothing]
    <3>1. \A o \in Servers : cache'[o] = IF o = s THEN Empty ELSE cache[o]
      BY <1>1, <1>5 DEF Crash, TypeOK
    <3>2. Copies' = [o \in Servers |-> IF o = s THEN Store!Nothing ELSE Copies[o]]
      BY <3>1 DEF Copies, Empty, NoConfigs, Store!Nothing
    <3> QED BY <3>2 DEF Copies
  <2>3. Calls' = [a \in Admins |-> IF a \in lost THEN Failed ELSE Calls[a]]
    <3>1. \A a \in Admins : admin'[a] = IF a \in lost THEN Failed ELSE admin[a]
      BY <1>5, <2>1 DEF Crash
    <3> QED BY <3>1 DEF Calls, Working
  <2>4. lost \in SUBSET {a \in Admins : Store!AtWork(a)}
    BY <1>1, <2>1, AtWorkIsWorking
  <2>5. configs' = configs
    BY <1>5 DEF Crash
  <2>6. Store!Lose(s, lost)
    BY <2>2, <2>3, <2>5 DEF Store!Lose, Copies, Calls
  <2> QED BY <2>4, <2>6 DEF Store!Next
<1>6. CASE Failing(s) /\ ~Crash(s)
  BY <1>6 DEF Failing, StreamBreaks, OpenFails, LoadFails
<1>7. ASSUME NEW g \in Slots, Reloading(s, g)
      PROVE  Store!Next \/ UNCHANGED <<configs, cache, admin>>
  <2>1. CASE LoadConfigs(s, g)
    BY <1>1, <2>1 DEF LoadConfigs, TypeOK
  <2>2. CASE SetCachedConfigs(s, g)
    <3>1. reload[s][g] = Current
      BY <1>1, <2>2 DEF SetCachedConfigs, ServerInv
    <3> QED BY <1>2, <2>2, <3>1 DEF SetCachedConfigs
  <2> QED BY <1>7, <2>1, <2>2 DEF Reloading
<1> QED BY <1>3, <1>4, <1>5, <1>6, <1>7

\* A look at a copy is one at the store.
LEMMA AskRefines ==
  ASSUME CacheInv, NEW a \in Admins, NEW s \in Servers, Asking(a, s)
  PROVE  Store!Next
<1>1. PICK key \in Keys, new \in Content \cup {NoConfig}, bySystem \in BOOLEAN :
           \E old \in {NoConfig, configs[key]} :
             /\ Proceed(a, s, key, new, old, bySystem)
             /\ old # NoConfig \/ new # NoConfig
             /\ old # NoConfig => (old.system => bySystem)
             /\ new # NoConfig => (new.system => bySystem)
  BY LooksAtStored
<1>2. PICK old \in {NoConfig, configs[key]} :
             /\ Proceed(a, s, key, new, old, bySystem)
             /\ old # NoConfig \/ new # NoConfig
             /\ Store!Allowed(old, bySystem) /\ Store!Allowed(new, bySystem)
  BY <1>1 DEF Store!Allowed
<1>3. TypeOK /\ TypeOK'
  BY TypeAsk DEF CacheInv
<1> DEFINE call == [server |-> s, bySystem |-> bySystem, key |-> key, new |-> new, old |-> old,
                    was |-> IF old = NoConfig THEN NoConfig ELSE configs[key]]
<1>4. /\ ~Working(a) /\ admin' = [admin EXCEPT ![a] = call] /\ UNCHANGED <<configs, cache>>
      /\ Seen(call) = [bySystem |-> bySystem, key |-> key, new |-> new, judged |-> old]
  BY <1>2 DEF Proceed, Seen
<1>5. call \notin {Done, Failed}
  <2>1. call \in Call
    BY <1>2, <1>3 DEF Call, TypeOK
  <2> QED BY <2>1, CacheAssumption
<1> HIDE DEF call
<1>6. Calls' = [Calls EXCEPT ![a] = Seen(call)]
  <2>1. \A o \in Admins : admin'[o] = IF o = a THEN call ELSE admin[o]
    BY <1>3, <1>4 DEF TypeOK
  <2> QED BY <1>5, <2>1 DEF Calls, Working
<1>7. Copies' = Copies
  BY <1>4 DEF Copies
<1>8. Store!Ask(a, key, new, bySystem)
  BY <1>2, <1>3, <1>4, <1>6, <1>7, AtWorkIsWorking DEF Store!Ask, Copies, Calls
<1>9. new \in Store!Content \cup {NoConfig}
  BY DEF Store!Content, Content
<1> QED BY <1>8, <1>9 DEF Store!Next

\* A write is that of the store's call: the id is fresh, or that of the judged document.
LEMMA WriteRefines ==
  ASSUME CacheInv, NEW a \in Admins, Write(a)
  PROVE  Store!Next
<1> DEFINE c == admin[a]
           seen == Seen(c)
<1>1. /\ TypeOK /\ IdsInv /\ Working(a) /\ c \in Call /\ cache' = cache
  BY WriteCases DEF CacheInv
<1>2. PICK result \in {Done, Failed} :
         /\ admin' = [admin EXCEPT ![a] = result]
         /\ \/ Inserts(c) \/ Updates(c) \/ Deletes(c)
            \/ /\ UNCHANGED <<configs, version>>
               /\ result = Done => c.old # NoConfig /\ ~Found(configs[c.key], c.old)
  BY <1>1, WriteCases
<1>3. Store!AtWork(a) /\ Calls[a] = seen
  BY <1>1, AtWorkIsWorking
<1>4. Calls' = [Calls EXCEPT ![a] = result] /\ Copies' = Copies
  BY <1>1, <1>2, EndOfCall DEF Copies
<1>5. seen.key = c.key /\ seen.new = c.new /\ seen.judged = c.old /\ NoConfig \notin Content
  BY CacheAssumption DEF Seen
<1>6. Store!Stands(seen) <=> c.old # NoConfig /\ Found(configs[c.key], c.old)
  BY <1>5 DEF Store!Stands, Found
<1> HIDE DEF c, seen
<1>7. \/ /\ seen.judged = NoConfig /\ configs[seen.key] = NoConfig
         /\ \E id \in 1..MaxVersion : Store!FreshId(id) /\ Store!Put(seen, id)
      \/ Store!Stands(seen) /\ Store!Put(seen, seen.judged.id)
      \/ /\ result = Done => seen.judged # NoConfig /\ ~Store!Stands(seen)
         /\ UNCHANGED configs
  <2>1. CASE Inserts(c)
    <3>1. version + 1 \in 1..MaxVersion /\ version \in Nat
      BY <1>1, <2>1, Snapshots, CacheAssumption DEF Inserts, Put
    <3>2. ASSUME NEW id \in 1..version PROVE id # version + 1
      BY <3>1
    <3>3. ASSUME NEW o \in Admins, Store!AtWork(o), Calls[o].judged # NoConfig
          PROVE  Calls[o].judged.id \in 1..version
      <4>1. Working(o) /\ Calls[o].judged = admin[o].old
        <5>1. Working(o)
          BY <1>1, <3>3, AtWorkIsWorking
        <5>2. Calls[o] = Seen(admin[o])
          BY <1>1, <5>1, AtWorkIsWorking
        <5> QED BY <5>1, <5>2 DEF Seen
      <4> QED BY <3>3, <4>1 DEF CacheInv, CallInv
    <3>4. Store!FreshId(version + 1)
      BY <1>1, <3>2, <3>3 DEF Store!FreshId, IdsInv, Calls
    <3>5. Store!Put(seen, version + 1)
      BY <1>5, <2>1 DEF Inserts, Put, Store!Put, Document
    <3> QED BY <1>5, <2>1, <3>1, <3>4, <3>5 DEF Inserts
  <2>2. CASE Updates(c)
    <3>1. Store!Put(seen, seen.judged.id)
      BY <1>5, <2>2 DEF Updates, Put, Store!Put, Document
    <3> QED BY <1>6, <2>2, <3>1 DEF Updates
  <2>3. CASE Deletes(c)
    <3>1. Store!Put(seen, seen.judged.id)
      BY <1>5, <2>3 DEF Deletes, Put, Store!Put
    <3> QED BY <1>6, <2>3, <3>1 DEF Deletes
  <2>4. CASE /\ UNCHANGED <<configs, version>>
             /\ result = Done => c.old # NoConfig /\ ~Found(configs[c.key], c.old)
    BY <1>5, <1>6, <2>4
  <2> QED BY <1>2, <2>1, <2>2, <2>3, <2>4
<1>8. Store!Finish(a, result)
  BY <1>3, <1>4, <1>7 DEF Store!Finish, Copies, Calls
<1> QED BY <1>8 DEF Store!Next

\* Every step is a step of the store, or shows nothing of itself.
LEMMA StoreStep ==
  CacheInv /\ [Next]_vars =>
    [Store!Next]_<<configs, [s \in Servers |-> cache[s].configs],
                   [a \in Admins |-> IF Working(a) THEN Seen(admin[a]) ELSE admin[a]]>>
<1> SUFFICES ASSUME CacheInv, [Next]_vars
             PROVE  Store!Next \/ UNCHANGED <<configs, Copies, Calls>>
  BY DEF Copies, Calls
<1>1. CASE UNCHANGED <<configs, cache, admin>>
  BY <1>1 DEF Copies, Calls, Working
<1>2. CASE UNCHANGED vars
  BY <1>1, <1>2 DEF vars
<1> QED BY <1>1, <1>2, ServerRefines, AskRefines, WriteRefines DEF Next

\* When changes leave servers time to reload, handlers that look at a copy and write later,
\* while others write, and servers that load and set their copies in steps of many
\* goroutines, implement a store that judges each call by what is stored when it comes, and
\* lets it write the document it was judged by and no other.
THEOREM CacheActsAsStore == Spaced /\ Spec => ActsAsStore
<1>1. Init => Store!Init
  BY DEF Init, Store!Init, Store!Nothing, NoConfigs, Empty, Working
<1> QED BY <1>1, StoreStep, CacheInvariant, PTL DEF Spec, ActsAsStore, Store!Spec, Store!vars
===============================================================================
