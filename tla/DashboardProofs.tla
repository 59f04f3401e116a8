-------------------------- MODULE DashboardProofs --------------------------
(***************************************************************************)
(* Proofs about what the dashboard shows and changes, for any set of       *)
(* queues, limits, clients, names, schedules, jobs, page sizes and         *)
(* processes.                                                              *)
(*                                                                         *)
(* The settings: every configuration a worker would run with is written    *)
(* as a function of the stored hash alone (Meant), and every reading that  *)
(* the code makes of the hash (the runtime's, the status column's, the     *)
(* effective values') is shown to be that function.  What is left of a     *)
(* step is how it changes the hash, and what a client that read before     *)
(* it wrote still knows of it (ClientSound).                               *)
(*                                                                         *)
(* The registry: aliases lead to registered jobs and schedules to          *)
(* registered queues (NamesLead); what was listed in a catalog or          *)
(* submitted from it stays known, because registrations are never undone.  *)
(*                                                                         *)
(* The pages: a job is in one place (Apart), one that stays is found       *)
(* (JobKept), a walk never has unseen staying jobs left of it (WalkKept),  *)
(* and a page of a still list is that page (PageKept).                     *)
(*                                                                         *)
(* The overview: a record is its process's score unless a heartbeat is     *)
(* half written (BeatsKept), so what is read in the order of the scores is *)
(* in the order of the records (BeatsSorted); what was read so far is      *)
(* sound and complete against the claims of the whole reading (ReadKept).  *)
(***************************************************************************)
EXTENDS MCDashboard, FiniteSetTheorems, TLAPS

-----------------------------------------------------------------------------
(* The settings.                                                           *)

BaseQueue(q) == IF q \in ConfigChildren THEN ConfigBase ELSE q

(* What the assumption says of the queues and the limits.                  *)
LEMMA SettingsConstants ==
    /\ \A q \in ConfigQueues : BaseQueue(q) \in ConfigQueues /\ BaseQueue(BaseQueue(q)) = BaseQueue(q)
    /\ Limits \subseteq Nat \ {0}
    /\ ConfigQueues # {} => DefaultLimit \in Nat \ {0}
    /\ Unset \notin Nat /\ Unset \notin ConfigQueues /\ Unset \notin Settings!Config
    /\ MaxOps \in Nat
<1>1. /\ \A q \in ConfigQueues : BaseQueue(q) \in ConfigQueues
      /\ Limits \subseteq Nat \ {0}
      /\ ConfigQueues # {} => DefaultLimit \in Nat \ {0}
      /\ Unset \notin Nat /\ Unset \notin ConfigQueues /\ Unset \notin Settings!Config
      /\ MaxOps \in Nat
  BY SettingsAssumption DEF Settings!QueueConfigAssumption, BaseQueue
<1>2. \A q \in ConfigQueues : BaseQueue(BaseQueue(q)) = BaseQueue(q)
  BY <1>1, SettingsAssumption DEF Settings!QueueConfigAssumption, BaseQueue
<1> QED
  BY <1>1, <1>2

(* Definitions of the instance, without the functions put for its          *)
(* constants.                                                              *)
LEMMA SettingsReadings ==
    ASSUME NEW q \in ConfigQueues
    PROVE  /\ Settings!IsDynamic(q) <=> BaseQueue(q) \in DynamicLimit
           /\ Settings!DeclaredDefault(q) = DefaultLimit
           /\ Settings!QueueUsesDynamicConcurrency(q) <=> BaseQueue(q) \in DynamicLimit
           /\ Settings!DefaultQueueRuntimeConfig(q)
                = [concurrency |-> DefaultLimit, state |-> "active"]
<1>1. BaseQueue(q) \in ConfigQueues
  BY SettingsConstants
<1>2. [p \in ConfigQueues |-> IF p \in ConfigChildren THEN ConfigBase ELSE p][q] = BaseQueue(q)
  BY DEF BaseQueue
<1>3. Settings!Catalog[BaseQueue(q)] = [concurrency |-> DefaultLimit, dynamic |-> BaseQueue(q) \in DynamicLimit]
  BY <1>1, <1>2 DEF Settings!Catalog
<1>4. Settings!QueueUsesDynamicConcurrency(q) = Settings!Catalog[BaseQueue(q)].dynamic
  BY <1>2 DEF Settings!QueueUsesDynamicConcurrency
<1>5. Settings!QueueUsesDynamicConcurrency(q) <=> BaseQueue(q) \in DynamicLimit
  <2>1. Settings!Catalog[BaseQueue(q)].dynamic = (BaseQueue(q) \in DynamicLimit)
    BY <1>3
  <2> QED
    BY <1>4, <2>1
<1>6. Settings!DefaultQueueRuntimeConfig(q) = [concurrency |-> DefaultLimit, state |-> "active"]
  BY <1>2, <1>3 DEF Settings!DefaultQueueRuntimeConfig
<1>7. Settings!DeclaredDefault(q) = DefaultLimit
  BY <1>1, <1>2 DEF Settings!DeclaredDefault
<1>8. Settings!IsDynamic(q) <=> BaseQueue(q) \in DynamicLimit
  BY <1>2 DEF Settings!IsDynamic
<1> QED
  BY <1>5, <1>6, <1>7, <1>8

(* What a hash says of a queue: its own limit, the one it inherits, the    *)
(* one its workers run with if it is dynamic, and its state.               *)
Hashes == [ConfigQueues -> Settings!Config \union {Unset}]
OwnLimit(h, q) == IF h[q] = Unset THEN Unset ELSE h[q].concurrency
OrDefaultLimit(l) == IF l = Unset THEN DefaultLimit ELSE l
Inherited(h, q) == IF q = BaseQueue(q) THEN DefaultLimit ELSE OrDefaultLimit(OwnLimit(h, BaseQueue(q)))
LimitOf(h, q) == IF OwnLimit(h, q) = Unset THEN Inherited(h, q) ELSE OwnLimit(h, q)
StateOf(h, q) ==
    IF h[q] # Unset THEN h[q].state
    ELSE IF h[BaseQueue(q)] # Unset THEN h[BaseQueue(q)].state ELSE "active"
Meant(h, q) == [concurrency |-> IF BaseQueue(q) \in DynamicLimit THEN LimitOf(h, q) ELSE DefaultLimit,
                state |-> StateOf(h, q)]

(* The parts of a stored configuration.                                    *)
LEMMA ConfigFields ==
    ASSUME NEW k \in Settings!Config
    PROVE  /\ k = [concurrency |-> k.concurrency, state |-> k.state] /\ k # Unset
           /\ k.concurrency \in Limits \union {Unset} /\ k.state \in {"active", "paused"}
  BY SettingsConstants DEF Settings!Config, Settings!States

(* The runtime reads what is meant.                                        *)
LEMMA EffectiveMeant ==
    ASSUME stored \in Hashes, NEW q \in ConfigQueues
    PROVE  Settings!Effective(q) = Meant(stored, q)
<1> DEFINE b == BaseQueue(q)
<1>1. b \in ConfigQueues /\ BaseQueue(b) = b
  BY SettingsConstants
<1>2. [p \in ConfigQueues |-> IF p \in ConfigChildren THEN ConfigBase ELSE p][q] = b
  BY DEF BaseQueue
<1>3. stored[b] \in Settings!Config \/ stored[b] = Unset
  BY <1>1 DEF Hashes
<1>4. stored[q] \in Settings!Config \/ stored[q] = Unset
  BY DEF Hashes
<1>5. DefaultLimit # Unset
  BY SettingsConstants
<1> DEFINE d == Settings!StoredRuntimeDefault(q)
           s == Settings!OrDefault(stored[b], d)
           r == Settings!RuntimeQueueConfig(q)
           lim == IF OwnLimit(stored, b) # Unset THEN OwnLimit(stored, b)
                  ELSE IF b \in DynamicLimit THEN DefaultLimit ELSE Unset
           own == IF q = b \/ OwnLimit(stored, q) = Unset THEN lim ELSE OwnLimit(stored, q)
<1>6. d = [concurrency |-> IF b \in DynamicLimit THEN DefaultLimit ELSE Unset, state |-> "active"]
  BY SettingsReadings DEF Settings!StoredRuntimeDefault
<1>7. s = [concurrency |-> lim, state |-> IF stored[b] = Unset THEN "active" ELSE stored[b].state]
  <2>1. CASE stored[b] = Unset
    BY <2>1, <1>6 DEF Settings!OrDefault, OwnLimit
  <2>2. CASE stored[b] \in Settings!Config
    BY <2>2, <1>6, ConfigFields DEF Settings!OrDefault, Settings!WithDefaults, Settings!OrElse,
       OwnLimit
  <2> QED
    BY <2>1, <2>2, <1>3
<1>8. r = IF q = b THEN s ELSE Settings!OrDefault(stored[q], s)
  BY <1>2 DEF Settings!RuntimeQueueConfig
<1>9. r = [concurrency |-> own, state |-> StateOf(stored, q)]
  <2>1. CASE q = b
    BY <2>1, <1>7, <1>8, <1>1 DEF StateOf
  <2>2. CASE q # b /\ stored[q] = Unset
    BY <2>2, <1>7, <1>8 DEF StateOf, Settings!OrDefault, OwnLimit
  <2>3. CASE q # b /\ stored[q] \in Settings!Config
    <3> HIDE DEF s
    <3>1. stored[q] # Unset
      BY <2>3, ConfigFields
    <3>2. Settings!OrDefault(stored[q], s) = Settings!WithDefaults(stored[q], s)
      BY <3>1 DEF Settings!OrDefault
    <3>3. Settings!WithDefaults(stored[q], s)
             = [concurrency |-> Settings!OrElse(stored[q].concurrency, s.concurrency), state |-> stored[q].state]
      BY <2>3, ConfigFields DEF Settings!WithDefaults
    <3>4. s.concurrency = lim
      BY <1>7
    <3> QED
      BY <2>3, <1>8, <3>1, <3>2, <3>3, <3>4 DEF StateOf, Settings!OrElse, OwnLimit
  <2> QED
    BY <2>1, <2>2, <2>3, <1>4
<1> HIDE DEF r
<1>10. Settings!Effective(q) = [r EXCEPT !.concurrency =
            IF Settings!IsDynamic(q) THEN Settings!OrElse(@, Settings!DeclaredDefault(q))
            ELSE Settings!DeclaredDefault(q)]
  BY DEF Settings!Effective, Settings!EffectiveRuntimeConfig, r
<1>11. Settings!Effective(q) = [concurrency |->
            IF b \in DynamicLimit THEN Settings!OrElse(own, DefaultLimit) ELSE DefaultLimit,
            state |-> StateOf(stored, q)]
  BY <1>9, <1>10, SettingsReadings
<1>12. b \in DynamicLimit => Settings!OrElse(own, DefaultLimit) = LimitOf(stored, q)
  BY <1>1, <1>5 DEF Settings!OrElse, LimitOf, Inherited, OrDefaultLimit, OwnLimit
<1> QED
  BY <1>11, <1>12 DEF Meant

(* What the dashboard reads.                                               *)
LEMMA FromMapMeant ==
    ASSUME NEW h \in Hashes, NEW q \in ConfigQueues
    PROVE  Settings!QueueRuntimeConfigFromMap(h, q) = Meant(h, q)
<1> DEFINE b == BaseQueue(q)
           d == [concurrency |-> DefaultLimit, state |-> "active"]
           base == IF h[b] = Unset THEN d ELSE Settings!MergeQueueRuntimeConfig(b, h[b], d)
<1>1. b \in ConfigQueues /\ BaseQueue(b) = b
  BY SettingsConstants
<1>2. [p \in ConfigQueues |-> IF p \in ConfigChildren THEN ConfigBase ELSE p][q] = b
  BY DEF BaseQueue
<1>3. h[b] \in Settings!Config \/ h[b] = Unset
  BY <1>1 DEF Hashes
<1>4. h[q] \in Settings!Config \/ h[q] = Unset
  BY DEF Hashes
<1>5. DefaultLimit # Unset
  BY SettingsConstants
<1>6. Settings!QueueRuntimeConfigFromMap(h, q)
        = IF q = b \/ h[q] = Unset THEN base ELSE Settings!MergeQueueRuntimeConfig(q, h[q], base)
  BY <1>1, <1>2, SettingsReadings DEF Settings!QueueRuntimeConfigFromMap
<1>7. ASSUME NEW p \in ConfigQueues, BaseQueue(p) = b, NEW k \in Settings!Config, NEW e
      PROVE  Settings!MergeQueueRuntimeConfig(p, k, e)
               = [concurrency |-> IF b \in DynamicLimit /\ k.concurrency # Unset THEN k.concurrency
                                  ELSE e.concurrency, state |-> k.state]
  <2>1. CASE b \in DynamicLimit
    BY <1>7, <2>1, SettingsReadings, ConfigFields
    DEF Settings!MergeQueueRuntimeConfig, Settings!WithDefaults, Settings!OrElse
  <2>2. CASE b \notin DynamicLimit
    <3>1. ~Settings!QueueUsesDynamicConcurrency(p)
      BY <1>7, <2>2, SettingsReadings
    <3>2. [k EXCEPT !.concurrency = Unset] = [concurrency |-> Unset, state |-> k.state]
      BY ConfigFields
    <3>3. Settings!MergeQueueRuntimeConfig(p, k, e)
            = Settings!WithDefaults([concurrency |-> Unset, state |-> k.state], e)
      BY <3>1, <3>2 DEF Settings!MergeQueueRuntimeConfig
    <3>4. Settings!WithDefaults([concurrency |-> Unset, state |-> k.state], e)
            = [concurrency |-> e.concurrency, state |-> k.state]
      BY DEF Settings!WithDefaults, Settings!OrElse
    <3> QED
      BY <3>3, <3>4, <2>2
  <2> QED
    BY <2>1, <2>2
<1> DEFINE lim == IF b \in DynamicLimit THEN OrDefaultLimit(OwnLimit(h, b)) ELSE DefaultLimit
<1>8. base = [concurrency |-> lim, state |-> IF h[b] = Unset THEN "active" ELSE h[b].state]
  <2>1. CASE h[b] = Unset
    BY <2>1 DEF OrDefaultLimit, OwnLimit
  <2>2. CASE h[b] \in Settings!Config
    <3>1. h[b] # Unset
      BY <2>2, ConfigFields
    <3>2. Settings!MergeQueueRuntimeConfig(b, h[b], d)
            = [concurrency |-> IF b \in DynamicLimit /\ h[b].concurrency # Unset THEN h[b].concurrency
                               ELSE d.concurrency, state |-> h[b].state]
      BY <2>2, <1>1, <1>7
    <3> QED
      BY <3>1, <3>2 DEF OrDefaultLimit, OwnLimit
  <2> QED
    BY <2>1, <2>2, <1>3
<1>9. base.concurrency = lim
  BY <1>8
<1> HIDE DEF base
<1>10. CASE q = b
  <2>1. Settings!QueueRuntimeConfigFromMap(h, q) = base
    BY <1>6, <1>10
  <2> QED
    BY <2>1, <1>8, <1>10 DEF Meant, LimitOf, Inherited, OrDefaultLimit, StateOf
<1>11. CASE q # b /\ h[q] = Unset
  <2>1. Settings!QueueRuntimeConfigFromMap(h, q) = base
    BY <1>6, <1>11
  <2> QED
    BY <2>1, <1>8, <1>11 DEF Meant, LimitOf, Inherited, OrDefaultLimit, StateOf, OwnLimit
<1>12. CASE q # b /\ h[q] \in Settings!Config
  <2>1. h[q] # Unset
    BY <1>12, ConfigFields
  <2>2. Settings!QueueRuntimeConfigFromMap(h, q) = Settings!MergeQueueRuntimeConfig(q, h[q], base)
    BY <1>6, <1>12, <2>1
  <2>3. Settings!QueueRuntimeConfigFromMap(h, q)
          = [concurrency |-> IF b \in DynamicLimit /\ h[q].concurrency # Unset THEN h[q].concurrency
                             ELSE lim, state |-> h[q].state]
    BY <2>2, <1>7, <1>9, <1>12
  <2> QED
    BY <2>1, <2>3, <1>12 DEF Meant, LimitOf, Inherited, StateOf, OwnLimit
<1> QED
  BY <1>4, <1>10, <1>11, <1>12

(* The dashboard reads only some keys of the hash, and misses nothing.     *)
LEMMA ViewOfKeys ==
    ASSUME stored \in Hashes, NEW q \in ConfigQueues,
           NEW keys, q \in keys, BaseQueue(q) \in keys
    PROVE  /\ Settings!QueueConfigs(keys) \in Hashes
           /\ Meant(Settings!QueueConfigs(keys), q) = Meant(stored, q)
           /\ Settings!QueueConfigs(keys)[q] = stored[q]
           /\ Settings!QueueConfigs(keys)[BaseQueue(q)] = stored[BaseQueue(q)]
<1>1. BaseQueue(q) \in ConfigQueues
  BY SettingsConstants
<1>2. Settings!QueueConfigs(keys) = [p \in ConfigQueues |-> IF p \in keys THEN stored[p] ELSE Unset]
  BY DEF Settings!QueueConfigs
<1> QED
  BY <1>1, <1>2 DEF Hashes, Meant, LimitOf, Inherited, OrDefaultLimit, OwnLimit, StateOf

(* The dashboard names the limit that is inherited.                        *)
LEMMA InheritedShown ==
    ASSUME NEW h \in Hashes, NEW q \in ConfigQueues, BaseQueue(q) \in DynamicLimit
    PROVE  Settings!InheritedDefault(h, q) = Inherited(h, q)
<1> DEFINE b == BaseQueue(q)
<1>1. b \in ConfigQueues /\ BaseQueue(b) = b
  BY SettingsConstants
<1>2. [p \in ConfigQueues |-> IF p \in ConfigChildren THEN ConfigBase ELSE p][q] = b
  BY DEF BaseQueue
<1>3. Settings!QueueRuntimeConfigFromMap(h, b) = Meant(h, b)
  BY <1>1, FromMapMeant
<1>4. Settings!InheritedDefault(h, q)
        = IF q = b THEN Settings!DefaultQueueRuntimeConfig(q).concurrency
          ELSE Settings!QueueRuntimeConfigFromMap(h, b).concurrency
  BY <1>2 DEF Settings!InheritedDefault
<1>5. Settings!DefaultQueueRuntimeConfig(q).concurrency = DefaultLimit
  BY SettingsReadings
<1>6. Meant(h, b).concurrency = OrDefaultLimit(OwnLimit(h, b))
  BY <1>1 DEF Meant, LimitOf, Inherited, OrDefaultLimit
<1> QED
  BY <1>3, <1>4, <1>5, <1>6 DEF Inherited

(* The status column says override where the limits differ.                *)
LEMMA StatusMeant ==
    ASSUME NEW h \in Hashes, NEW q \in ConfigQueues, BaseQueue(q) \in DynamicLimit
    PROVE  Settings!QueueConcurrencyStatus(h, q) = "override" <=> LimitOf(h, q) # Inherited(h, q)
<1>1. Settings!Direct(h, q) = OwnLimit(h, q)
  BY DEF Settings!Direct, OwnLimit
<1>2. Settings!QueueConcurrencyStatus(h, q) = "override"
        <=> OwnLimit(h, q) \notin {Unset, Inherited(h, q)}
  BY <1>1, SettingsReadings, InheritedShown DEF Settings!QueueConcurrencyStatus
<1> QED
  BY <1>2 DEF LimitOf

(* Every reading of the hash says the same.                                *)
LEMMA SettingsAgree ==
    ASSUME stored \in Hashes
    PROVE  Settings!DashboardAgrees /\ Settings!StatusAgrees
<1>1. ASSUME NEW q \in ConfigQueues
      PROVE  /\ Settings!QueueRuntimeConfigFor(q).config = Settings!Effective(q)
             /\ Settings!QueueConfigMap({q})[q] = Settings!QueueRuntimeConfigFor(q)
             /\ BaseQueue(q) \in DynamicLimit =>
                  (Settings!QueueRuntimeConfigFor(q).status = "override"
                     <=> Settings!Effective(q).concurrency # Settings!InheritedDefault(stored, q))
  <2> DEFINE b == BaseQueue(q)
             one == Settings!QueueConfigs(Settings!QueueRuntimeConfigKeys(q))
             many == Settings!QueueConfigs(Settings!QueueConfigKeys({q}))
  <2>1. [p \in ConfigQueues |-> IF p \in ConfigChildren THEN ConfigBase ELSE p][q] = b
    BY <1>1 DEF BaseQueue
  <2>2. Settings!QueueRuntimeConfigKeys(q) = {b, q}
    BY <2>1 DEF Settings!QueueRuntimeConfigKeys
  <2>3. b \in Settings!QueueConfigKeys({q}) /\ q \in Settings!QueueConfigKeys({q})
    BY <1>1, <2>1 DEF Settings!QueueConfigKeys, Settings!Catalog
  <2>4. /\ one \in Hashes /\ Meant(one, q) = Meant(stored, q)
        /\ one[q] = stored[q] /\ one[b] = stored[b]
    BY <1>1, <2>2, ViewOfKeys
  <2>5. /\ many \in Hashes /\ Meant(many, q) = Meant(stored, q)
        /\ many[q] = stored[q] /\ many[b] = stored[b]
    BY <1>1, <2>3, ViewOfKeys
  <2> HIDE DEF one, many
  <2>6. /\ Settings!QueueRuntimeConfigFromMap(one, q) = Meant(stored, q)
        /\ Settings!QueueRuntimeConfigFromMap(many, q) = Meant(stored, q)
    BY <1>1, <2>4, <2>5, FromMapMeant
  <2>7. Settings!QueueRuntimeConfigFor(q) = Settings!View(one, q)
    BY DEF Settings!QueueRuntimeConfigFor, one
  <2>8. Settings!QueueConfigMap({q})[q] = Settings!View(many, q)
    BY <2>3 DEF Settings!QueueConfigMap, many
  <2>9. ASSUME b \in DynamicLimit
        PROVE  Settings!InheritedDefault(one, q) = Inherited(stored, q)
               /\ Settings!InheritedDefault(many, q) = Inherited(stored, q)
    <3>1. Inherited(one, q) = Inherited(stored, q) /\ Inherited(many, q) = Inherited(stored, q)
      BY <2>4, <2>5 DEF Inherited, OwnLimit
    <3> QED
      BY <3>1, <2>9, <1>1, <2>4, <2>5, InheritedShown
  <2>10. Settings!QueueConcurrencyStatus(one, q) = Settings!QueueConcurrencyStatus(many, q)
    <3>1. Settings!Direct(one, q) = Settings!Direct(many, q)
      BY <2>4, <2>5 DEF Settings!Direct
    <3>2. CASE b \in DynamicLimit
      BY <3>1, <3>2, <1>1, <2>9, SettingsReadings DEF Settings!QueueConcurrencyStatus
    <3>3. CASE b \notin DynamicLimit
      <4>1. ~Settings!QueueUsesDynamicConcurrency(q)
        BY <3>3, <1>1, SettingsReadings
      <4> QED
        BY <4>1 DEF Settings!QueueConcurrencyStatus
    <3> QED
      BY <3>2, <3>3
  <2>11. Settings!Effective(q) = Meant(stored, q)
    BY <1>1, EffectiveMeant
  <2>12. ASSUME b \in DynamicLimit
         PROVE  Settings!QueueRuntimeConfigFor(q).status = "override"
                  <=> Settings!Effective(q).concurrency # Settings!InheritedDefault(stored, q)
    <3>1. Settings!QueueRuntimeConfigFor(q).status = Settings!QueueConcurrencyStatus(one, q)
      BY <2>7 DEF Settings!View
    <3>2. Settings!QueueConcurrencyStatus(one, q) = "override" <=> LimitOf(one, q) # Inherited(one, q)
      BY <1>1, <2>4, <2>12, StatusMeant
    <3>3. LimitOf(one, q) = LimitOf(stored, q) /\ Inherited(one, q) = Inherited(stored, q)
      BY <2>4 DEF LimitOf, Inherited, OwnLimit
    <3>4. Settings!Effective(q).concurrency = LimitOf(stored, q)
      BY <2>11, <2>12 DEF Meant
    <3>5. Settings!InheritedDefault(stored, q) = Inherited(stored, q)
      BY <1>1, <2>12, InheritedShown
    <3> QED
      BY <3>1, <3>2, <3>3, <3>4, <3>5
  <2>13. Settings!QueueRuntimeConfigFor(q).config = Settings!Effective(q)
    BY <2>6, <2>7, <2>11 DEF Settings!View
  <2>14. Settings!QueueConfigMap({q})[q] = Settings!QueueRuntimeConfigFor(q)
    BY <2>6, <2>7, <2>8, <2>10 DEF Settings!View
  <2> QED
    BY <2>12, <2>13, <2>14
<1> QED
  BY <1>1, SettingsReadings DEF Settings!DashboardAgrees, Settings!StatusAgrees

(* A client of the settings: what it read is still so unless another one   *)
(* wrote since.                                                            *)
ClientTyped(k) ==
    k \in [pc : {"idle", "read", "write"}, op : {"none", "state", "concurrency"},
           queue : ConfigQueues \union {Unset}, arg : Limits \union {"active", "paused", Unset},
           default : Nat \union {Unset}, existing : Settings!Config \union {Unset},
           disturbed : BOOLEAN, before : {"active", "paused"}]

ClientPlans(k) ==
    /\ k.pc = "idle" => k.queue = Unset
    /\ k.pc # "idle" =>
          /\ k.queue \in ConfigQueues
          /\ \/ k.op = "state" /\ k.arg \in {"active", "paused"}
             \/ k.op = "concurrency" /\ k.arg \in Limits /\ BaseQueue(k.queue) \in DynamicLimit
    /\ k.pc = "write" =>
          k.existing \in Settings!Config /\ (k.op = "concurrency" => k.default # Unset)

ReadsFresh(k, h) ==
    k.pc # "idle" /\ ~k.disturbed =>
        /\ k.before = StateOf(h, k.queue)
        /\ k.op = "concurrency" /\ k.default # Unset => k.default = Inherited(h, k.queue)
        /\ k.pc = "write" => k.existing = IF h[k.queue] = Unset THEN Settings!Empty ELSE h[k.queue]

ClientSound(k, h) == ClientTyped(k) /\ ClientPlans(k) /\ ReadsFresh(k, h)

SettingsInv ==
    /\ stored \in Hashes /\ ops \in 0 .. MaxOps
    /\ client = [c \in Clients |-> client[c]]
    /\ \A c \in Clients : ClientSound(client[c], stored)

(* The same for all queues, to be carried to the next state.               *)
LEMMA EffectiveAlways ==
    stored \in Hashes => \A q \in ConfigQueues : Settings!Effective(q) = Meant(stored, q)
  BY EffectiveMeant

(* A client without an operation.                                          *)
LEMMA IdleSound == \A h : ClientSound(Settings!Idle, h)
  BY SettingsConstants
  DEF ClientSound, ClientTyped, ClientPlans, ReadsFresh, Settings!Idle

(* The configuration with nothing set.                                     *)
LEMMA EmptyConfig == Settings!Empty \in Settings!Config /\ Settings!Empty.state = "active"
                     /\ Settings!Empty.concurrency = Unset
  BY DEF Settings!Empty, Settings!Config, Settings!States

(* A queue is active or paused.                                            *)
LEMMA StateTyped ==
    ASSUME NEW h \in Hashes, NEW q \in ConfigQueues
    PROVE  StateOf(h, q) \in {"active", "paused"}
  BY SettingsConstants, ConfigFields DEF Hashes, StateOf

(* An inherited limit is a number.                                         *)
LEMMA InheritedTyped ==
    ASSUME NEW h \in Hashes, NEW q \in ConfigQueues
    PROVE  Inherited(h, q) \in Nat /\ Inherited(h, q) # Unset
<1>1. BaseQueue(q) \in ConfigQueues
  BY SettingsConstants
<1>2. OwnLimit(h, BaseQueue(q)) \in Limits \union {Unset}
  BY <1>1, ConfigFields DEF Hashes, OwnLimit
<1>3. DefaultLimit \in Nat /\ Limits \subseteq Nat /\ Unset \notin Nat
  BY SettingsConstants
<1> QED
  BY <1>2, <1>3 DEF Inherited, OrDefaultLimit

(* Initially the hash is empty and nobody writes.                          *)
LEMMA SettingsInit == Settings!Init => SettingsInv
<1> SUFFICES ASSUME Settings!Init PROVE SettingsInv
  OBVIOUS
<1>1. stored \in Hashes
  BY DEF Settings!Init, Hashes
<1>2. ops \in 0 .. MaxOps
  BY SettingsConstants DEF Settings!Init
<1>3. client = [c \in Clients |-> Settings!Idle]
  BY DEF Settings!Init
<1> QED
  BY <1>1, <1>2, <1>3, IdleSound DEF SettingsInv

(* The default that set_queue_concurrency reads is the limit inherited.    *)
LEMMA ResetInherits ==
    ASSUME stored \in Hashes, NEW q \in ConfigQueues, BaseQueue(q) \in DynamicLimit
    PROVE  Settings!ResetDefault(q) = Inherited(stored, q)
<1> DEFINE b == BaseQueue(q)
<1>1. b \in ConfigQueues
  BY SettingsConstants
<1>2. [p \in ConfigQueues |-> IF p \in ConfigChildren THEN ConfigBase ELSE p][q] = b
  BY DEF BaseQueue
<1>3. stored[b] \in Settings!Config \/ stored[b] = Unset
  BY <1>1 DEF Hashes
<1>4. Settings!ResetDefault(q) = IF q = b THEN DefaultLimit
         ELSE Settings!OrElse(Settings!OrDefault(stored[b], Settings!StoredRuntimeDefault(q)).concurrency,
                              DefaultLimit)
  BY <1>2, SettingsReadings DEF Settings!ResetDefault
<1>5. Settings!StoredRuntimeDefault(q) = [concurrency |-> DefaultLimit, state |-> "active"]
  BY SettingsReadings DEF Settings!StoredRuntimeDefault
<1>6. CASE stored[b] = Unset
  BY <1>4, <1>5, <1>6 DEF Settings!OrDefault, Settings!OrElse, Inherited, OrDefaultLimit, OwnLimit
<1>7. CASE stored[b] \in Settings!Config
  <2>1. stored[b] # Unset
    BY <1>7, ConfigFields
  <2>2. Settings!OrDefault(stored[b], Settings!StoredRuntimeDefault(q))
          = [concurrency |-> OrDefaultLimit(stored[b].concurrency), state |-> stored[b].state]
    BY <1>5, <1>7, <2>1, ConfigFields
    DEF Settings!OrDefault, Settings!WithDefaults, Settings!OrElse, OrDefaultLimit
  <2> QED
    BY <1>4, <2>1, <2>2 DEF Settings!OrElse, Inherited, OrDefaultLimit, OwnLimit
<1> QED
  BY <1>3, <1>6, <1>7

(* A client changes alone, and no hash.                                    *)
LEMMA ClientStep ==
    ASSUME SettingsInv, UNCHANGED stored, ops' \in 0 .. MaxOps, NEW c \in Clients, NEW k,
           client' = [client EXCEPT ![c] = k], ClientSound(k, stored)
    PROVE  SettingsInv'
<1>1. client' = [d \in Clients |-> IF d = c THEN k ELSE client[d]]
  BY DEF SettingsInv
<1> QED
  BY <1>1 DEF SettingsInv

(* A hash changes, and every other client in work is disturbed.            *)
LEMMA WriteStep ==
    ASSUME SettingsInv, ops' \in 0 .. MaxOps, NEW c \in Clients, NEW q \in ConfigQueues,
           NEW v \in Settings!Config \union {Unset}, Settings!Write(c, q, v)
    PROVE  SettingsInv'
<1>1. stored' = [stored EXCEPT ![q] = v]
  BY DEF Settings!Write
<1>2. stored' \in Hashes
  BY <1>1 DEF SettingsInv, Hashes
<1>3. client' = [d \in Clients |-> IF d = c THEN Settings!Idle
          ELSE [client[d] EXCEPT !.disturbed = client[d].disturbed \/ client[d].pc # "idle"]]
  BY DEF Settings!Write
<1>4. ASSUME NEW d \in Clients PROVE ClientSound(client'[d], stored')
  <2>1. CASE d = c
    BY <2>1, <1>3, IdleSound
  <2>2. CASE d # c
    <3> DEFINE k == client[d]
               l == client'[d]
    <3>1. ClientTyped(k) /\ ClientPlans(k)
      BY DEF SettingsInv, ClientSound
    <3>2. l = [k EXCEPT !.disturbed = k.disturbed \/ k.pc # "idle"]
      BY <1>3, <2>2
    <3> HIDE DEF l
    <3>3. /\ l.pc = k.pc /\ l.op = k.op /\ l.queue = k.queue /\ l.arg = k.arg
          /\ l.default = k.default /\ l.existing = k.existing /\ l.before = k.before
      BY <3>1, <3>2 DEF ClientTyped
    <3>4. l.disturbed = (k.disturbed \/ k.pc # "idle")
      BY <3>1, <3>2 DEF ClientTyped
    <3>5. ClientTyped(l)
      BY <3>1, <3>2 DEF ClientTyped
    <3>6. ClientPlans(l)
      BY <3>1, <3>3 DEF ClientPlans
    <3>7. ReadsFresh(l, stored')
      BY <3>3, <3>4 DEF ReadsFresh
    <3> QED
      BY <3>5, <3>6, <3>7 DEF ClientSound, l
  <2> QED
    BY <2>1, <2>2
<1>5. client' = [d \in Clients |-> client'[d]]
  BY <1>3
<1> QED
  BY <1>2, <1>4, <1>5 DEF SettingsInv

(* The read of a change of the settings.                                   *)
LEMMA BeginStep ==
    ASSUME SettingsInv, NEW c \in Clients, NEW op, NEW q \in ConfigQueues, NEW arg,
           Settings!Begin(c, op, q, arg),
           \/ op = "state" /\ arg \in {"active", "paused"}
           \/ op = "concurrency" /\ arg \in Limits /\ BaseQueue(q) \in DynamicLimit
    PROVE  SettingsInv' /\ UNCHANGED stored
<1> DEFINE k == [Settings!Idle EXCEPT !.pc = "read", !.op = op, !.queue = q, !.arg = arg,
                                      !.before = Settings!Effective(q).state]
<1>1. stored' = stored /\ client' = [client EXCEPT ![c] = k] /\ ops' \in 0 .. MaxOps
  BY SettingsConstants DEF Settings!Begin, SettingsInv
<1>2. Settings!Effective(q).state = StateOf(stored, q)
  BY EffectiveAlways DEF SettingsInv, Meant
<1>3. /\ k.pc = "read" /\ k.op = op /\ k.queue = q /\ k.arg = arg /\ k.default = Unset
      /\ k.before = StateOf(stored, q)
  BY <1>2 DEF Settings!Idle
<1>4. ClientTyped(k)
  <2>1. ClientTyped(Settings!Idle)
    BY IdleSound DEF ClientSound
  <2>2. Settings!Effective(q).state \in {"active", "paused"}
    BY <1>2, StateTyped DEF SettingsInv
  <2> QED
    BY <2>1, <2>2 DEF ClientTyped
<1> HIDE DEF k
<1>5. ClientPlans(k) /\ ReadsFresh(k, stored)
  BY <1>3 DEF ClientPlans, ReadsFresh
<1> QED
  BY <1>1, <1>4, <1>5, ClientStep DEF ClientSound

(* EffectiveAlways, of the next state ...                                  *)
LEMMA EffectiveThen ==
    (stored \in Hashes => \A q \in ConfigQueues : Settings!Effective(q) = Meant(stored, q))'
  BY EffectiveAlways, PTL

(* ... and for one queue.                                                  *)
LEMMA EffectiveNext ==
    ASSUME SettingsInv', NEW q \in ConfigQueues
    PROVE  Settings!Effective(q)' = Meant(stored', q)
  BY EffectiveThen DEF SettingsInv

(* A client that names a queue is at work on it.                           *)
LEMMA ClientAtWork ==
    ASSUME SettingsInv, NEW c \in Clients, client[c].queue \in ConfigQueues
    PROVE  /\ client[c].pc # "idle" /\ ClientTyped(client[c]) /\ ClientPlans(client[c])
           /\ ReadsFresh(client[c], stored)
  BY SettingsConstants DEF SettingsInv, ClientSound, ClientPlans

(* Steps that write nothing.                                               *)
LEMMA QuietEffective ==
    ASSUME SettingsInv, SettingsInv', UNCHANGED stored
    PROVE  Settings!OperationEffective
<1>1. Settings!FixedKept /\ Settings!Effected
  BY DEF Settings!FixedKept, Settings!Effected
<1>2. ASSUME NEW c \in Clients, NEW q \in ConfigQueues, client[c].queue = q, ~client[c].disturbed
      PROVE  Settings!Effective(q)'.state = client[c].before
  <2>1. client[c].before = StateOf(stored, q)
    BY <1>2, ClientAtWork DEF ReadsFresh
  <2>2. Settings!Effective(q)' = Meant(stored', q)
    BY EffectiveNext
  <2>3. stored' = stored
    OBVIOUS
  <2> QED
    BY <2>1, <2>2, <2>3 DEF Meant
<1>3. Settings!StateKept
  BY <1>2 DEF Settings!StateKept
<1> QED
  BY <1>1, <1>3 DEF Settings!OperationEffective

(* A write of a client that was idle, or that ends its operation: only the *)
(* writer may be judged by the effect.                                     *)
LEMMA OthersGoOn ==
    ASSUME SettingsInv, NEW c \in Clients, NEW q, NEW v, Settings!Write(c, q, v),
           NEW d \in Clients, d # c, client[d].queue \in ConfigQueues
    PROVE  client'[d].pc # "idle"
<1>1. client[d].pc # "idle" /\ ClientTyped(client[d])
  BY ClientAtWork
<1>2. client'[d] = [client[d] EXCEPT !.disturbed = client[d].disturbed \/ client[d].pc # "idle"]
  BY DEF Settings!Write
<1> QED
  BY <1>1, <1>2 DEF ClientTyped

(* A change that is written without a read has the effect asked for.       *)
LEMMA DirectWriteEffective ==
    ASSUME SettingsInv, NEW c \in Clients, client[c].pc = "idle", NEW q \in ConfigQueues,
           NEW v \in Settings!Config \union {Unset}, Settings!Write(c, q, v),
           v # Unset => (v.concurrency # Unset => BaseQueue(q) \in DynamicLimit)
    PROVE  Settings!OperationEffective
<1>1. stored' = [stored EXCEPT ![q] = v] /\ stored \in Hashes
  BY DEF Settings!Write, SettingsInv
<1>2. Settings!FixedKept
  <2> SUFFICES ASSUME NEW p \in ConfigQueues, stored'[p] # stored[p], ~Settings!IsDynamic(p),
                      stored'[p] # Unset
               PROVE  stored'[p].concurrency = Unset
    BY DEF Settings!FixedKept
  <2> QED
    BY <1>1, SettingsReadings DEF Hashes
<1>3. \A d \in Clients : client[d].queue \in ConfigQueues => client'[d].pc # "idle"
  BY OthersGoOn, ClientAtWork
<1> QED
  BY <1>2, <1>3
  DEF Settings!OperationEffective, Settings!Effected, Settings!StateKept

(* A change written back after its reads has the effect asked for, when no *)
(* other writer came between.                                              *)
LEMMA WriteBackEffective ==
    ASSUME SettingsInv, NEW c \in Clients, Settings!WriteBack(c)
    PROVE  SettingsInv' /\ Settings!OperationEffective
<1> PICK k, q : k = client[c] /\ q = k.queue
  OBVIOUS
<1> DEFINE v == Settings!Changed(k)
<1>1. k.pc = "write" /\ Settings!Write(c, q, v) /\ ops' = ops
  BY DEF Settings!WriteBack
<1>2. /\ ClientTyped(k) /\ ClientPlans(k) /\ ReadsFresh(k, stored) /\ q \in ConfigQueues
      /\ stored \in Hashes
  BY <1>1 DEF SettingsInv, ClientSound, ClientPlans
<1>3. k.existing \in Settings!Config
  BY <1>1, <1>2 DEF ClientPlans
<1> DEFINE lim == IF k.op = "state"
                  THEN IF BaseQueue(q) \in DynamicLimit THEN k.existing.concurrency ELSE Unset
                  ELSE IF k.arg = k.default THEN Unset ELSE k.arg
           st == IF k.op = "state" THEN k.arg ELSE k.existing.state
<1>4. v = [concurrency |-> lim, state |-> st]
  <2>1. CASE k.op = "state"
    BY <2>1, <1>2, SettingsReadings DEF Settings!Changed
  <2>2. CASE k.op # "state"
    BY <2>2, <1>3, ConfigFields DEF Settings!Changed
  <2> QED
    BY <2>1, <2>2
<1>5. \/ k.op = "state" /\ k.arg \in {"active", "paused"}
      \/ k.op = "concurrency" /\ k.arg \in Limits /\ BaseQueue(q) \in DynamicLimit
  BY <1>1, <1>2 DEF ClientPlans
<1>6. lim \in Limits \union {Unset} /\ st \in {"active", "paused"}
  BY <1>3, <1>5, ConfigFields
<1>7. v \in Settings!Config /\ v # Unset /\ v.concurrency = lim /\ v.state = st
  BY <1>4, <1>6, ConfigFields DEF Settings!Config, Settings!States
<1>8. SettingsInv'
  BY <1>1, <1>2, <1>7, WriteStep DEF SettingsInv
<1>9. stored' = [stored EXCEPT ![q] = v]
  BY <1>1 DEF Settings!Write
<1> HIDE DEF v, lim, st
<1>10. Settings!FixedKept
  <2> SUFFICES ASSUME NEW p \in ConfigQueues, stored'[p] # stored[p], ~Settings!IsDynamic(p),
                      stored'[p] # Unset
               PROVE  stored'[p].concurrency = Unset
    BY DEF Settings!FixedKept
  <2>1. p = q /\ stored'[p] = v
    BY <1>2, <1>9 DEF Hashes
  <2>2. BaseQueue(q) \notin DynamicLimit
    BY <2>1, SettingsReadings
  <2> QED
    BY <2>1, <2>2, <1>5, <1>7 DEF lim
<1>11. \A d \in Clients : d # c /\ client[d].queue \in ConfigQueues => client'[d].pc # "idle"
  BY <1>1, OthersGoOn
<1>12. Settings!Effective(q)' = Meant(stored', q)
  BY <1>2, <1>8, EffectiveNext
<1>13. BaseQueue(q) \in ConfigQueues /\ BaseQueue(BaseQueue(q)) = BaseQueue(q)
  BY <1>2, SettingsConstants
<1>14. /\ stored'[q] = v
       /\ BaseQueue(q) # q => stored'[BaseQueue(q)] = stored[BaseQueue(q)]
  BY <1>2, <1>9, <1>13 DEF Hashes
<1>15. Inherited(stored', q) = Inherited(stored, q)
  BY <1>13, <1>14 DEF Inherited, OwnLimit
<1>16. Settings!Effective(q)'.state = st
  BY <1>7, <1>12, <1>14 DEF Meant, StateOf
<1>17. ASSUME ~k.disturbed, k.op = "concurrency" PROVE Settings!Effective(q)'.concurrency = k.arg
  <2>1. k.default = Inherited(stored, q)
    BY <1>1, <1>2, <1>17 DEF ClientPlans, ReadsFresh
  <2>2. lim = (IF k.arg = k.default THEN Unset ELSE k.arg) /\ BaseQueue(q) \in DynamicLimit
    BY <1>5, <1>17 DEF lim
  <2>3. k.arg # Unset
    BY <1>5, <1>17, SettingsConstants
  <2>4. OwnLimit(stored', q) = lim
    BY <1>7, <1>14 DEF OwnLimit
  <2> QED
    BY <2>1, <2>2, <2>3, <2>4, <1>12, <1>15 DEF Meant, LimitOf
<1>18. Settings!Effected
  <2> SUFFICES ASSUME NEW d \in Clients, NEW p \in ConfigQueues, client[d].queue = p,
                      client'[d].pc = "idle", ~client[d].disturbed
               PROVE  \/ client[d].op = "concurrency" /\ Settings!Effective(p)'.concurrency = client[d].arg
                      \/ client[d].op = "state" /\ Settings!Effective(p)'.state = client[d].arg
    BY DEF Settings!Effected
  <2>1. d = c
    BY <1>11
  <2> QED
    BY <2>1, <1>5, <1>16, <1>17 DEF st
<1>19. Settings!StateKept
  <2> SUFFICES ASSUME NEW d \in Clients, NEW p \in ConfigQueues, client[d].queue = p,
                      client[d].op = "concurrency", client'[d].pc = "idle", ~client[d].disturbed
               PROVE  \/ Settings!Effective(p)'.state = client[d].before
                      \/ p # BaseQueue(p) /\ stored[p] = Unset /\ Settings!Effective(p).state = "paused"
    BY DEF Settings!StateKept, BaseQueue
  <2>1. d = c /\ p = q
    BY <1>11
  <2>2. k.before = StateOf(stored, q)
    BY <2>1, <1>1, <1>2 DEF ReadsFresh
  <2>3. k.existing = IF stored[q] = Unset THEN Settings!Empty ELSE stored[q]
    BY <2>1, <1>1, <1>2 DEF ReadsFresh
  <2>4. st = k.existing.state
    BY <2>1 DEF st
  <2>5. Settings!Effective(q).state = StateOf(stored, q)
    BY <1>2, EffectiveMeant DEF Meant
  <2>6. StateOf(stored, q) \in {"active", "paused"}
    BY <1>2, StateTyped
  <2>7. CASE stored[q] # Unset
    BY <2>1, <2>2, <2>3, <2>4, <2>7, <1>16 DEF StateOf
  <2>8. CASE stored[q] = Unset
    <3>1. st = "active"
      BY <2>3, <2>4, <2>8, EmptyConfig
    <3>2. q = BaseQueue(q) => StateOf(stored, q) = "active"
      BY <2>8 DEF StateOf
    <3> QED
      BY <2>1, <2>2, <2>5, <2>6, <2>8, <3>1, <3>2, <1>16
  <2> QED
    BY <2>7, <2>8
<1> QED
  BY <1>8, <1>10, <1>18, <1>19 DEF Settings!OperationEffective

(* The read of the inherited limit changes nothing.                        *)
LEMMA ReadDefaultStep ==
    ASSUME SettingsInv, NEW c \in Clients, Settings!ReadDefault(c)
    PROVE  SettingsInv' /\ UNCHANGED stored
<1> DEFINE k == client[c]
           l == [client[c] EXCEPT !.default = Settings!ResetDefault(client[c].queue)]
<1>1. /\ k.pc = "read" /\ k.op = "concurrency" /\ stored' = stored /\ ops' = ops
      /\ client' = [client EXCEPT ![c] = l]
  BY DEF Settings!ReadDefault
<1>2. ClientTyped(k) /\ ClientPlans(k) /\ ReadsFresh(k, stored) /\ stored \in Hashes
  BY DEF SettingsInv, ClientSound
<1>3. k.queue \in ConfigQueues /\ BaseQueue(k.queue) \in DynamicLimit
  BY <1>1, <1>2 DEF ClientPlans
<1>4. Settings!ResetDefault(k.queue) = Inherited(stored, k.queue)
  BY <1>2, <1>3, ResetInherits
<1>5. Inherited(stored, k.queue) \in Nat
  BY <1>2, <1>3, InheritedTyped
<1>6. ClientTyped(l)
  BY <1>2, <1>4, <1>5 DEF ClientTyped
<1>7. /\ l.pc = k.pc /\ l.op = k.op /\ l.queue = k.queue /\ l.arg = k.arg /\ l.existing = k.existing
      /\ l.disturbed = k.disturbed /\ l.before = k.before /\ l.default = Inherited(stored, k.queue)
  BY <1>2, <1>4 DEF ClientTyped
<1> HIDE DEF l
<1>8. ClientPlans(l) /\ ReadsFresh(l, stored)
  BY <1>1, <1>2, <1>7 DEF ClientPlans, ReadsFresh
<1> QED
  BY <1>1, <1>6, <1>8, ClientStep DEF ClientSound, SettingsInv

(* The read of the stored configuration changes nothing.                   *)
LEMMA ReadExistingStep ==
    ASSUME SettingsInv, NEW c \in Clients, Settings!ReadExisting(c)
    PROVE  SettingsInv' /\ UNCHANGED stored
<1> DEFINE k == client[c]
           e == Settings!OrElse(stored[k.queue], Settings!Empty)
           l == [k EXCEPT !.pc = "write", !.existing = e]
<1>1. /\ k.pc = "read" /\ (k.op = "concurrency" => k.default # Unset)
      /\ stored' = stored /\ ops' = ops
      /\ client' = [client EXCEPT ![c] = Settings!Idle] \/ client' = [client EXCEPT ![c] = l]
  BY DEF Settings!ReadExisting
<1>2. ClientTyped(k) /\ ClientPlans(k) /\ ReadsFresh(k, stored) /\ stored \in Hashes
  BY DEF SettingsInv, ClientSound
<1>3. k.queue \in ConfigQueues
  BY <1>1, <1>2 DEF ClientPlans
<1>4. e \in Settings!Config /\ e = IF stored[k.queue] = Unset THEN Settings!Empty ELSE stored[k.queue]
  BY <1>2, <1>3, EmptyConfig DEF Hashes, Settings!OrElse
<1> HIDE DEF e
<1>5. ClientTyped(l)
  BY <1>2, <1>4 DEF ClientTyped
<1>6. /\ l.pc = "write" /\ l.op = k.op /\ l.queue = k.queue /\ l.arg = k.arg /\ l.existing = e
      /\ l.disturbed = k.disturbed /\ l.before = k.before /\ l.default = k.default
  BY <1>2 DEF ClientTyped
<1> HIDE DEF l
<1>7. ClientPlans(l) /\ ReadsFresh(l, stored)
  BY <1>1, <1>2, <1>4, <1>6 DEF ClientPlans, ReadsFresh
<1>8. ClientSound(l, stored) /\ ClientSound(Settings!Idle, stored)
  BY <1>5, <1>7, IdleSound DEF ClientSound
<1> QED
  BY <1>1, <1>8, ClientStep DEF SettingsInv

(* Every step on the settings keeps the invariant and has the effect asked *)
(* for.                                                                    *)
LEMMA SettingsNext ==
    ASSUME SettingsInv, Settings!Next
    PROVE  SettingsInv' /\ Settings!OperationEffective
<1>1. PICK c \in Clients :
        \/ Settings!ReadDefault(c) \/ Settings!ReadExisting(c) \/ Settings!WriteBack(c) \/ Settings!Abandon(c)
        \/ \E q \in ConfigQueues :
              \/ Settings!ResetQueueConfig(c, q)
              \/ \E config \in Settings!Config : Settings!SetQueueConfig(c, q, config)
              \/ \E s \in Settings!States : Settings!SetQueueState(c, q, s)
              \/ \E l \in Limits : Settings!SetQueueConcurrency(c, q, l)
  BY DEF Settings!Next
<1>2. ops \in 0 .. MaxOps /\ MaxOps \in Nat
  BY SettingsConstants DEF SettingsInv
<1>3. CASE Settings!ReadDefault(c)
  BY <1>3, ReadDefaultStep, QuietEffective
<1>4. CASE Settings!ReadExisting(c)
  BY <1>4, ReadExistingStep, QuietEffective
<1>5. CASE Settings!WriteBack(c)
  BY <1>5, WriteBackEffective
<1>6. CASE Settings!Abandon(c)
  <2>1. stored' = stored /\ ops' = ops /\ client' = [client EXCEPT ![c] = Settings!Idle]
    BY <1>6 DEF Settings!Abandon
  <2>2. SettingsInv'
    BY <2>1, <1>2, IdleSound, ClientStep
  <2> QED
    BY <2>1, <2>2, QuietEffective
<1>7. ASSUME NEW q \in ConfigQueues, Settings!ResetQueueConfig(c, q)
      PROVE  SettingsInv' /\ Settings!OperationEffective
  <2>1. client[c].pc = "idle" /\ ops' \in 0 .. MaxOps /\ Settings!Write(c, q, Unset)
    BY <1>2, <1>7 DEF Settings!ResetQueueConfig
  <2> QED
    BY <2>1, WriteStep, DirectWriteEffective
<1>8. ASSUME NEW q \in ConfigQueues, NEW config \in Settings!Config, Settings!SetQueueConfig(c, q, config)
      PROVE  SettingsInv' /\ Settings!OperationEffective
  <2>1. /\ client[c].pc = "idle" /\ ops' \in 0 .. MaxOps /\ Settings!Write(c, q, config)
        /\ config.concurrency # Unset => BaseQueue(q) \in DynamicLimit
    BY <1>2, <1>8, SettingsReadings DEF Settings!SetQueueConfig
  <2> QED
    BY <2>1, WriteStep, DirectWriteEffective
<1>9. ASSUME NEW q \in ConfigQueues, NEW s \in Settings!States, Settings!SetQueueState(c, q, s)
      PROVE  SettingsInv' /\ Settings!OperationEffective
  BY <1>9, BeginStep, QuietEffective DEF Settings!SetQueueState, Settings!States
<1>10. ASSUME NEW q \in ConfigQueues, NEW l \in Limits, Settings!SetQueueConcurrency(c, q, l)
       PROVE  SettingsInv' /\ Settings!OperationEffective
  BY <1>10, BeginStep, QuietEffective, SettingsReadings DEF Settings!SetQueueConcurrency
<1> QED
  BY <1>1, <1>3, <1>4, <1>5, <1>6, <1>7, <1>8, <1>9, <1>10

-----------------------------------------------------------------------------
(* The registry.                                                           *)

Static(k) == [key |-> k, dynamic |-> FALSE]

(* Legacy names lead to jobs, and the queue of a schedule is registered.   *)
NamesLead ==
    /\ claimed \subseteq DOMAIN jobs \union DOMAIN aliases
    /\ \A n \in DOMAIN aliases : aliases[n] \in DOMAIN jobs
    /\ DOMAIN aliases \intersect DOMAIN jobs = {}

QueuesRegistered ==
    /\ DOMAIN explicit \subseteq DOMAIN queues
    /\ \A n \in DOMAIN schedules : Static(schedules[n]) \in DOMAIN queues
    /\ allowlist \union denylist \subseteq Registry!Queues

(* A catalog is an earlier state of a registry that only grows.            *)
CatalogStale ==
    catalog # None =>
        /\ catalog.onDemand \union DOMAIN catalog.cron \subseteq DOMAIN jobs
        /\ catalog.queues \subseteq DOMAIN queues
        /\ \A n \in DOMAIN catalog.cron : Static(catalog.cron[n]) \in DOMAIN queues

SubmittedKnown ==
    submitted # None => submitted.name \in DOMAIN jobs /\ Static(submitted.key) \in DOMAIN queues

RegistryInv ==
    /\ NamesLead /\ Registry!RegistrationsWhole /\ Registry!DeclaredQueueKept
    /\ QueuesRegistered /\ CatalogStale /\ SubmittedKnown /\ Registry!SelectionExact

(* A map without one key.                                                  *)
LEMMA RemoveFacts ==
    ASSUME NEW f, NEW x
    PROVE  /\ DOMAIN Registry!Remove(f, x) = DOMAIN f \ {x}
           /\ \A y \in DOMAIN f \ {x} : Registry!Remove(f, x)[y] = f[y]
  BY DEF Registry!Remove, Registry!Restrict

(* The invariant says what is claimed.                                     *)
LEMMA RegistryImplies == ASSUME RegistryInv PROVE Registry!RegistrySound
<1>1. \A n \in DOMAIN jobs \union claimed : Registry!Buildable(n)
  BY DEF RegistryInv, NamesLead, Registry!Buildable, Registry!ResolveName
<1>2. Registry!NamesResolve
  BY <1>1 DEF Registry!NamesResolve, RegistryInv, NamesLead
<1>3. Registry!SubmissionsRunnable
  BY DEF Registry!SubmissionsRunnable, Registry!Buildable, Registry!ResolveName, RegistryInv,
     SubmittedKnown,
         Static
<1> QED
  BY <1>2, <1>3 DEF Registry!RegistrySound, RegistryInv

(* Initially nothing is registered.                                        *)
LEMMA RegistryInit == Registry!Init => RegistryInv
<1> SUFFICES ASSUME Registry!Init PROVE RegistryInv
  OBVIOUS
<1>1. /\ DOMAIN jobs = {} /\ DOMAIN aliases = {} /\ DOMAIN schedules = {} /\ DOMAIN queues = {}
      /\ DOMAIN explicit = {} /\ onDemand = {} /\ claimed = {} /\ allowlist = {} /\ denylist = {}
      /\ phase = "building" /\ catalog = None /\ submitted = None
  BY DEF Registry!Init, Registry!Empty
<1> QED
  BY <1>1 DEF RegistryInv, NamesLead, Registry!RegistrationsWhole, Registry!DeclaredQueueKept,
     QueuesRegistered, CatalogStale, SubmittedKnown, Registry!SelectionExact

(* What a registration does to the names: those of others stay, and the    *)
(* name itself is a job from now on.                                       *)
LEMMA AliasesAfter ==
    ASSUME RegistryInv, NEW name, NEW legacy, NEW J, J = DOMAIN jobs \union {name},
           NEW as, as = Registry!AddLegacy(Registry!Remove(aliases, name), J, name, legacy)
    PROVE  /\ DOMAIN aliases \ {name} \subseteq DOMAIN as
           /\ \A n \in DOMAIN aliases \ {name} : as[n] = aliases[n]
           /\ \A n \in DOMAIN as : as[n] \in J
           /\ DOMAIN as \intersect J = {}
           /\ legacy \in J \union DOMAIN as
<1> DEFINE old == Registry!Remove(aliases, name)
<1>1. DOMAIN old = DOMAIN aliases \ {name} /\ \A n \in DOMAIN aliases \ {name} : old[n] = aliases[n]
  BY RemoveFacts
<1>2. /\ \A n \in DOMAIN aliases : aliases[n] \in DOMAIN jobs
      /\ DOMAIN aliases \intersect DOMAIN jobs = {}
  BY DEF RegistryInv, NamesLead
<1> HIDE DEF old
<1>3. CASE legacy = name \/ legacy \in J \/ legacy \in DOMAIN old
  <2>1. as = old
    BY <1>3 DEF Registry!AddLegacy, old
  <2> QED
    BY <2>1, <1>1, <1>2, <1>3
<1>4. CASE ~(legacy = name \/ legacy \in J \/ legacy \in DOMAIN old)
  <2>1. as = Registry!Put(old, legacy, name)
    BY <1>4 DEF Registry!AddLegacy, old
  <2>2. /\ DOMAIN as = DOMAIN old \union {legacy} /\ as[legacy] = name
        /\ \A y \in DOMAIN old : y # legacy => as[y] = old[y]
    BY <2>1 DEF Registry!Put
  <2> QED
    BY <2>2, <1>1, <1>2, <1>4
<1> QED
  BY <1>3, <1>4

(* A registration with all its parts.                                      *)
LEMMA RegisterWith ==
    ASSUME RegistryInv, phase = "building", NEW name, NEW legacy, NEW cron, NEW offered \in BOOLEAN,
           NEW typed \in BOOLEAN,
           Registry!RegisterWorkerWith(name, legacy, cron, offered, typed),
           cron # None => typed /\ Static(cron) \in DOMAIN queues',
           DOMAIN queues \subseteq DOMAIN queues', \A q \in DOMAIN queues : queues'[q] = queues[q]
    PROVE  RegistryInv' /\ Registry!MeaningUnchanged
<1>1. /\ jobs' = Registry!Put(jobs, name, [typed |-> typed, offered |-> offered])
      /\ onDemand' = Registry!Offer(name, offered)
      /\ schedules' = Registry!Reschedule(name, cron)
      /\ aliases' = Registry!AddLegacy(Registry!Remove(aliases, name), DOMAIN jobs', name, legacy)
      /\ claimed' = claimed \union {legacy}
      /\ allowlist' = allowlist /\ denylist' = denylist /\ phase' = phase /\ running' = running
      /\ catalog' = catalog /\ submitted' = submitted /\ explicit' = explicit
  BY DEF Registry!RegisterWorkerWith, Registry!settings
<1>2. /\ DOMAIN jobs' = DOMAIN jobs \union {name}
      /\ jobs'[name].typed = typed /\ jobs'[name].offered = offered
      /\ \A n \in DOMAIN jobs : n # name => jobs'[n] = jobs[n]
  BY <1>1 DEF Registry!Put
<1>3. /\ DOMAIN aliases \ {name} \subseteq DOMAIN aliases'
      /\ \A n \in DOMAIN aliases \ {name} : aliases'[n] = aliases[n]
      /\ \A n \in DOMAIN aliases' : aliases'[n] \in DOMAIN jobs'
      /\ DOMAIN aliases' \intersect DOMAIN jobs' = {}
      /\ legacy \in DOMAIN jobs' \union DOMAIN aliases'
  BY <1>1, <1>2, AliasesAfter
<1>4. /\ DOMAIN schedules' \subseteq DOMAIN schedules \union {name}
      /\ \A n \in DOMAIN schedules' : n # name => n \in DOMAIN schedules /\ schedules'[n] = schedules[n]
      /\ name \in DOMAIN schedules' => cron # None /\ schedules'[name] = cron
  <2>1. CASE cron = None
    BY <2>1, <1>1 DEF Registry!Reschedule, Registry!Remove, Registry!Restrict
  <2>2. CASE cron # None
    BY <2>2, <1>1 DEF Registry!Reschedule, Registry!Put
  <2> QED
    BY <2>1, <2>2
<1>5. NamesLead'
  BY <1>1, <1>2, <1>3 DEF RegistryInv, NamesLead
<1>6. Registry!RegistrationsWhole'
  <2>1. \A n \in DOMAIN schedules' : n \in DOMAIN jobs' /\ jobs'[n].typed
    BY <1>2, <1>4 DEF RegistryInv, Registry!RegistrationsWhole
  <2>2. onDemand' = {n \in DOMAIN jobs' : jobs'[n].offered}
    BY <1>1, <1>2 DEF RegistryInv, Registry!RegistrationsWhole, Registry!Offer
  <2> QED
    BY <2>1, <2>2 DEF Registry!RegistrationsWhole
<1>7. Registry!DeclaredQueueKept'
  BY <1>1 DEF RegistryInv, Registry!DeclaredQueueKept, QueuesRegistered
<1>8. QueuesRegistered'
  <2>1. DOMAIN explicit' \subseteq DOMAIN queues' /\ (allowlist \union denylist)' \subseteq Registry!Queues
    BY <1>1 DEF RegistryInv, QueuesRegistered
  <2>2. \A n \in DOMAIN schedules' : Static(schedules'[n]) \in DOMAIN queues'
    BY <1>4 DEF RegistryInv, QueuesRegistered
  <2> QED
    BY <2>1, <2>2 DEF QueuesRegistered
<1>9. CatalogStale' /\ SubmittedKnown'
  BY <1>1, <1>2 DEF RegistryInv, CatalogStale, SubmittedKnown
<1>10. Registry!SelectionExact'
  BY <1>1 DEF Registry!SelectionExact
<1>11. Registry!MeaningUnchanged
  <2> SUFFICES ASSUME NEW n \in Names, Registry!Buildable(n),
                      Registry!ResolveName(n)' # Registry!ResolveName(n), n \in DOMAIN jobs \/ n # name
               PROVE  FALSE
    BY <1>2 DEF Registry!MeaningUnchanged
  <2>1. CASE n \in DOMAIN jobs
    BY <2>1, <1>2 DEF Registry!ResolveName
  <2>2. CASE n \notin DOMAIN jobs
    <3>1. n # name /\ n \in DOMAIN aliases
      BY <2>2 DEF Registry!Buildable, Registry!ResolveName
    <3>2. n \notin DOMAIN jobs' /\ n \in DOMAIN aliases' /\ aliases'[n] = aliases[n]
      BY <3>1, <2>2, <1>2, <1>3
    <3> QED
      BY <3>1, <3>2, <2>2 DEF Registry!ResolveName
  <2> QED
    BY <2>1, <2>2
<1> QED
  BY <1>5, <1>6, <1>7, <1>8, <1>9, <1>10, <1>11 DEF RegistryInv

(* Steps that register no worker.                                          *)
LEMMA NamesKept ==
    ASSUME UNCHANGED <<jobs, aliases>>
    PROVE  Registry!MeaningUnchanged
  BY DEF Registry!MeaningUnchanged, Registry!ResolveName

(* Steps that do not register leave the names alone.                       *)
LEMMA RegistryCore ==
    ASSUME RegistryInv, UNCHANGED <<jobs, aliases, schedules, onDemand, claimed>>
    PROVE  NamesLead' /\ Registry!RegistrationsWhole'
  BY DEF RegistryInv, NamesLead, Registry!RegistrationsWhole

(* The declaration of a queue.                                             *)
LEMMA DeclareQueue ==
    ASSUME RegistryInv, NEW q \in Registry!Queues, NEW c, Registry!RegisterQueueWith(q, c)
    PROVE  RegistryInv' /\ Registry!MeaningUnchanged
<1>1. /\ phase = "building" /\ queues' = Registry!Put(queues, q, c)
      /\ explicit' = Registry!Put(explicit, q, c)
      /\ jobs' = jobs /\ aliases' = aliases /\ schedules' = schedules /\ onDemand' = onDemand
      /\ claimed' = claimed /\ allowlist' = allowlist /\ denylist' = denylist /\ phase' = phase
      /\ running' = running /\ catalog' = catalog /\ submitted' = submitted
  BY DEF Registry!RegisterQueueWith, Registry!Building, Registry!registry, Registry!settings
<1>2. /\ DOMAIN queues' = DOMAIN queues \union {q} /\ DOMAIN explicit' = DOMAIN explicit \union {q}
      /\ queues'[q] = c /\ explicit'[q] = c
      /\ \A p \in DOMAIN queues : p # q => queues'[p] = queues[p]
      /\ \A p \in DOMAIN explicit : p # q => explicit'[p] = explicit[p]
  BY <1>1 DEF Registry!Put
<1>3. NamesLead' /\ Registry!RegistrationsWhole' /\ Registry!MeaningUnchanged
  BY <1>1, RegistryCore, NamesKept
<1>4. Registry!DeclaredQueueKept'
  BY <1>2 DEF RegistryInv, Registry!DeclaredQueueKept, QueuesRegistered
<1>5. QueuesRegistered'
  BY <1>1, <1>2 DEF RegistryInv, QueuesRegistered
<1>6. CatalogStale' /\ SubmittedKnown'
  BY <1>1, <1>2 DEF RegistryInv, CatalogStale, SubmittedKnown
<1>7. Registry!SelectionExact'
  BY <1>1 DEF Registry!SelectionExact
<1> QED
  BY <1>3, <1>4, <1>5, <1>6, <1>7 DEF RegistryInv

(* Steps that leave the registrations alone.                               *)
LEMMA RegistrationsKept ==
    ASSUME RegistryInv, UNCHANGED <<jobs, aliases, schedules, onDemand, claimed, queues, explicit>>,
           (allowlist \union denylist)' \subseteq Registry!Queues,
           CatalogStale', SubmittedKnown', Registry!SelectionExact'
    PROVE  RegistryInv' /\ Registry!MeaningUnchanged
<1>1. NamesLead' /\ Registry!RegistrationsWhole' /\ Registry!MeaningUnchanged
  BY RegistryCore, NamesKept
<1>2. Registry!DeclaredQueueKept' /\ QueuesRegistered'
  BY DEF RegistryInv, Registry!DeclaredQueueKept, QueuesRegistered
<1> QED
  BY <1>1, <1>2 DEF RegistryInv

(* The selection of queues to consume or not.                              *)
LEMMA SelectStep ==
    ASSUME RegistryInv, NEW q \in Registry!Queues, Registry!OnlyQueue(q) \/ Registry!ExceptQueue(q)
    PROVE  RegistryInv' /\ Registry!MeaningUnchanged
<1>1. /\ phase' = "building" /\ UNCHANGED <<jobs, aliases, schedules, onDemand, claimed, queues, explicit>>
      /\ catalog' = catalog /\ submitted' = submitted
  BY DEF Registry!OnlyQueue, Registry!ExceptQueue, Registry!Selecting, Registry!registry
<1>2. (allowlist \union denylist)' \subseteq Registry!Queues
  BY DEF RegistryInv, QueuesRegistered, Registry!OnlyQueue, Registry!ExceptQueue
<1>3. CatalogStale' /\ SubmittedKnown' /\ Registry!SelectionExact'
  BY <1>1 DEF RegistryInv, CatalogStale, SubmittedKnown, Registry!SelectionExact
<1> QED
  BY <1>1, <1>2, <1>3, RegistrationsKept

(* A static queue runs exactly when the cron loops of its key do.          *)
LEMMA StaticSelection ==
    ASSUME RegistryInv, NEW k
    PROVE  Registry!RunsStaticQueue(k) <=> Registry!RunsQueue(Static(k))
<1>1. \A q \in allowlist \union denylist : ~q.dynamic /\ q.key = k <=> q = Static(k)
  BY DEF RegistryInv, QueuesRegistered, Registry!Queues, Static
<1> QED
  BY <1>1 DEF Registry!RunsStaticQueue, Registry!RunsQueue

(* The launch of a process.                                                *)
LEMMA RunStep ==
    ASSUME RegistryInv, Registry!Run
    PROVE  RegistryInv' /\ Registry!MeaningUnchanged
<1>1. /\ UNCHANGED <<jobs, aliases, schedules, onDemand, claimed, queues, explicit>>
      /\ catalog' = catalog /\ submitted' = submitted /\ allowlist' = allowlist /\ denylist' = denylist
  BY DEF Registry!Run, Registry!registry, Registry!settings
<1>2. CatalogStale' /\ SubmittedKnown' /\ (allowlist \union denylist)' \subseteq Registry!Queues
  BY <1>1 DEF RegistryInv, CatalogStale, SubmittedKnown, QueuesRegistered
<1>3. CASE ~Registry!Selected
  <2>1. phase' = "refused"
    BY <1>3 DEF Registry!Run
  <2> QED
    BY <2>1, <1>1, <1>2, RegistrationsKept DEF Registry!SelectionExact
<1>4. CASE Registry!Selected
  <2>1. running' = [queues |-> {q \in DOMAIN queues : Registry!RunsQueue(q)},
                    crons |-> {n \in DOMAIN schedules : Registry!RunsStaticQueue(schedules[n])}]
    BY <1>4 DEF Registry!Run
  <2>2. allowlist \union denylist \subseteq DOMAIN queues
    BY <1>4 DEF Registry!Selected
  <2>3. running'.crons = {n \in DOMAIN schedules' : Static(schedules'[n]) \in running'.queues}
    BY <1>1, <2>1, StaticSelection DEF RegistryInv, QueuesRegistered
  <2>4. allowlist' # {} => running'.queues = allowlist' \ denylist'
    BY <1>1, <2>1, <2>2 DEF Registry!RunsQueue
  <2>5. running'.queues \union denylist' \subseteq DOMAIN queues'
    BY <1>1, <2>1, <2>2
  <2>6. Registry!SelectionExact'
    BY <2>3, <2>4, <2>5 DEF Registry!SelectionExact, Static
  <2> QED
    BY <2>6, <1>1, <1>2, RegistrationsKept
<1> QED
  BY <1>3, <1>4

(* A catalog for the dashboard.                                            *)
LEMMA CatalogStep ==
    ASSUME RegistryInv, Registry!TakeCatalog
    PROVE  RegistryInv' /\ Registry!MeaningUnchanged
<1>1. /\ phase' = "building" /\ UNCHANGED <<jobs, aliases, schedules, onDemand, claimed, queues, explicit>>
      /\ submitted' = submitted /\ allowlist' = allowlist /\ denylist' = denylist
      /\ catalog' = [cron |-> schedules, onDemand |-> onDemand, queues |-> DOMAIN queues]
  BY DEF Registry!TakeCatalog, Registry!CatalogWithQueues, Registry!registry, Registry!settings
<1>2. CatalogStale'
  BY <1>1 DEF CatalogStale, RegistryInv, Registry!RegistrationsWhole, QueuesRegistered
<1>3. SubmittedKnown' /\ Registry!SelectionExact' /\ (allowlist \union denylist)' \subseteq Registry!Queues
  BY <1>1 DEF RegistryInv, SubmittedKnown, Registry!SelectionExact, QueuesRegistered
<1> QED
  BY <1>1, <1>2, <1>3, RegistrationsKept

(* A job submitted from a catalog.                                         *)
LEMMA SubmitStep ==
    ASSUME RegistryInv, NEW e, Registry!Submit(e), e.name \in DOMAIN jobs, Static(e.key) \in DOMAIN queues
    PROVE  RegistryInv' /\ Registry!MeaningUnchanged
<1>1. /\ submitted' = e /\ UNCHANGED <<jobs, aliases, schedules, onDemand, claimed, queues, explicit>>
      /\ UNCHANGED <<allowlist, denylist, phase, running, catalog>>
  BY DEF Registry!Submit, Registry!registry, Registry!settings
<1>2. CatalogStale' /\ SubmittedKnown' /\ (allowlist \union denylist)' \subseteq Registry!Queues
  BY <1>1 DEF RegistryInv, CatalogStale, SubmittedKnown, QueuesRegistered
<1>3. Registry!SelectionExact'
  BY <1>1 DEF RegistryInv, Registry!SelectionExact
<1> QED
  BY <1>1, <1>2, <1>3, RegistrationsKept

(* Every step on the registry keeps the invariant and the meaning of       *)
(* names.                                                                  *)
LEMMA RegistryNext ==
    ASSUME RegistryInv, Registry!Next
    PROVE  RegistryInv' /\ Registry!MeaningUnchanged
<1>1. ASSUME NEW n \in Names, NEW l \in Names, NEW o \in BOOLEAN, Registry!RegisterWorker(n, l, o)
      PROVE  RegistryInv' /\ Registry!MeaningUnchanged
  <2>1. /\ phase = "building" /\ queues' = queues
        /\ Registry!RegisterWorkerWith(n, l, None, o, TRUE)
    BY <1>1 DEF Registry!RegisterWorker, Registry!Building
  <2> QED
    BY <2>1, RegisterWith
<1>2. ASSUME NEW n \in Names, NEW l \in Names, NEW o \in BOOLEAN, NEW k \in Keys,
             Registry!RegisterCronWorker(n, l, k, o)
      PROVE  RegistryInv' /\ Registry!MeaningUnchanged
  <2>1. /\ phase = "building" /\ Registry!RegisterWorkerWith(n, l, k, o, TRUE)
        /\ queues' = IF Static(k) \in DOMAIN queues THEN queues ELSE Registry!Put(queues, Static(k), 0)
    BY <1>2 DEF Registry!RegisterCronWorker, Registry!Building, Registry!RegisterDefaultQueue,
       Static
  <2>2. Static(k) \in DOMAIN queues' /\ DOMAIN queues \subseteq DOMAIN queues'
        /\ \A q \in DOMAIN queues : queues'[q] = queues[q]
    BY <2>1 DEF Registry!Put
  <2> QED
    BY <2>1, <2>2, RegisterWith
<1>3. ASSUME NEW n \in Names, NEW l \in Names, Registry!RegisterManually(n, l)
      PROVE  RegistryInv' /\ Registry!MeaningUnchanged
  <2>1. /\ phase = "building" /\ queues' = queues
        /\ Registry!RegisterWorkerWith(n, l, None, FALSE, FALSE)
    BY <1>3 DEF Registry!RegisterManually, Registry!Building
  <2> QED
    BY <2>1, RegisterWith
<1>4. CASE Registry!RegistrationPanics
  <2>1. /\ phase' = "panicked"
        /\ UNCHANGED <<jobs, aliases, schedules, onDemand, claimed, queues, explicit>>
        /\ UNCHANGED <<allowlist, denylist, running, catalog, submitted>>
    BY <1>4 DEF Registry!RegistrationPanics, Registry!registry, Registry!settings
  <2>2. CatalogStale' /\ SubmittedKnown' /\ (allowlist \union denylist)' \subseteq Registry!Queues
    BY <2>1 DEF RegistryInv, CatalogStale, SubmittedKnown, QueuesRegistered
  <2> QED
    BY <2>1, <2>2, RegistrationsKept DEF Registry!SelectionExact
<1>5. ASSUME NEW q \in Registry!Queues,
             Registry!OnlyQueue(q) \/ Registry!ExceptQueue(q)
               \/ \E c \in Configs : Registry!RegisterQueueWith(q, c)
      PROVE  RegistryInv' /\ Registry!MeaningUnchanged
  BY <1>5, SelectStep, DeclareQueue
<1>6. CASE Registry!Run \/ Registry!TakeCatalog
  BY <1>6, RunStep, CatalogStep
<1>7. ASSUME NEW n \in Names, Registry!SubmitCron(n)
      PROVE  RegistryInv' /\ Registry!MeaningUnchanged
  <2>1. PICK e : /\ catalog # None /\ Registry!Submit(e) /\ e # None
                 /\ e = IF n \in DOMAIN catalog.cron THEN [name |-> n, key |-> catalog.cron[n]] ELSE None
    BY <1>7 DEF Registry!SubmitCron, Registry!CronEnvelope, Registry!Submit
  <2>2. e.name \in DOMAIN jobs /\ Static(e.key) \in DOMAIN queues
    BY <2>1 DEF RegistryInv, CatalogStale
  <2> QED
    BY <2>1, <2>2, SubmitStep
<1>8. ASSUME NEW n \in Names, NEW k \in Keys, Registry!SubmitOnDemand(n, k)
      PROVE  RegistryInv' /\ Registry!MeaningUnchanged
  <2>1. PICK e : /\ catalog # None /\ Registry!Submit(e) /\ e # None
                 /\ e = IF Static(k) \in catalog.queues /\ n \in catalog.onDemand
                        THEN [name |-> n, key |-> k] ELSE None
    BY <1>8 DEF Registry!SubmitOnDemand, Registry!OnDemandEnvelope, Registry!Submit, Static
  <2>2. e.name \in DOMAIN jobs /\ Static(e.key) \in DOMAIN queues
    BY <2>1 DEF RegistryInv, CatalogStale
  <2> QED
    BY <2>1, <2>2, SubmitStep
<1> QED
  BY <1>1, <1>2, <1>3, <1>4, <1>5, <1>6, <1>7, <1>8 DEF Registry!Next

-----------------------------------------------------------------------------
(* Lists, and what is left of one.                                         *)

(* The elements of a list, and a list that holds none twice.               *)
Lists(s) == {s[n] : n \in DOMAIN s}
Distinct(s) == \A m, n \in DOMAIN s : s[m] = s[n] => m = n

(* A set of numbers has a smallest one.                                    *)
LEMMA HasSmallest ==
    ASSUME NEW S \in SUBSET Nat, S # {}
    PROVE  \E m \in S : \A k \in S : m <= k
<1>1. IsWellFoundedOn(OpToRel(<, Nat), Nat)
  BY NatLessThanWellFounded
<1>2. PICK m \in S : \A k \in S : ~(<<k, m>> \in OpToRel(<, Nat))
  BY <1>1, WFMin
<1>3. \A k \in S : ~(k < m)
  BY <1>2 DEF OpToRel
<1> QED
  BY <1>3

(* Induction up to a number, as the choice of a least counterexample.      *)
LEMMA UpTo ==
    ASSUME NEW N \in Nat, NEW G, 0 \in G,
           \A n \in 1 .. N : n - 1 \in G => n \in G
    PROVE  0 .. N \subseteq G
<1> DEFINE bad == (0 .. N) \ G
<1> SUFFICES ASSUME bad # {} PROVE FALSE
  OBVIOUS
<1>1. PICK x \in bad : \A y \in bad : x <= y
  <2>1. bad \in SUBSET Nat
    OBVIOUS
  <2> QED
    BY <2>1, HasSmallest
<1>2. x \in 1 .. N /\ x - 1 \in 0 .. N
  OBVIOUS
<1>3. x - 1 \notin bad
  BY <1>1, <1>2
<1> QED
  BY <1>2, <1>3

(* The prefixes of a list, up to the n-th, without what is not in S.       *)
Filters(f, s, S, n) ==
    f = [m \in 0 .. n |->
            IF m = 0 THEN <<>> ELSE IF s[m] \in S THEN Append(f[m - 1], s[m]) ELSE f[m - 1]]

(* The recursion of Only has a solution at every length.                   *)
LEMMA FiltersExist ==
    ASSUME NEW s, Len(s) \in Nat, NEW S
    PROVE  \E f : Filters(f, s, S, Len(s))
<1> DEFINE G == {n \in 0 .. Len(s) : \E f : Filters(f, s, S, n)}
<1>1. 0 \in G
  <2>1. Filters([m \in 0 .. 0 |-> <<>>], s, S, 0)
    BY DEF Filters
  <2> QED
    BY <2>1
<1>2. ASSUME NEW n \in 1 .. Len(s), n - 1 \in G PROVE n \in G
  <2>1. PICK f : Filters(f, s, S, n - 1)
    BY <1>2
  <2> DEFINE g == [m \in 0 .. n |-> IF m < n THEN f[m]
                   ELSE IF s[n] \in S THEN Append(f[n - 1], s[n]) ELSE f[n - 1]]
  <2>2. \A m \in 0 .. n : g[m] = IF m = 0 THEN <<>> ELSE IF s[m] \in S THEN Append(g[m - 1], s[m])
                                 ELSE g[m - 1]
    <3> SUFFICES ASSUME NEW m \in 0 .. n
                 PROVE  g[m] = IF m = 0 THEN <<>> ELSE IF s[m] \in S THEN Append(g[m - 1], s[m])
                               ELSE g[m - 1]
      OBVIOUS
    <3>1. CASE m < n
      <4>1. m \in 0 .. n - 1 /\ (m # 0 => m - 1 \in 0 .. n /\ m - 1 < n)
        BY <3>1
      <4> QED
        BY <2>1, <3>1, <4>1 DEF Filters
    <3>2. CASE m = n
      <4>1. m # 0 /\ m - 1 \in 0 .. n /\ m - 1 < n
        BY <3>2
      <4> QED
        BY <3>2, <4>1
    <3> QED
      BY <3>1, <3>2
  <2>3. Filters(g, s, S, n)
    BY <2>2 DEF Filters
  <2> QED
    BY <2>3
<1>3. 0 .. Len(s) \subseteq G
  BY <1>1, <1>2, UpTo
<1> QED
  BY <1>3

(* Only is the last value of that recursion.                               *)
LEMMA OnlyIs ==
    ASSUME NEW s, Len(s) \in Nat, NEW S
    PROVE  /\ \E f : Filters(f, s, S, Len(s)) /\ Pages!Only(s, S) = f[Len(s)]
           /\ \E f : Filters(f, s, S, Len(s)) /\ Work!Only(s, S) = f[Len(s)]
<1> DEFINE F(f) == Filters(f, s, S, Len(s))
<1>1. Pages!Only(s, S) = (CHOOSE f : F(f))[Len(s)]
  BY DEF Filters, Pages!Only
<1>2. Work!Only(s, S) = (CHOOSE f : F(f))[Len(s)]
  BY DEF Filters, Work!Only
<1>3. \E f : F(f)
  BY FiltersExist
<1> HIDE DEF F
<1>4. F(CHOOSE f : F(f))
  BY <1>3
<1> QED
  BY <1>1, <1>2, <1>4 DEF F

(* t is what s holds of S, in the order of s: e gives the places.          *)
Embeds(e, t, s, S, n) ==
    /\ \A i \in DOMAIN t : e[i] \in 1 .. n /\ t[i] = s[e[i]] /\ t[i] \in S
    /\ \A i, j \in DOMAIN t : i < j => e[i] < e[j]
    /\ \A m \in 1 .. n : s[m] \in S => \E i \in DOMAIN t : t[i] = s[m]

(* What a filter leaves of a list.                                         *)
LEMMA FilterKeeps ==
    ASSUME NEW A, NEW s \in Seq(A), NEW S, NEW f, Filters(f, s, S, Len(s))
    PROVE  LET t == f[Len(s)]
           IN  /\ t \in Seq(A)
               /\ \E e : Embeds(e, t, s, S, Len(s))
               /\ (\A n \in 1 .. Len(s) : s[n] \in S) => t = s
<1>0. /\ \A m \in 0 .. Len(s) :
            f[m] = IF m = 0 THEN <<>> ELSE IF s[m] \in S THEN Append(f[m - 1], s[m]) ELSE f[m - 1]
      /\ Len(s) \in Nat /\ DOMAIN s = 1 .. Len(s)
  <2>1. Len(s) \in Nat /\ DOMAIN s = 1 .. Len(s)
    OBVIOUS
  <2>2. ASSUME NEW m \in 0 .. Len(s)
        PROVE  f[m] = IF m = 0 THEN <<>> ELSE IF s[m] \in S THEN Append(f[m - 1], s[m])
                      ELSE f[m - 1]
    BY Zenon DEF Filters
  <2> QED
    BY <2>1, <2>2
<1> DEFINE AllTo(n) == \A i \in 1 .. n : s[i] \in S
           Same(t, n) == Len(t) = n /\ \A i \in 1 .. n : t[i] = s[i]
           G == {n \in 0 .. Len(s) :
                   /\ f[n] \in Seq(A)
                   /\ \E e : Embeds(e, f[n], s, S, n)
                   /\ AllTo(n) => Same(f[n], n)}
<1>2. 0 \in G
  <2>1. f[0] = <<>>
    BY <1>0
  <2>2. <<>> \in Seq(A) /\ Embeds(<<>>, <<>>, s, S, 0) /\ 0 \in 0 .. Len(s) /\ Same(<<>>, 0)
    BY <1>0 DEF Embeds
  <2> QED
    BY <2>1, <2>2
<1>3. ASSUME NEW n \in 1 .. Len(s), n - 1 \in G PROVE n \in G
  <2> DEFINE t == f[n - 1]
  <2>1. f[n] = IF s[n] \in S THEN Append(t, s[n]) ELSE t
    <3>1. n \in 0 .. Len(s) /\ n # 0
      OBVIOUS
    <3> QED
      BY <1>0, <3>1
  <2>2. /\ t \in Seq(A) /\ s[n] \in A
        /\ AllTo(n - 1) => Same(t, n - 1)
    BY <1>3
  <2>3. PICK e : Embeds(e, t, s, S, n - 1)
    BY <1>3
  <2> HIDE DEF t
  <2>6. AllTo(n) => AllTo(n - 1) /\ s[n] \in S
    OBVIOUS
  <2>4. CASE s[n] \notin S
    <3>1. Embeds(e, t, s, S, n)
      BY <2>3, <2>4 DEF Embeds
    <3> QED
      BY <2>1, <2>2, <2>4, <2>6, <3>1
  <2>5. CASE s[n] \in S
    <3> DEFINE u == Append(t, s[n])
    <3>1. /\ u \in Seq(A) /\ Len(u) = Len(t) + 1 /\ u[Len(t) + 1] = s[n] /\ DOMAIN u = 1 .. Len(t) + 1
          /\ DOMAIN t = 1 .. Len(t) /\ Len(t) \in Nat
          /\ \A i \in 1 .. Len(t) : u[i] = t[i]
      BY <2>2
    <3> HIDE DEF u
    <3> DEFINE d == [i \in 1 .. Len(t) + 1 |-> IF i = Len(t) + 1 THEN n ELSE e[i]]
    <3>2. Embeds(d, u, s, S, n)
      <4>1. \A i \in 1 .. Len(t) : d[i] = e[i] /\ e[i] \in 1 .. n - 1 /\ t[i] = s[e[i]] /\ t[i] \in S
        BY <2>3, <3>1, SMTT(30) DEF Embeds
      <4>2. d[Len(t) + 1] = n
        BY <3>1
      <4> HIDE DEF d
      <4>3. \A i \in DOMAIN u : d[i] \in 1 .. n /\ u[i] = s[d[i]] /\ u[i] \in S
        BY <2>5, <3>1, <4>1, <4>2
      <4>4. \A i, j \in DOMAIN u : i < j => d[i] < d[j]
        <5> SUFFICES ASSUME NEW i \in DOMAIN u, NEW j \in DOMAIN u, i < j PROVE d[i] < d[j]
          OBVIOUS
        <5>1. CASE j = Len(t) + 1
          BY <3>1, <4>1, <4>2, <5>1, SMTT(30)
        <5>2. CASE j # Len(t) + 1
          BY <2>3, <3>1, <4>1, <5>2 DEF Embeds
        <5> QED
          BY <5>1, <5>2
      <4>5. \A m \in 1 .. n : s[m] \in S => \E i \in DOMAIN u : u[i] = s[m]
        <5> SUFFICES ASSUME NEW m \in 1 .. n, s[m] \in S PROVE \E i \in DOMAIN u : u[i] = s[m]
          OBVIOUS
        <5>1. CASE m = n
          BY <3>1, <5>1
        <5>2. CASE m # n
          <6>1. m \in 1 .. n - 1
            BY <5>2
          <6>2. PICK i \in DOMAIN t : t[i] = s[m]
            BY <2>3, <6>1 DEF Embeds
          <6> QED
            BY <3>1, <6>2
        <5> QED
          BY <5>1, <5>2
      <4> QED
        BY <4>3, <4>4, <4>5 DEF Embeds
    <3>3. AllTo(n) => Same(u, n)
      BY <2>2, <2>6, <3>1
    <3>4. f[n] = u
      BY <2>1, <2>5 DEF u
    <3> HIDE DEF AllTo, Same
    <3> QED
      BY <3>1, <3>2, <3>3, <3>4
  <2> QED
    BY <2>4, <2>5
<1>4. Len(s) \in G
  <2>1. 0 .. Len(s) \subseteq G
    <3> HIDE DEF G
    <3> QED
      BY <1>0, <1>2, <1>3, UpTo
  <2>2. Len(s) \in 0 .. Len(s)
    BY <1>0
  <2> HIDE DEF G
  <2> QED
    BY <2>1, <2>2
<1>5. /\ f[Len(s)] \in Seq(A)
      /\ \E e : Embeds(e, f[Len(s)], s, S, Len(s))
      /\ AllTo(Len(s)) => Same(f[Len(s)], Len(s))
  BY <1>4
<1>6. ASSUME AllTo(Len(s)) PROVE f[Len(s)] = s
  <2>1. Same(f[Len(s)], Len(s)) /\ f[Len(s)] \in Seq(A)
    BY <1>5, <1>6
  <2> QED
    BY <2>1
<1> QED
  BY <1>5, <1>6

(* The same of Only in both modules.                                       *)
LEMMA OnlyKeeps ==
    ASSUME NEW A, NEW s \in Seq(A), NEW S
    PROVE  /\ Pages!Only(s, S) \in Seq(A) /\ Work!Only(s, S) \in Seq(A)
           /\ \E e : Embeds(e, Pages!Only(s, S), s, S, Len(s))
           /\ \E e : Embeds(e, Work!Only(s, S), s, S, Len(s))
           /\ (\A n \in DOMAIN s : s[n] \in S) => Pages!Only(s, S) = s
<1>1. Len(s) \in Nat /\ DOMAIN s = 1 .. Len(s)
  OBVIOUS
<1>2. PICK f : Filters(f, s, S, Len(s)) /\ Pages!Only(s, S) = f[Len(s)]
  BY <1>1, OnlyIs
<1>3. PICK g : Filters(g, s, S, Len(s)) /\ Work!Only(s, S) = g[Len(s)]
  BY <1>1, OnlyIs
<1>4. /\ f[Len(s)] \in Seq(A) /\ \E e : Embeds(e, f[Len(s)], s, S, Len(s))
      /\ (\A n \in 1 .. Len(s) : s[n] \in S) => f[Len(s)] = s
  BY <1>2, FilterKeeps
<1>5. g[Len(s)] \in Seq(A) /\ \E e : Embeds(e, g[Len(s)], s, S, Len(s))
  BY <1>3, FilterKeeps
<1> QED
  BY <1>1, <1>2, <1>3, <1>4, <1>5

-----------------------------------------------------------------------------
(* What the pages and the overview rely on.                                *)

(* What is answered, and what is asked for.                                *)
Replies == {None, "stored", "dead", "absent", "refused", "walked"}
           \cup [number : Nat, total : Nat, has_next : BOOLEAN, jobs : Seq(Ids)]

Requests ==
    [pc : {"idle", "start", "missed", "counted", "list", "resolve", "page"},
     kind : {None, "job", "queue", "deads", "walk"}, arg : Nat, asked : Nat, count : Nat,
     ids : Seq(Ids), seen : SUBSET Ids, answer : Replies]

(* Each place in a handler belongs to one kind of request.                 *)
IsRequest(r) ==
    /\ r \in Requests
    /\ r.pc \in {"missed", "counted"} => r.kind = "job"
    /\ r.pc = "list" => r.kind \in {"queue", "deads"}
    /\ r.pc = "resolve" => r.kind = "queue"
    /\ r.pc = "page" => r.kind = "walk"

(* The types of what the pages read.                                       *)
PagesTyped ==
    /\ queue \in Seq(Ids) /\ dead \in Seq(Ids) /\ reviving \in Seq(Ids)
    /\ payload \in SUBSET Ids
    /\ kept \in BOOLEAN /\ steady \in BOOLEAN
    /\ IsRequest(request)

(* A job is in one place.                                                  *)
ApartOf(q, d, r, b) ==
    /\ Distinct(q) /\ Distinct(d) /\ Distinct(r)
    /\ Lists(q) \cap Lists(d) = {} /\ Lists(q) \cap Lists(r) = {} /\ Lists(d) \cap Lists(r) = {}
    /\ b \cap Lists(d) = {} /\ b \cap Lists(r) = {}
Apart == ApartOf(queue, dead, reviving, payload)

(* A job that stays is found: in the payloads, or else in the dead list,   *)
(* whose length is still the one that was counted.                         *)
JobKept ==
    kept => /\ request.kind = "job"
            /\ request.pc = "start" => request.arg \in payload \cup Lists(dead)
            /\ request.pc = "missed" => request.arg \in Lists(dead)
            /\ request.pc = "counted" => request.arg \in Lists(dead) /\ request.count = Len(dead)
            /\ request.pc = "idle" => request.answer # "absent"

(* What stays on the queue and lies left of a walk was seen.               *)
SeenUpTo(bound, seen) == \A n \in DOMAIN queue : n <= bound /\ queue[n] \in stays => queue[n] \in seen

(* A page of the walk lies left of a place.                                *)
LeftOf(ids, n) == \A y \in Lists(ids) : \E m \in DOMAIN queue : m < n /\ queue[m] = y

(* A walk misses nothing that stays: jobs only move to the right of it or  *)
(* are claimed behind it, and an empty page means that the queue ended.    *)
WalkKept ==
    /\ stays \subseteq Lists(queue)
    /\ stays # {} => Lists(queue) \subseteq payload
    /\ request.kind = "walk" =>
          /\ request.pc = "start" => SeenUpTo(request.count, request.seen)
          /\ request.pc = "page" =>
                /\ SeenUpTo(request.count + request.arg, request.seen \cup Lists(request.ids))
                /\ request.ids = <<>> => stays \subseteq request.seen
                /\ \A n \in DOMAIN queue :
                      queue[n] \in stays \ (request.seen \cup Lists(request.ids)) => LeftOf(request.ids, n)
          /\ request.pc = "idle" /\ request.answer = "walked" => stays \subseteq request.seen

(* The page that a still list has for a request.                           *)
ListOf(q, d, kd) == IF kd = "queue" THEN q ELSE d
PageOf(q, d, kd, n) == IF kd = "queue" THEN Pages!ClampNumber(n, Len(ListOf(q, d, kd))) ELSE n
IdsOf(q, d, kd, n) ==
    Pages!ListRange(ListOf(q, d, kd), Pages!Offset(PageOf(q, d, kd, n)), PerPage + 1)
JobsOf(q, d, b, kd, n) ==
    IF kd = "queue" THEN Pages!Only(IdsOf(q, d, kd, n), b) ELSE IdsOf(q, d, kd, n)

(* A page that is read step by step is that page.                          *)
PageGood(q, d, b, r) ==
    /\ r.pc = "start" => r.arg = r.asked
    /\ r.pc \in {"list", "resolve"} =>
          r.arg = PageOf(q, d, r.kind, r.asked) /\ r.count = Len(ListOf(q, d, r.kind))
    /\ r.pc = "resolve" => r.ids = IdsOf(q, d, r.kind, r.asked)
    /\ r.pc = "idle" =>
          r.answer = Pages!JobPage(PageOf(q, d, r.kind, r.asked), Len(ListOf(q, d, r.kind)),
                                   JobsOf(q, d, b, r.kind, r.asked))

PageKept ==
    steady /\ request.kind \in {"queue", "deads"} => PageGood(queue, dead, payload, request)

(* The inductive invariant of the pages.                                   *)
PagesInv == PagesTyped /\ Apart /\ JobKept /\ WalkKept /\ PageKept

(* The states of the reader, and the scores and records.                   *)
Readers ==
    [pc : {"idle", "ids", "records", "answered"}, ids : Seq(Procs),
     shown : Seq([id : Procs, heartbeat : Nat]), todo : Seq(Procs),
     listed : SUBSET (Procs \X WorkIds), rows : SUBSET (Procs \X WorkIds)]

Times == [Procs -> Nat \cup {None}]

(* The types of what the overview reads.                                   *)
WorkTyped ==
    /\ now \in Nat /\ score \in Times /\ record \in Times /\ beating \in Times
    /\ life \in [Procs -> {"new", "up", "leaving", "down"}]
    /\ claims \in [Procs -> SUBSET WorkIds] /\ envelopes \in SUBSET WorkIds
    /\ quiet \in BOOLEAN /\ reader \in Readers

(* The record of a process is its score unless a heartbeat is half         *)
(* written; a process that leaves has lost its score first.                *)
BeatsKept ==
    \A p \in Procs :
        /\ beating[p] = None /\ score[p] # None => record[p] = score[p]
        /\ beating[p] # None => score[p] \in {beating[p], None}
        /\ life[p] = "leaving" => score[p] = None

(* Who is listed.                                                          *)
ShownIn(r) == {r.shown[i].id : i \in DOMAIN r.shown}

(* What was read so far, r, is sound and complete: h was claimed at some   *)
(* time, al and rg all the time; rec are the records, wk the claims now    *)
(* and env the payloads.                                                   *)
ReadGood(r, h, al, rg, rec, wk, env) ==
    /\ r.pc \in {"ids", "records"} => wk \subseteq h /\ al \subseteq wk
    /\ r.pc = "ids" => /\ \A p \in rg : p \in Lists(r.ids) /\ rec[p] # None
                       /\ r.listed = {}
    /\ r.pc = "records" =>
          /\ \A x \in r.listed : x[1] \in ShownIn(r) /\ (x[2] \in env => x \in h)
          /\ rg \subseteq ShownIn(r) /\ Lists(r.todo) \subseteq ShownIn(r)
          /\ \A x \in al : x[1] \in rg => x[1] \in Lists(r.todo) \/ x \in r.listed
    /\ r.pc = "answered" =>
          /\ \A x \in r.rows : x[1] \in ShownIn(r) /\ x \in h
          /\ rg \subseteq ShownIn(r)
          /\ \A x \in al : x[1] \in rg => x \in r.rows

ReadKept == ReadGood(reader, held, always, registered, record, Work!Working, envelopes)

(* What is read in the order of the scores is in the order of the records, *)
(* unless a heartbeat was half written.                                    *)
SortedGood(r, rec) ==
    /\ r.pc = "ids" =>
          \A i, j \in DOMAIN r.ids :
              i < j /\ rec[r.ids[i]] # None /\ rec[r.ids[j]] # None => rec[r.ids[i]] <= rec[r.ids[j]]
    /\ r.pc \in {"records", "answered"} =>
          \A i, j \in DOMAIN r.shown : i < j => r.shown[i].heartbeat <= r.shown[j].heartbeat

BeatsSorted == quiet => SortedGood(reader, record)

(* The inductive invariant of the overview.                                *)
WorkInv == WorkTyped /\ BeatsKept /\ ReadKept /\ BeatsSorted

-----------------------------------------------------------------------------
(* The pages.                                                              *)

(* The sizes and sums of the instances are those of this module.           *)
LEMMA SameCardinality ==
    /\ \A S : Pages!Cardinality(S) = Cardinality(S) /\ Work!Cardinality(S) = Cardinality(S)
    /\ \A S : Pages!IsFiniteSet(S) = IsFiniteSet(S) /\ Work!IsFiniteSet(S) = IsFiniteSet(S)
<1>1. \A S : Pages!Cardinality(S) = Cardinality(S) /\ Work!Cardinality(S) = Cardinality(S)
  BY DEF Pages!Cardinality, Work!Cardinality, Cardinality
<1>2. \A S : Pages!IsFiniteSet(S) = IsFiniteSet(S) /\ Work!IsFiniteSet(S) = IsFiniteSet(S)
  BY DEF Pages!IsFiniteSet, Work!IsFiniteSet, IsFiniteSet
<1> QED
  BY <1>1, <1>2

(* What the assumption says of the constants.                              *)
LEMMA PagesConstants ==
    /\ Ids \subseteq Nat /\ PerPage \in Nat \ {0} /\ DeadLimit \in Nat /\ MaxLimit \in Nat
    /\ MaxPage \in Nat
    /\ Ids = 1 .. Cardinality(Ids) /\ Cardinality(Ids) \in Nat
<1>1. /\ Pages!IsFiniteSet(Ids) /\ Ids = 1 .. Pages!Cardinality(Ids)
      /\ PerPage \in Nat \ {0} /\ MaxPage \in Nat /\ MaxLimit \in Nat /\ DeadLimit \in Nat
  BY PagesAssumption DEF Pages!DashboardAssumption
<1>2. IsFiniteSet(Ids) /\ Ids = 1 .. Cardinality(Ids)
  BY <1>1, SameCardinality, Zenon
<1>3. Cardinality(Ids) \in Nat
  BY <1>2, FS_CardinalityType
<1>4. Ids \subseteq Nat
  BY <1>2, <1>3
<1> QED
  BY <1>1, <1>2, <1>3, <1>4

(* The larger and the smaller of two numbers.                              *)
LEMMA OfTwo ==
    ASSUME NEW a \in Int, NEW b \in Int
    PROVE  /\ Pages!Min({a, b}) = IF a <= b THEN a ELSE b
           /\ Pages!Max({a, b}) = IF a >= b THEN a ELSE b
<1>1. /\ \A x \in {a, b} : (\A y \in {a, b} : x <= y) <=> x = IF a <= b THEN a ELSE b
      /\ \A x \in {a, b} : (\A y \in {a, b} : x >= y) <=> x = IF a >= b THEN a ELSE b
  OBVIOUS
<1>2. (IF a <= b THEN a ELSE b) \in {a, b} /\ (IF a >= b THEN a ELSE b) \in {a, b}
  OBVIOUS
<1> QED
  BY <1>1, <1>2 DEF Pages!Min, Pages!Max

(* A part of a list, also when it lies behind its end.                     *)
LEMMA PartOf ==
    ASSUME NEW A, NEW s \in Seq(A), NEW o \in Nat, NEW n \in Nat
    PROVE  LET m == IF o + n <= Len(s) THEN o + n ELSE Len(s)
               t == SubSeq(s, o + 1, m)
           IN  /\ t \in Seq(A)
               /\ Len(t) = (IF o < m THEN m - o ELSE 0)
               /\ \A i \in 1 .. Len(t) : i + o \in 1 .. Len(s) /\ t[i] = s[i + o]
  OBVIOUS

(* A prefix of a list.                                                     *)
LEMMA Prefix ==
    ASSUME NEW A, NEW s \in Seq(A), NEW k \in Nat, k <= Len(s)
    PROVE  /\ SubSeq(s, 1, k) \in Seq(A) /\ Len(SubSeq(s, 1, k)) = k
           /\ \A i \in 1 .. k : SubSeq(s, 1, k)[i] = s[i]
<1>1. \A i \in 1 .. k : i \in 1 .. Len(s)
  OBVIOUS
<1> QED
  BY <1>1

(* What a list function reads.                                             *)
LEMMA RangeOf ==
    ASSUME NEW list \in Seq(Ids), NEW o \in Nat, NEW n \in Nat
    PROVE  LET t == Pages!ListRange(list, o, n)
               m == IF o + n <= Len(list) THEN o + n ELSE Len(list)
           IN  /\ t \in Seq(Ids) /\ t = SubSeq(list, o + 1, m)
               /\ Len(t) = (IF o < m THEN m - o ELSE 0)
               /\ \A i \in 1 .. Len(t) : i + o \in 1 .. Len(list) /\ t[i] = list[i + o]
               /\ Lists(t) \subseteq Lists(list)
<1> DEFINE m == IF o + n <= Len(list) THEN o + n ELSE Len(list)
           t == SubSeq(list, o + 1, m)
<1>1. o + n \in Int /\ Len(list) \in Int
  OBVIOUS
<1>2. Pages!Min({o + n, Len(list)}) = m
  BY <1>1, OfTwo
<1>3. Pages!ListRange(list, o, n) = t
  BY <1>2 DEF Pages!ListRange, Pages!ListStop
<1>4. /\ t \in Seq(Ids)
      /\ Len(t) = (IF o < m THEN m - o ELSE 0)
      /\ \A i \in 1 .. Len(t) : i + o \in 1 .. Len(list) /\ t[i] = list[i + o]
  BY PartOf, Zenon
<1> HIDE DEF t
<1>5. Lists(t) \subseteq Lists(list)
  BY <1>4 DEF Lists
<1> QED
  BY <1>3, <1>4, <1>5 DEF t

(* The whole list is read when as many are asked for.                      *)
LEMMA WholeRange ==
    ASSUME NEW list \in Seq(Ids) PROVE Pages!ListRange(list, 0, Len(list)) = list
<1>1. Len(list) \in Nat
  OBVIOUS
<1>2. Pages!Min({0 + Len(list), Len(list)}) = Len(list)
  BY <1>1, OfTwo
<1> QED
  BY <1>2 DEF Pages!ListRange, Pages!ListStop

(* The elements of a list.                                                 *)
LEMMA IsSet == \A s : Pages!ToSet(s) = Lists(s)
  BY DEF Pages!ToSet, Lists

(* The kept invariants when nothing that they read changes.                *)
LEMMA IdleRequest == IsRequest(Pages!Idle)
  BY PagesConstants DEF IsRequest, Requests, Replies, Pages!Idle

(* At first every job waits or is dead.                                    *)
LEMMA PagesInit == Pages!Init => PagesInv
<1> SUFFICES ASSUME Pages!Init PROVE PagesInv
  OBVIOUS
<1>1. PICK n \in 0 .. Cardinality(Ids) :
          /\ queue = [i \in 1 .. n |-> i]
          /\ dead = [i \in 1 .. Cardinality(Ids) - n |-> n + i]
  BY SameCardinality DEF Pages!Init
<1>2. /\ payload = Lists(queue) /\ reviving = <<>> /\ kept = FALSE /\ steady = FALSE /\ stays = {}
      /\ request = Pages!Idle
  BY IsSet DEF Pages!Init
<1>3. /\ queue \in Seq(Ids) /\ Len(queue) = n /\ DOMAIN queue = 1 .. n
      /\ \A i \in 1 .. n : queue[i] = i
  <2>1. \A i \in 1 .. n : i \in Ids
    BY <1>1, PagesConstants
  <2> QED
    BY <1>1, <2>1
<1>4. /\ dead \in Seq(Ids) /\ DOMAIN dead = 1 .. Cardinality(Ids) - n
      /\ \A i \in 1 .. Cardinality(Ids) - n : dead[i] = n + i
  <2>1. \A i \in 1 .. Cardinality(Ids) - n : n + i \in Ids
    BY <1>1, PagesConstants
  <2>2. Cardinality(Ids) - n \in Nat
    BY <1>1, PagesConstants
  <2> QED
    BY <1>1, <2>1, <2>2
<1>5. Lists(queue) = 1 .. n /\ Lists(reviving) = {} /\ \A x \in Lists(dead) : x \in Nat /\ x > n
  BY <1>1, <1>2, <1>3, <1>4, PagesConstants DEF Lists
<1>6. PagesTyped
  <2>1. payload \in SUBSET Ids
    BY <1>2, <1>3 DEF Lists
  <2>2. reviving \in Seq(Ids)
    BY <1>2
  <2>4. kept \in BOOLEAN /\ steady \in BOOLEAN
    BY <1>2, Zenon
  <2>3. IsRequest(request)
    BY <1>2, IdleRequest, Zenon
  <2> QED
    BY <1>3, <1>4, <2>1, <2>2, <2>3, <2>4 DEF PagesTyped
<1>7. Apart
  <2>1. Distinct(queue) /\ Distinct(dead) /\ Distinct(reviving)
    BY <1>1, <1>2, <1>3, <1>4, PagesConstants DEF Distinct
  <2>2. 1 .. n \cap Lists(dead) = {}
    BY <1>1, <1>5
  <2> QED
    BY <1>2, <1>5, <2>1, <2>2 DEF Apart, ApartOf
<1>8. JobKept /\ PageKept
  BY <1>2 DEF JobKept, PageKept
<1>9. WalkKept
  BY <1>2 DEF WalkKept, Pages!Idle
<1> QED
  BY <1>6, <1>7, <1>8, <1>9 DEF PagesInv

(* A walk while jobs are claimed from the right, or one is pushed on the   *)
(* left: what was left behind unseen is still left of what is unseen.      *)
LEMMA WalkMoves ==
    ASSUME WalkKept, request' = request, request.count \in Nat, request.arg \in Nat,
           queue \in Seq(Ids), queue' \in Seq(Ids), NEW k \in {0, 1},
           stays' \subseteq stays, stays' \subseteq Lists(queue'),
           stays' # {} => Lists(queue') \subseteq payload',
           Len(queue') <= Len(queue) + k,
           \A n \in 1 .. Len(queue') : IF n <= k THEN queue'[n] \notin stays ELSE queue'[n] = queue[n - k]
    PROVE  WalkKept'
<1>1. /\ DOMAIN queue = 1 .. Len(queue) /\ DOMAIN queue' = 1 .. Len(queue')
      /\ Len(queue) \in Nat /\ Len(queue') \in Nat
  OBVIOUS
<1>2. \A n \in DOMAIN queue' : queue'[n] \in stays' =>
          n - k \in DOMAIN queue /\ queue'[n] = queue[n - k] /\ queue[n - k] \in stays
  <2> SUFFICES ASSUME NEW n \in DOMAIN queue', queue'[n] \in stays'
               PROVE  n - k \in DOMAIN queue /\ queue'[n] = queue[n - k] /\ queue[n - k] \in stays
    OBVIOUS
  <2>1. n \in 1 .. Len(queue') /\ queue'[n] \in stays
    BY <1>1
  <2>2. ~(n <= k)
    BY <2>1
  <2>3. queue'[n] = queue[n - k]
    BY <2>1, <2>2
  <2>4. n - k \in 1 .. Len(queue)
    BY <1>1, <2>1, <2>2
  <2> QED
    BY <1>1, <2>1, <2>3, <2>4
<1>3. ASSUME NEW bound \in Nat, NEW seen, SeenUpTo(bound, seen) PROVE SeenUpTo(bound, seen)'
  <2> SUFFICES ASSUME NEW n \in DOMAIN queue', n <= bound, queue'[n] \in stays' PROVE queue'[n] \in seen
    BY DEF SeenUpTo
  <2>1. n - k \in DOMAIN queue /\ queue'[n] = queue[n - k] /\ queue[n - k] \in stays
    BY <1>2
  <2>2. n - k <= bound
    BY <1>1
  <2> QED
    BY <1>3, <2>1, <2>2 DEF SeenUpTo
<1>4. ASSUME NEW ids, NEW n \in DOMAIN queue', queue'[n] \in stays', LeftOf(ids, n - k)
      PROVE  LeftOf(ids, n)'
  <2> SUFFICES ASSUME NEW y \in Lists(ids) PROVE \E m \in DOMAIN queue' : m < n /\ queue'[m] = y
    BY DEF LeftOf
  <2>1. PICK m \in DOMAIN queue : m < n - k /\ queue[m] = y
    BY <1>4 DEF LeftOf
  <2>2. m + k \in DOMAIN queue' /\ m + k < n /\ ~(m + k <= k) /\ (m + k) - k = m
    BY <1>1, <2>1
  <2>3. queue'[m + k] = queue[m]
    BY <1>1, <2>2
  <2> QED
    BY <2>1, <2>2, <2>3
<1>5. ASSUME request.kind = "walk", request.pc = "page"
      PROVE  /\ SeenUpTo(request.count + request.arg, request.seen \cup Lists(request.ids))'
             /\ request.ids = <<>> => stays' \subseteq request.seen
             /\ \A n \in DOMAIN queue' :
                   queue'[n] \in stays' \ (request.seen \cup Lists(request.ids)) => LeftOf(request.ids, n)'
  <2>1. /\ SeenUpTo(request.count + request.arg, request.seen \cup Lists(request.ids))
        /\ request.ids = <<>> => stays \subseteq request.seen
        /\ \A n \in DOMAIN queue :
              queue[n] \in stays \ (request.seen \cup Lists(request.ids)) => LeftOf(request.ids, n)
    BY <1>5 DEF WalkKept
  <2>2. request.count + request.arg \in Nat
    OBVIOUS
  <2>3. SeenUpTo(request.count + request.arg, request.seen \cup Lists(request.ids))'
    <3>1. PICK b \in Nat : b = request.count + request.arg
      BY <2>2
    <3>2. SeenUpTo(b, request.seen \cup Lists(request.ids))'
      BY <1>3, <2>1, <3>1 DEF Lists
    <3> QED
      BY <3>1, <3>2 DEF SeenUpTo, Lists
  <2>4. ASSUME NEW n \in DOMAIN queue', queue'[n] \in stays' \ (request.seen \cup Lists(request.ids))
        PROVE  LeftOf(request.ids, n)'
    <3>1. n - k \in DOMAIN queue /\ queue'[n] = queue[n - k] /\ queue[n - k] \in stays
      BY <1>2, <2>4
    <3>2. LeftOf(request.ids, n - k)
      BY <2>1, <2>4, <3>1
    <3>3. PICK ids : ids = request.ids
      OBVIOUS
    <3>4. LeftOf(ids, n)'
      BY <1>4, <2>4, <3>2, <3>3
    <3> QED
      BY <3>3, <3>4 DEF LeftOf
  <2> QED
    BY <2>1, <2>3, <2>4
<1>6. request.kind = "walk" /\ request.pc = "start" => SeenUpTo(request.count, request.seen)'
  <2> SUFFICES ASSUME request.kind = "walk", request.pc = "start" PROVE SeenUpTo(request.count, request.seen)'
    OBVIOUS
  <2>1. SeenUpTo(request.count, request.seen)
    BY DEF WalkKept
  <2> QED
    BY <1>3, <2>1 DEF SeenUpTo
<1>7. request.kind = "walk" /\ request.pc = "idle" /\ request.answer = "walked" => stays' \subseteq request.seen
  BY DEF WalkKept
<1> QED
  BY <1>5, <1>6, <1>7 DEF WalkKept, SeenUpTo, LeftOf

(* A job that is looked for while jobs move.                               *)
LEMMA JobMoves ==
    ASSUME JobKept, request' = request, kept' => kept,
           kept' /\ request.arg \in payload \cup Lists(dead) => request.arg \in payload' \cup Lists(dead'),
           kept' /\ request.pc = "missed" /\ request.arg \in Lists(dead) => request.arg \in Lists(dead'),
           kept' /\ request.pc = "counted" => dead' = dead
    PROVE  JobKept'
<1> SUFFICES ASSUME kept'
             PROVE  /\ request'.kind = "job"
                    /\ request'.pc = "start" => request'.arg \in payload' \cup Lists(dead')
                    /\ request'.pc = "missed" => request'.arg \in Lists(dead')
                    /\ request'.pc = "counted" =>
                          request'.arg \in Lists(dead') /\ request'.count = Len(dead')
                    /\ request'.pc = "idle" => request'.answer # "absent"
  BY DEF JobKept, Lists
<1>1. /\ request.kind = "job"
      /\ request.pc = "start" => request.arg \in payload \cup Lists(dead)
      /\ request.pc = "missed" => request.arg \in Lists(dead)
      /\ request.pc = "counted" => request.arg \in Lists(dead) /\ request.count = Len(dead)
      /\ request.pc = "idle" => request.answer # "absent"
  BY DEF JobKept
<1> QED
  BY <1>1

(* What is left to show of a move.                                         *)
LEMMA MovesKeep ==
    ASSUME PagesInv, request' = request, steady' = FALSE, kept' \in BOOLEAN,
           queue' \in Seq(Ids), dead' \in Seq(Ids), reviving' \in Seq(Ids), payload' \in SUBSET Ids,
           Apart', JobKept', WalkKept'
    PROVE  PagesInv'
<1>1. IsRequest(request)'
  BY DEF PagesInv, PagesTyped, IsRequest, Requests
<1>2. PagesTyped'
  BY <1>1 DEF PagesTyped
<1>3. PageKept'
  BY DEF PageKept
<1> QED
  BY <1>2, <1>3 DEF PagesInv

(* What a move leaves alone.                                               *)
LEMMA MoveIs ==
    ASSUME PagesInv, NEW still \in BOOLEAN, Pages!Move(still)
    PROVE  /\ request' = request /\ steady' = FALSE /\ kept' \in BOOLEAN
           /\ (kept' => kept) /\ (kept' => still)
<1>1. kept \in BOOLEAN
  BY DEF PagesInv, PagesTyped
<1> QED
  BY <1>1, Zenon DEF Pages!Move

(* A list without its last element.                                        *)
LEMMA WithoutLast ==
    ASSUME NEW A, NEW s \in Seq(A), s # <<>>
    PROVE  LET t == SubSeq(s, 1, Len(s) - 1)
           IN  /\ t \in Seq(A) /\ Len(t) = Len(s) - 1 /\ Len(s) \in Nat
               /\ \A n \in 1 .. Len(t) : t[n] = s[n]
               /\ DOMAIN t = 1 .. Len(s) - 1 /\ DOMAIN s = 1 .. Len(s)
<1>1. Len(s) \in Nat /\ Len(s) # 0 /\ DOMAIN s = 1 .. Len(s)
  OBVIOUS
<1> DEFINE t == SubSeq(s, 1, Len(s) - 1)
<1>2. t \in Seq(A) /\ Len(t) = Len(s) - 1
  BY <1>1
<1>3. \A n \in 1 .. Len(s) - 1 : t[n] = s[n]
  BY <1>1
<1>4. DOMAIN t = 1 .. Len(t)
  BY <1>2
<1> QED
  BY <1>1, <1>2, <1>3, <1>4

(* Claims take from the right.                                             *)
LEMMA ClaimStep == ASSUME PagesInv, Pages!Claim PROVE PagesInv'
<1>1. /\ queue # <<>> /\ queue' = SubSeq(queue, 1, Len(queue) - 1)
      /\ dead' = dead /\ payload' = payload /\ reviving' = reviving
      /\ stays' = stays \cap Lists(queue') \cap payload'
  BY IsSet DEF Pages!Claim, Pages!Waiting, Pages!Front
<1>2. request' = request /\ steady' = FALSE /\ kept' \in BOOLEAN /\ (kept' => kept)
  BY MoveIs DEF Pages!Claim
<1>3. /\ queue \in Seq(Ids) /\ dead \in Seq(Ids) /\ reviving \in Seq(Ids) /\ payload \in SUBSET Ids
      /\ Apart /\ JobKept /\ WalkKept /\ request.count \in Nat /\ request.arg \in Nat
  BY DEF PagesInv, PagesTyped, IsRequest, Requests
<1>4. /\ queue' \in Seq(Ids) /\ Len(queue') = Len(queue) - 1 /\ Len(queue) \in Nat
      /\ \A n \in 1 .. Len(queue') : queue'[n] = queue[n]
      /\ DOMAIN queue' = 1 .. Len(queue) - 1 /\ DOMAIN queue = 1 .. Len(queue)
  BY <1>1, <1>3, WithoutLast
<1>5. Lists(queue') \subseteq Lists(queue)
  BY <1>4 DEF Lists
<1>6. Apart'
  <2>1. Distinct(queue')
    BY <1>3, <1>4 DEF Apart, ApartOf, Distinct
  <2>2. ApartOf(queue', dead, reviving, payload)
    BY <1>3, <1>5, <2>1 DEF Apart, ApartOf
  <2> QED
    BY <1>1, <2>2 DEF Apart
<1>7. JobKept'
  BY <1>1, <1>2, <1>3, JobMoves
<1>8. WalkKept'
  <2>1. stays' # {} => Lists(queue') \subseteq payload'
    BY <1>1, <1>3, <1>5 DEF WalkKept
  <2>2. /\ Len(queue') <= Len(queue) + 0
        /\ \A n \in 1 .. Len(queue') : IF n <= 0 THEN queue'[n] \notin stays ELSE queue'[n] = queue[n - 0]
    BY <1>4
  <2> QED
    BY <1>1, <1>2, <1>3, <1>4, <2>1, <2>2, WalkMoves
<1> QED
  BY <1>1, <1>2, <1>3, <1>4, <1>6, <1>7, <1>8, MovesKeep

(* A walk whose queue does not change, and one that was torn.              *)
LEMMA WalkQuiet ==
    ASSUME PagesInv, request' = request, queue' = queue,
           stays' = stays \cap Lists(queue') \cap payload', Lists(queue) \cap payload \subseteq payload'
    PROVE  WalkKept'
<1>1. /\ queue \in Seq(Ids) /\ WalkKept /\ request.count \in Nat /\ request.arg \in Nat
  BY DEF PagesInv, PagesTyped, IsRequest, Requests
<1>2. stays' # {} => Lists(queue') \subseteq payload'
  BY <1>1 DEF WalkKept, Lists
<1>3. /\ Len(queue') <= Len(queue) + 0
      /\ \A n \in 1 .. Len(queue') : IF n <= 0 THEN queue'[n] \notin stays ELSE queue'[n] = queue[n - 0]
  BY <1>1
<1> QED
  BY <1>1, <1>2, <1>3, WalkMoves

(* Nothing is promised of a walk when nothing stays.                       *)
LEMMA WalkTorn ==
    ASSUME stays' = {} PROVE WalkKept'
  BY DEF WalkKept, SeenUpTo

(* A claimed job is not on the queue.                                      *)
LEMMA ClaimedIs ==
    ASSUME NEW i \in Pages!Claimed PROVE i \in payload /\ i \notin Lists(queue)
  BY IsSet DEF Pages!Claimed

(* A worker is done with a job.                                            *)
LEMMA FinishStep == ASSUME PagesInv, NEW i \in Ids, Pages!Finish(i) PROVE PagesInv'
<1>1. /\ i \in payload /\ i \notin Lists(queue) /\ payload' = payload \ {i}
      /\ queue' = queue /\ dead' = dead /\ reviving' = reviving
      /\ stays' = stays \cap Lists(queue') \cap payload'
  BY IsSet, ClaimedIs DEF Pages!Finish, Pages!Waiting
<1>2. /\ request' = request /\ steady' = FALSE /\ kept' \in BOOLEAN
      /\ (kept' => kept) /\ (kept' => i # request.arg)
  BY DEF Pages!Finish, Pages!Move, PagesInv, PagesTyped
<1>3. /\ queue \in Seq(Ids) /\ dead \in Seq(Ids) /\ reviving \in Seq(Ids) /\ payload \in SUBSET Ids
      /\ Apart /\ JobKept
  BY DEF PagesInv, PagesTyped
<1>4. Apart'
  BY <1>1, <1>3 DEF Apart, ApartOf
<1>5. JobKept'
  BY <1>1, <1>2, <1>3, JobMoves
<1>6. WalkKept'
  BY <1>1, <1>2, WalkQuiet
<1> QED
  BY <1>1, <1>2, <1>3, <1>4, <1>5, <1>6, MovesKeep

(* An element pushed on the left.                                          *)
LEMMA Pushed ==
    ASSUME NEW A, NEW s \in Seq(A), NEW i \in A
    PROVE  LET t == <<i>> \o s
           IN  /\ t \in Seq(A) /\ Len(t) = Len(s) + 1 /\ DOMAIN t = 1 .. Len(s) + 1 /\ t[1] = i
               /\ Len(s) \in Nat /\ DOMAIN s = 1 .. Len(s)
               /\ \A n \in 2 .. Len(s) + 1 : n - 1 \in DOMAIN s /\ t[n] = s[n - 1]
  OBVIOUS

(* The dead list after a kill: the job, and the first of the others.       *)
LEMMA TrimmedIs ==
    ASSUME NEW i \in Ids, NEW d \in Seq(Ids)
    PROVE  LET t == Pages!Trimmed(<<i>> \o d)
           IN  /\ t \in Seq(Ids) /\ 1 \in DOMAIN t /\ t[1] = i
               /\ \A n \in DOMAIN t : n = 1 \/ (n - 1 \in DOMAIN d /\ t[n] = d[n - 1])
<1> DEFINE u == <<i>> \o d
<1>1. /\ u \in Seq(Ids) /\ Len(u) = Len(d) + 1 /\ DOMAIN u = 1 .. Len(d) + 1 /\ u[1] = i
      /\ Len(d) \in Nat /\ DOMAIN d = 1 .. Len(d)
      /\ \A n \in 2 .. Len(d) + 1 : n - 1 \in DOMAIN d /\ u[n] = d[n - 1]
  BY Pushed
<1> HIDE DEF u
<1>2. DeadLimit \in Nat
  BY PagesConstants
<1>3. CASE DeadLimit > 0 /\ Len(u) > DeadLimit
  <2> DEFINE t == SubSeq(u, 1, DeadLimit)
  <2>1. t \in Seq(Ids) /\ DOMAIN t = 1 .. DeadLimit /\ \A n \in 1 .. DeadLimit : t[n] = u[n]
    BY <1>1, <1>2, <1>3
  <2> HIDE DEF t
  <2>2. Pages!Trimmed(u) = t
    BY <1>3 DEF Pages!Trimmed, t
  <2>3. 1 \in DOMAIN t /\ t[1] = i /\ \A n \in DOMAIN t : n = 1 \/ (n - 1 \in DOMAIN d /\ t[n] = d[n - 1])
    BY <1>1, <1>2, <1>3, <2>1
  <2> QED
    BY <2>1, <2>2, <2>3 DEF u
<1>4. CASE ~(DeadLimit > 0 /\ Len(u) > DeadLimit)
  <2>1. Pages!Trimmed(u) = u
    BY <1>4 DEF Pages!Trimmed
  <2> DEFINE t == Pages!Trimmed(u)
  <2>2. t \in Seq(Ids) /\ 1 \in DOMAIN t /\ t[1] = i
    BY <1>1, <2>1
  <2>3. \A n \in DOMAIN t : n = 1 \/ (n - 1 \in DOMAIN d /\ t[n] = d[n - 1])
    BY <1>1, <2>1
  <2> QED
    BY <2>2, <2>3, Zenon DEF u
<1> QED
  BY <1>3, <1>4

(* A worker gives a job up.                                                *)
LEMMA KillStep == ASSUME PagesInv, NEW i \in Ids, Pages!Kill(i) PROVE PagesInv'
<1>1. /\ i \in payload /\ i \notin Lists(queue) /\ payload' = payload \ {i}
      /\ queue' = queue /\ reviving' = reviving /\ dead' = Pages!Trimmed(<<i>> \o dead)
      /\ stays' = stays \cap Lists(queue') \cap payload'
  BY IsSet, ClaimedIs DEF Pages!Kill, Pages!Waiting
<1>2. /\ request' = request /\ steady' = FALSE /\ kept' \in BOOLEAN /\ (kept' => kept)
      /\ kept' => request.pc # "counted"
      /\ kept' => (request.arg \in Lists(dead) => request.arg \in Lists(dead'))
  BY IsSet DEF Pages!Kill, Pages!Move, PagesInv, PagesTyped
<1>3. /\ queue \in Seq(Ids) /\ dead \in Seq(Ids) /\ reviving \in Seq(Ids) /\ payload \in SUBSET Ids
      /\ Apart /\ JobKept
  BY DEF PagesInv, PagesTyped
<1>4. /\ dead' \in Seq(Ids) /\ 1 \in DOMAIN dead' /\ dead'[1] = i
      /\ \A n \in DOMAIN dead' : n = 1 \/ (n - 1 \in DOMAIN dead /\ dead'[n] = dead[n - 1])
  BY <1>1, <1>3, TrimmedIs
<1>5. i \in Lists(dead') /\ Lists(dead') \subseteq Lists(dead) \cup {i}
  BY <1>4 DEF Lists
<1>6. Distinct(dead')
  <2> SUFFICES ASSUME NEW m \in DOMAIN dead', NEW n \in DOMAIN dead', dead'[m] = dead'[n] PROVE m = n
    BY DEF Distinct
  <2>1. \A k \in DOMAIN dead : dead[k] # i
    BY <1>1, <1>3 DEF Apart, ApartOf, Lists
  <2>2. m \in Nat /\ n \in Nat
    BY <1>4
  <2>3. CASE m = 1 \/ n = 1
    BY <1>4, <2>1, <2>3
  <2>4. CASE m # 1 /\ n # 1
    <3>1. m - 1 \in DOMAIN dead /\ n - 1 \in DOMAIN dead /\ dead[m - 1] = dead[n - 1]
      BY <1>4, <2>4
    <3>2. m - 1 = n - 1
      BY <1>3, <3>1 DEF Apart, ApartOf, Distinct
    <3> QED
      BY <2>2, <3>2
  <2> QED
    BY <2>3, <2>4
<1>7. Apart'
  <2>1. i \notin Lists(reviving)
    BY <1>1, <1>3 DEF Apart, ApartOf
  <2>2. ApartOf(queue, dead', reviving, payload \ {i})
    BY <1>1, <1>3, <1>5, <1>6, <2>1 DEF Apart, ApartOf
  <2> QED
    BY <1>1, <2>2 DEF Apart
<1>8. JobKept'
  <2>1. kept' /\ request.arg \in payload \cup Lists(dead) => request.arg \in payload' \cup Lists(dead')
    BY <1>1, <1>2, <1>5
  <2> QED
    BY <1>2, <1>3, <2>1, JobMoves
<1>9. WalkKept'
  BY <1>1, <1>2, WalkQuiet
<1> QED
  BY <1>1, <1>2, <1>3, <1>4, <1>7, <1>8, <1>9, MovesKeep

(* revive_all_dead takes the dead list over ...                            *)
LEMMA ReviveClaimStep == ASSUME PagesInv, Pages!ReviveClaim PROVE PagesInv'
<1>1. /\ reviving = <<>> /\ reviving' = dead /\ dead' = <<>> /\ queue' = queue /\ payload' = payload
      /\ stays' = stays \cap Lists(queue') \cap payload'
  BY IsSet DEF Pages!ReviveClaim, Pages!Waiting
<1>2. /\ request' = request /\ steady' = FALSE /\ kept' \in BOOLEAN
      /\ (kept' => kept) /\ (kept' => request.arg \notin Lists(dead))
  BY IsSet DEF Pages!ReviveClaim, Pages!Move, PagesInv, PagesTyped
<1>3. /\ queue \in Seq(Ids) /\ dead \in Seq(Ids) /\ reviving \in Seq(Ids) /\ payload \in SUBSET Ids
      /\ Apart /\ JobKept
  BY DEF PagesInv, PagesTyped
<1>4. Lists(<<>>) = {} /\ Distinct(<<>>) /\ <<>> \in Seq(Ids)
  BY DEF Lists, Distinct
<1>5. Apart'
  <2>1. ApartOf(queue, <<>>, dead, payload)
    BY <1>3, <1>4 DEF Apart, ApartOf
  <2> QED
    BY <1>1, <2>1 DEF Apart
<1>6. JobKept'
  <2>1. kept' => request.pc # "counted"
    BY <1>2, <1>3 DEF JobKept
  <2> QED
    BY <1>1, <1>2, <1>3, <2>1, JobMoves
<1>7. WalkKept'
  BY <1>1, <1>2, WalkQuiet
<1> QED
  BY <1>1, <1>2, <1>3, <1>4, <1>5, <1>6, <1>7, MovesKeep

(* ... and pushes its jobs on the left of their queue.                     *)
LEMMA ReviveOneStep == ASSUME PagesInv, Pages!ReviveOne PROVE PagesInv'
<1> DEFINE h == Head(reviving)
<1>1. /\ reviving # <<>> /\ reviving' = Tail(reviving) /\ queue' = <<h>> \o queue
      /\ payload' = payload \cup {h} /\ dead' = dead
      /\ stays' = stays \cap Lists(queue') \cap payload'
  BY IsSet DEF Pages!ReviveOne, Pages!Waiting
<1>2. request' = request /\ steady' = FALSE /\ kept' \in BOOLEAN /\ (kept' => kept)
  BY MoveIs DEF Pages!ReviveOne
<1>3. /\ queue \in Seq(Ids) /\ dead \in Seq(Ids) /\ reviving \in Seq(Ids) /\ payload \in SUBSET Ids
      /\ Apart /\ JobKept /\ WalkKept /\ request.count \in Nat /\ request.arg \in Nat
  BY DEF PagesInv, PagesTyped, IsRequest, Requests
<1>4. /\ h \in Ids /\ reviving' \in Seq(Ids) /\ 1 \in DOMAIN reviving /\ h = reviving[1]
      /\ \A n \in DOMAIN reviving' : n + 1 \in DOMAIN reviving /\ n \in Nat /\ n # 0
                                    /\ reviving'[n] = reviving[n + 1]
  BY <1>1, <1>3
<1> HIDE DEF h
<1>5. /\ queue' \in Seq(Ids) /\ Len(queue') = Len(queue) + 1 /\ DOMAIN queue' = 1 .. Len(queue) + 1
      /\ queue'[1] = h /\ Len(queue) \in Nat /\ DOMAIN queue = 1 .. Len(queue)
      /\ \A n \in 2 .. Len(queue) + 1 : n - 1 \in DOMAIN queue /\ queue'[n] = queue[n - 1]
  BY <1>1, <1>3, <1>4, Pushed
<1>6. h \in Lists(reviving) /\ Lists(queue') \subseteq Lists(queue) \cup {h}
  <2>1. h \in Lists(reviving)
    BY <1>4 DEF Lists
  <2>2. ASSUME NEW n \in DOMAIN queue' PROVE queue'[n] \in Lists(queue) \cup {h}
    <3>1. n = 1 \/ n \in 2 .. Len(queue) + 1
      BY <1>5
    <3> QED
      BY <1>5, <3>1 DEF Lists
  <2>3. ASSUME NEW x \in Lists(queue') PROVE x \in Lists(queue) \cup {h}
    BY <2>2, <2>3 DEF Lists
  <2> QED
    BY <2>1, <2>3
<1>7. h \notin Lists(queue) /\ h \notin Lists(dead)
  BY <1>3, <1>6 DEF Apart, ApartOf
<1>8. /\ Distinct(reviving') /\ Lists(reviving') \subseteq Lists(reviving) /\ h \notin Lists(reviving')
  <2>1. \A m, n \in DOMAIN reviving : reviving[m] = reviving[n] => m = n
    BY <1>3 DEF Apart, ApartOf, Distinct
  <2>2. Lists(reviving') \subseteq Lists(reviving)
    BY <1>4 DEF Lists
  <2>3. Distinct(reviving')
    <3> SUFFICES ASSUME NEW m \in DOMAIN reviving', NEW n \in DOMAIN reviving', reviving'[m] = reviving'[n]
                 PROVE  m = n
      BY DEF Distinct
    <3>1. m + 1 = n + 1
      BY <1>4, <2>1
    <3> QED
      BY <1>4, <3>1
  <2>4. ASSUME NEW n \in DOMAIN reviving' PROVE reviving'[n] # h
    BY <1>4, <2>1
  <2> QED
    BY <2>2, <2>3, <2>4 DEF Lists
<1>9. Distinct(queue')
  <2> SUFFICES ASSUME NEW m \in DOMAIN queue', NEW n \in DOMAIN queue', queue'[m] = queue'[n] PROVE m = n
    BY DEF Distinct
  <2>1. \A j, k \in DOMAIN queue : queue[j] = queue[k] => j = k
    BY <1>3 DEF Apart, ApartOf, Distinct
  <2>2. \A j \in DOMAIN queue : queue[j] # h
    BY <1>7 DEF Lists
  <2>3. CASE m = 1 \/ n = 1
    BY <1>5, <2>2, <2>3
  <2>4. CASE m # 1 /\ n # 1
    <3>1. m \in 2 .. Len(queue) + 1 /\ n \in 2 .. Len(queue) + 1
      BY <1>5, <2>4
    <3>2. /\ m - 1 \in DOMAIN queue /\ queue'[m] = queue[m - 1]
          /\ n - 1 \in DOMAIN queue /\ queue'[n] = queue[n - 1]
      BY <1>5, <3>1
    <3>3. m - 1 = n - 1
      BY <2>1, <3>2
    <3> QED
      BY <3>1, <3>3
  <2> QED
    BY <2>3, <2>4
<1>10. Apart'
  <2>1. ApartOf(queue', dead, reviving', payload \cup {h})
    BY <1>3, <1>6, <1>7, <1>8, <1>9 DEF Apart, ApartOf
  <2> QED
    BY <1>1, <2>1 DEF Apart
<1>11. JobKept'
  BY <1>1, <1>2, <1>3, JobMoves
<1>12. WalkKept'
  <2>1. stays' # {} => Lists(queue') \subseteq payload'
    BY <1>1, <1>3, <1>6 DEF WalkKept
  <2>2. h \notin stays
    BY <1>3, <1>7 DEF WalkKept
  <2>3. \A n \in 1 .. Len(queue') : IF n <= 1 THEN queue'[n] \notin stays ELSE queue'[n] = queue[n - 1]
    BY <1>5, <2>2
  <2>4. /\ Len(queue') <= Len(queue) + 1 /\ 1 \in {0, 1}
        /\ stays' \subseteq stays /\ stays' \subseteq Lists(queue')
    BY <1>1, <1>5
  <2>5. queue' \in Seq(Ids) /\ queue \in Seq(Ids)
    BY <1>3, <1>5
  <2> QED
    BY <1>2, <1>3, <2>1, <2>3, <2>4, <2>5, WalkMoves
<1> QED
  BY <1>1, <1>2, <1>3, <1>4, <1>5, <1>10, <1>11, <1>12, MovesKeep

(* Torn or Waiting, as the job was on the queue or not.                    *)
LEMMA TornIs ==
    ASSUME NEW i, Pages!Torn(i)
    PROVE  \/ i \in Lists(queue) /\ stays' = {}
           \/ i \notin Lists(queue) /\ stays' = stays \cap Lists(queue') \cap payload'
  BY IsSet DEF Pages!Torn, Pages!Waiting

(* A payload expires.                                                      *)
LEMMA ExpireStep == ASSUME PagesInv, NEW i \in Ids, Pages!Expire(i) PROVE PagesInv'
<1>1. /\ i \in payload /\ i \in Lists(queue) /\ payload' = payload \ {i}
      /\ queue' = queue /\ dead' = dead /\ reviving' = reviving /\ stays' = {}
  BY IsSet, TornIs DEF Pages!Expire
<1>2. /\ request' = request /\ steady' = FALSE /\ kept' \in BOOLEAN
      /\ (kept' => kept) /\ (kept' => i # request.arg)
  BY DEF Pages!Expire, Pages!Move, PagesInv, PagesTyped
<1>3. /\ queue \in Seq(Ids) /\ dead \in Seq(Ids) /\ reviving \in Seq(Ids) /\ payload \in SUBSET Ids
      /\ Apart /\ JobKept
  BY DEF PagesInv, PagesTyped
<1>4. Apart'
  BY <1>1, <1>3 DEF Apart, ApartOf
<1>5. JobKept'
  BY <1>1, <1>2, <1>3, JobMoves
<1>6. WalkKept'
  BY <1>1, WalkTorn
<1> QED
  BY <1>1, <1>2, <1>3, <1>4, <1>5, <1>6, MovesKeep

(* A filter keeps the elements apart.                                      *)
LEMMA OnlyDistinct ==
    ASSUME NEW s \in Seq(Ids), NEW S
    PROVE  /\ Lists(Pages!Only(s, S)) \subseteq Lists(s)
           /\ Distinct(s) => Distinct(Pages!Only(s, S))
<1> DEFINE t == Pages!Only(s, S)
<1>1. t \in Seq(Ids) /\ DOMAIN s = 1 .. Len(s)
  BY OnlyKeeps
<1>2. PICK e : Embeds(e, t, s, S, Len(s))
  BY OnlyKeeps
<1> HIDE DEF t
<1>3. Lists(t) \subseteq Lists(s)
  BY <1>1, <1>2 DEF Embeds, Lists
<1>4. ASSUME Distinct(s), NEW m \in DOMAIN t, NEW n \in DOMAIN t, t[m] = t[n] PROVE m = n
  <2>1. e[m] = e[n]
    BY <1>1, <1>2, <1>4 DEF Embeds, Distinct
  <2>2. m \in Nat /\ n \in Nat /\ e[m] \in Nat
    BY <1>1, <1>2 DEF Embeds
  <2>3. ~(m < n) /\ ~(n < m)
    BY <1>2, <2>1, <2>2 DEF Embeds
  <2> QED
    BY <2>2, <2>3
<1> QED
  BY <1>3, <1>4 DEF Distinct, t

(* A job is deleted.                                                       *)
LEMMA DeleteStep == ASSUME PagesInv, NEW i \in Ids, Pages!Delete(i) PROVE PagesInv'
<1>1. /\ i \in payload /\ payload' = payload \ {i} /\ queue' = Pages!Only(queue, Ids \ {i})
      /\ dead' = dead /\ reviving' = reviving
      /\ \/ i \in Lists(queue) /\ stays' = {}
         \/ i \notin Lists(queue) /\ stays' = stays \cap Lists(queue') \cap payload'
  BY TornIs DEF Pages!Delete
<1>2. /\ request' = request /\ steady' = FALSE /\ kept' \in BOOLEAN
      /\ (kept' => kept) /\ (kept' => i # request.arg)
  BY DEF Pages!Delete, Pages!Move, PagesInv, PagesTyped
<1>3. /\ queue \in Seq(Ids) /\ dead \in Seq(Ids) /\ reviving \in Seq(Ids) /\ payload \in SUBSET Ids
      /\ Apart /\ JobKept
  BY DEF PagesInv, PagesTyped
<1>4. /\ queue' \in Seq(Ids) /\ Lists(queue') \subseteq Lists(queue) /\ Distinct(queue')
  BY <1>1, <1>3, OnlyKeeps, OnlyDistinct DEF Apart, ApartOf
<1>5. Apart'
  <2>1. ApartOf(queue', dead, reviving, payload \ {i})
    BY <1>3, <1>4 DEF Apart, ApartOf
  <2> QED
    BY <1>1, <2>1 DEF Apart
<1>6. JobKept'
  BY <1>1, <1>2, <1>3, JobMoves
<1>7. WalkKept'
  <2>1. CASE i \in Lists(queue)
    BY <1>1, <2>1, WalkTorn
  <2>2. CASE i \notin Lists(queue)
    <3>1. \A n \in DOMAIN queue : queue[n] \in Ids \ {i}
      BY <1>3, <2>2 DEF Lists
    <3>2. queue' = queue
      BY <1>1, <1>3, <3>1, OnlyKeeps
    <3> QED
      BY <1>1, <1>2, <2>2, <3>2, WalkQuiet
  <2> QED
    BY <2>1, <2>2
<1> QED
  BY <1>1, <1>2, <1>3, <1>4, <1>5, <1>6, <1>7, MovesKeep

(* A request served: what is left to show.                                 *)
LEMMA ServesKeep ==
    ASSUME PagesInv, IsRequest(request)', kept' \in BOOLEAN, steady' \in BOOLEAN,
           UNCHANGED <<queue, dead, payload, reviving>>, JobKept', WalkKept', PageKept'
    PROVE  PagesInv'
<1>1. PagesTyped'
  BY DEF PagesInv, PagesTyped
<1>2. Apart'
  BY DEF PagesInv, Apart
<1> QED
  BY <1>1, <1>2 DEF PagesInv

(* What serving a request leaves alone.                                    *)
LEMMA ServeIs ==
    ASSUME PagesInv, NEW r, Pages!Serve(r)
    PROVE  /\ request' = r /\ queue' = queue /\ dead' = dead /\ payload' = payload /\ reviving' = reviving
           /\ kept' = kept /\ steady' = steady /\ stays' = stays
           /\ kept' \in BOOLEAN /\ steady' \in BOOLEAN
  BY DEF PagesInv, PagesTyped, Pages!Serve

(* The requests that an invariant is not about.                            *)
LEMMA NoWalk ==
    ASSUME PagesInv, queue' = queue, payload' = payload, stays' = stays, request'.kind # "walk"
    PROVE  WalkKept'
  BY DEF PagesInv, WalkKept, Lists

(* Requests for another kind of answer keep what is known of a job,        *)
LEMMA NoJob ==
    ASSUME PagesInv, kept' = kept, request'.kind = request.kind, request.kind # "job"
    PROVE  JobKept'
  BY DEF PagesInv, JobKept

(* and of a page.                                                          *)
LEMMA NoPage ==
    ASSUME request'.kind \notin {"queue", "deads"} PROVE PageKept'
  BY DEF PageKept

(* A request with another place or answer.                                 *)
LEMMA Answers ==
    ASSUME PagesInv, NEW a \in Replies
    PROVE  LET r == [request EXCEPT !.pc = "idle", !.answer = a]
           IN  /\ IsRequest(r) /\ r.pc = "idle" /\ r.answer = a /\ r.kind = request.kind /\ r.arg = request.arg
               /\ r.asked = request.asked /\ r.count = request.count /\ r.ids = request.ids
               /\ r.seen = request.seen
<1>1. request \in Requests
  BY DEF PagesInv, PagesTyped, IsRequest, Requests
<1> DEFINE r == [request EXCEPT !.pc = "idle", !.answer = a]
<1>2. /\ r.pc = "idle" /\ r.answer = a /\ r.kind = request.kind /\ r.arg = request.arg
      /\ r.asked = request.asked /\ r.count = request.count /\ r.ids = request.ids
      /\ r.seen = request.seen
  BY <1>1 DEF Requests
<1>3. r \in Requests
  BY <1>1 DEF Requests
<1> HIDE DEF r
<1>4. IsRequest(r)
  BY <1>2, <1>3 DEF IsRequest
<1> QED
  BY <1>2, <1>4 DEF r

(* What an answer leaves alone.                                            *)
LEMMA AnswerIs ==
    ASSUME PagesInv, NEW a \in Replies, Pages!Answer(a)
    PROVE  /\ IsRequest(request)' /\ request'.pc = "idle" /\ request'.answer = a
           /\ request'.kind = request.kind /\ request'.arg = request.arg /\ request'.asked = request.asked
           /\ request'.count = request.count /\ request'.ids = request.ids /\ request'.seen = request.seen
           /\ queue' = queue /\ dead' = dead /\ payload' = payload /\ reviving' = reviving
           /\ kept' = kept /\ steady' = steady /\ stays' = stays
           /\ kept' \in BOOLEAN /\ steady' \in BOOLEAN
<1> DEFINE r == [request EXCEPT !.pc = "idle", !.answer = a]
<1>1. Pages!Serve(r)
  BY DEF Pages!Answer
<1>2. /\ IsRequest(r) /\ r.pc = "idle" /\ r.answer = a /\ r.kind = request.kind /\ r.arg = request.arg
      /\ r.asked = request.asked /\ r.count = request.count /\ r.ids = request.ids
      /\ r.seen = request.seen
  BY Answers, Zenon
<1> HIDE DEF r
<1>3. /\ request' = r /\ queue' = queue /\ dead' = dead /\ payload' = payload /\ reviving' = reviving
      /\ kept' = kept /\ steady' = steady /\ stays' = stays
      /\ kept' \in BOOLEAN /\ steady' \in BOOLEAN
  BY <1>1, ServeIs
<1>4. IsRequest(request)'
  BY <1>2, <1>3 DEF IsRequest
<1> QED
  BY <1>2, <1>3, <1>4

(* A request is made.                                                      *)
LEMMA RequestStep ==
    ASSUME PagesInv, NEW kd \in {"job", "queue", "deads", "walk"}, NEW n \in Nat, Pages!Request(kd, n)
    PROVE  PagesInv'
<1>1. /\ request' = [pc |-> "start", kind |-> kd, arg |-> n, asked |-> n, count |-> 0, ids |-> <<>>,
                     seen |-> {}, answer |-> None]
      /\ queue' = queue /\ dead' = dead /\ payload' = payload /\ reviving' = reviving
      /\ stays' = IF kd = "walk" /\ Lists(queue) \subseteq payload THEN Lists(queue) ELSE {}
  BY IsSet DEF Pages!Request, Pages!Idle
<1>2. /\ kept' \in BOOLEAN /\ steady' \in BOOLEAN
      /\ kept' => kd = "job" /\ n \in payload \cup Lists(dead)
  BY IsSet DEF Pages!Request
<1>3. IsRequest(request)'
  BY <1>1 DEF IsRequest, Requests, Replies
<1>4. JobKept'
  BY <1>1, <1>2 DEF JobKept
<1>5. PageKept'
  BY <1>1 DEF PageKept, PageGood
<1>6. WalkKept'
  <2>1. queue \in Seq(Ids)
    BY DEF PagesInv, PagesTyped
  <2>2. \A m \in DOMAIN queue : ~(m <= 0)
    BY <2>1
  <2>3. stays' \subseteq Lists(queue') /\ (stays' # {} => Lists(queue') \subseteq payload')
    BY <1>1
  <2>4. SeenUpTo(request.count, request.seen)'
    BY <1>1, <2>2 DEF SeenUpTo
  <2> QED
    BY <1>1, <2>3, <2>4 DEF WalkKept
<1> QED
  BY <1>1, <1>2, <1>3, <1>4, <1>5, <1>6, ServesKeep

(* A request is over.                                                      *)
LEMMA ShowStep == ASSUME PagesInv, Pages!Show PROVE PagesInv'
<1>1. /\ request' = Pages!Idle /\ kept' = FALSE /\ steady' = FALSE /\ stays' = {}
      /\ queue' = queue /\ dead' = dead /\ payload' = payload /\ reviving' = reviving
  BY DEF Pages!Show
<1>2. IsRequest(request)'
  BY <1>1, IdleRequest DEF IsRequest, Pages!Idle
<1>3. kept' \in BOOLEAN /\ steady' \in BOOLEAN
  BY <1>1, Zenon
<1>4. JobKept' /\ PageKept'
  BY <1>1 DEF JobKept, PageKept
<1>5. WalkKept'
  BY <1>1, WalkTorn
<1> QED
  BY <1>1, <1>2, <1>3, <1>4, <1>5, ServesKeep

(* A reply to somebody who looks for a job.                                *)
LEMMA JobAnswered ==
    ASSUME PagesInv, request.kind = "job", NEW a \in Replies, Pages!Answer(a), kept => a # "absent"
    PROVE  PagesInv'
<1>1. /\ IsRequest(request)' /\ request'.pc = "idle" /\ request'.answer = a /\ request'.kind = "job"
      /\ queue' = queue /\ dead' = dead /\ payload' = payload /\ reviving' = reviving
      /\ kept' = kept /\ stays' = stays /\ kept' \in BOOLEAN /\ steady' \in BOOLEAN
  BY AnswerIs
<1>2. JobKept'
  BY <1>1 DEF JobKept
<1>3. WalkKept'
  BY <1>1, NoWalk
<1>4. PageKept'
  BY <1>1, NoPage
<1> QED
  BY <1>1, <1>2, <1>3, <1>4, ServesKeep

(* The stored jobs are asked first.                                        *)
LEMMA GetJobStep == ASSUME PagesInv, Pages!GetJob PROVE PagesInv'
<1>1. request.pc = "start" /\ request.kind = "job"
  BY DEF Pages!GetJob
<1>2. CASE request.arg \in payload
  <2>1. Pages!Answer("stored") /\ "stored" \in Replies /\ "stored" # "absent"
    BY <1>2 DEF Pages!GetJob, Replies
  <2> QED
    BY <1>1, <2>1, JobAnswered
<1>3. CASE request.arg \notin payload
  <2> DEFINE r == [request EXCEPT !.pc = "missed"]
  <2>1. Pages!Serve(r)
    BY <1>3 DEF Pages!GetJob
  <2>2. request \in Requests
    BY DEF PagesInv, PagesTyped, IsRequest
  <2>3. r \in Requests /\ r.pc = "missed" /\ r.kind = request.kind /\ r.arg = request.arg
    BY <2>2 DEF Requests
  <2> HIDE DEF r
  <2>4. /\ request' = r /\ queue' = queue /\ dead' = dead /\ payload' = payload /\ reviving' = reviving
        /\ kept' = kept /\ stays' = stays /\ kept' \in BOOLEAN /\ steady' \in BOOLEAN
    BY <2>1, ServeIs
  <2>5. IsRequest(request)'
    BY <1>1, <2>3, <2>4 DEF IsRequest
  <2>6. JobKept'
    BY <1>1, <1>3, <2>3, <2>4 DEF JobKept, PagesInv, Lists
  <2>7. WalkKept'
    BY <1>1, <2>3, <2>4, NoWalk
  <2>8. PageKept'
    BY <1>1, <2>3, <2>4, NoPage
  <2> QED
    BY <2>4, <2>5, <2>6, <2>7, <2>8, ServesKeep
<1> QED
  BY <1>2, <1>3

(* Then the dead list is counted ...                                       *)
LEMMA DeadCountStep == ASSUME PagesInv, Pages!DeadCount PROVE PagesInv'
<1>1. request.pc = "missed" /\ request.kind = "job"
  BY DEF Pages!DeadCount, PagesInv, PagesTyped, IsRequest
<1>0. dead \in Seq(Ids)
  BY DEF PagesInv, PagesTyped
<1>2. CASE dead = <<>>
  <2>1. Pages!Answer("absent") /\ "absent" \in Replies
    BY <1>2 DEF Pages!DeadCount, Replies
  <2>2. ~kept
    BY <1>1, <1>2 DEF PagesInv, JobKept, Lists
  <2> QED
    BY <1>1, <2>1, <2>2, JobAnswered
<1>3. CASE dead # <<>>
  <2> DEFINE r == [request EXCEPT !.pc = "counted", !.count = Len(dead)]
  <2>1. Pages!Serve(r)
    BY <1>3 DEF Pages!DeadCount
  <2>2. request \in Requests /\ Len(dead) \in Nat
    BY <1>0 DEF PagesInv, PagesTyped, IsRequest
  <2>3. /\ r \in Requests /\ r.pc = "counted" /\ r.kind = request.kind /\ r.arg = request.arg
        /\ r.count = Len(dead)
    BY <2>2 DEF Requests
  <2> HIDE DEF r
  <2>4. /\ request' = r /\ queue' = queue /\ dead' = dead /\ payload' = payload /\ reviving' = reviving
        /\ kept' = kept /\ stays' = stays /\ kept' \in BOOLEAN /\ steady' \in BOOLEAN
    BY <2>1, ServeIs
  <2>5. IsRequest(request)'
    BY <1>1, <2>3, <2>4 DEF IsRequest
  <2>6. JobKept'
    BY <1>1, <2>3, <2>4 DEF JobKept, PagesInv, Lists
  <2>7. WalkKept'
    BY <1>1, <2>3, <2>4, NoWalk
  <2>8. PageKept'
    BY <1>1, <2>3, <2>4, NoPage
  <2> QED
    BY <2>4, <2>5, <2>6, <2>7, <2>8, ServesKeep
<1> QED
  BY <1>2, <1>3

(* ... and read to that count.                                             *)
LEMMA FindDeadStep == ASSUME PagesInv, Pages!FindDead PROVE PagesInv'
<1>1. request.pc = "counted" /\ request.kind = "job" /\ dead \in Seq(Ids)
  BY DEF Pages!FindDead, PagesInv, PagesTyped, IsRequest
<1> DEFINE t == Pages!ListRange(dead, 0, request.count)
           a == IF request.arg \in Lists(t) THEN "dead" ELSE "absent"
<1>2. Pages!Answer(a)
  BY IsSet DEF Pages!FindDead
<1>3. a \in Replies
  BY DEF Replies
<1>4. ASSUME kept PROVE a # "absent"
  <2>1. request.arg \in Lists(dead) /\ request.count = Len(dead)
    BY <1>1, <1>4 DEF PagesInv, JobKept
  <2>3. t = dead
    BY <1>1, <2>1, WholeRange
  <2>4. request.arg \in Lists(t)
    BY <2>1, <2>3
  <2> QED
    BY <2>4
<1> HIDE DEF a
<1> QED
  BY <1>1, <1>2, <1>3, <1>4, JobAnswered

(* Products and quotients of numbers.                                      *)
LEMMA Quotient ==
    ASSUME NEW a \in Nat, NEW b \in Nat \ {0}
    PROVE  a \div b \in Nat /\ (a \div b) * b <= a /\ a < (a \div b) * b + b
<1>1. a \div b \in Nat
  OBVIOUS
<1>2. (a \div b) * b <= a
  OBVIOUS
<1>3. a < ((a \div b) + 1) * b
  OBVIOUS
<1>4. \A q \in Nat : (q + 1) * b = q * b + b
  OBVIOUS
<1> QED
  BY <1>1, <1>2, <1>3, <1>4

(* Multiples of a page.                                                    *)
LEMMA Products ==
    ASSUME NEW a \in Nat, NEW b \in Nat, NEW p \in Nat \ {0}
    PROVE  /\ a * p \in Nat /\ b * p \in Nat /\ (a <= b => a * p <= b * p) /\ (a * p < b * p => a < b)
           /\ (a + 1) * p = a * p + p
<1>1. a * p \in Nat /\ b * p \in Nat
  OBVIOUS
<1>2. a <= b => a * p <= b * p
  OBVIOUS
<1>3. a * p < b * p => a < b
  OBVIOUS
<1>4. (a + 1) * p = a * p + p
  OBVIOUS
<1> QED
  BY <1>1, <1>2, <1>3, <1>4

(* clamp_number and list_opts: a page that exists is kept, and a page of   *)
(* a list that is not empty begins within it.                              *)
LEMMA PageNumbers ==
    ASSUME NEW n \in Nat, NEW total \in Nat
    PROVE  LET c == Pages!ClampNumber(n, total)
           IN  /\ c \in Nat /\ c >= 1 /\ Pages!Offset(c) \in Nat /\ Pages!Offset(n) \in Nat
               /\ Pages!Offset(c) = (c - 1) * PerPage
               /\ Pages!Offset(n) < total => c = Pages!Max({1, n})
               /\ total > 0 => Pages!Offset(c) < total
<1> DEFINE p == PerPage
           q == (total + p - 1) \div p
           l == IF 1 >= q THEN 1 ELSE q
           u == IF n <= l THEN n ELSE l
           c == IF 1 >= u THEN 1 ELSE u
           m == IF 1 >= n THEN 1 ELSE n
<1>1. p \in Nat \ {0} /\ total + p - 1 \in Nat
  BY PagesConstants
<1> HIDE DEF p
<1>2. q \in Nat /\ q * p <= total + p - 1 /\ total + p - 1 < q * p + p
  BY <1>1, Quotient
<1> HIDE DEF q
<1>3. l \in Nat /\ u \in Nat /\ c \in Nat /\ m \in Nat /\ c >= 1 /\ m >= 1 /\ c - 1 \in Nat /\ m - 1 \in Nat
  BY <1>2
<1>4. Pages!Max({1, q}) = l /\ Pages!Min({n, l}) = u /\ Pages!Max({1, u}) = c /\ Pages!Max({1, n}) = m
      /\ Pages!Max({1, c}) = c
  <2>1. 1 \in Int /\ q \in Int /\ n \in Int /\ l \in Int /\ u \in Int /\ c \in Int
    BY <1>2, <1>3
  <2>2. /\ Pages!Max({1, q}) = (IF 1 >= q THEN 1 ELSE q) /\ Pages!Min({n, l}) = (IF n <= l THEN n ELSE l)
        /\ Pages!Max({1, u}) = (IF 1 >= u THEN 1 ELSE u) /\ Pages!Max({1, n}) = (IF 1 >= n THEN 1 ELSE n)
        /\ Pages!Max({1, c}) = (IF 1 >= c THEN 1 ELSE c)
    <3> HIDE DEF l, u, c
    <3> QED
      BY <2>1, OfTwo
  <2> QED
    BY <1>3, <2>2
<1>5. Pages!ClampNumber(n, total) = c
  BY <1>4, Zenon DEF Pages!ClampNumber, p, q
<1>6. Pages!Offset(c) = (c - 1) * p /\ Pages!Offset(n) = (m - 1) * p
  BY <1>4, Zenon DEF Pages!Offset, p
<1>7. (c - 1) * p \in Nat /\ (m - 1) * p \in Nat
  BY <1>1, <1>3, Products
<1>8. ASSUME (m - 1) * p < total PROVE c = m
  <2>1. (m - 1) * p < q * p
    <3> DEFINE x == (m - 1) * p
               y == q * p
    <3>1. x \in Nat /\ y \in Nat
      BY <1>1, <1>2, <1>7, Products
    <3>2. x < total /\ total + p - 1 < y + p
      BY <1>2, <1>8
    <3> HIDE DEF x, y
    <3>3. x < y
      BY <1>1, <3>1, <3>2
    <3> QED
      BY <3>3 DEF x, y
  <2>2. m - 1 < q
    BY <1>1, <1>2, <1>3, <2>1, Products
  <2> QED
    BY <1>2, <1>3, <2>2
<1>9. ASSUME total > 0 PROVE (c - 1) * p < total
  <2>1. q >= 1
    <3> SUFFICES ASSUME q = 0 PROVE FALSE
      BY <1>2
    <3>1. q * p = 0
      BY <1>1
    <3> QED
      BY <1>1, <1>2, <1>9, <3>1
  <2>2. c - 1 <= q - 1 /\ q - 1 \in Nat
    BY <1>2, <1>3, <2>1
  <2> DEFINE x == (c - 1) * p
             y == (q - 1) * p
             z == q * p
  <2>3. x <= y /\ x \in Nat /\ y \in Nat
    BY <1>1, <1>3, <2>2, Products
  <2>4. ((q - 1) + 1) * p = (q - 1) * p + p /\ (q - 1) + 1 = q
    BY <1>1, <1>2, <2>2, Products
  <2>5. z = y + p /\ z <= total + p - 1
    BY <1>2, <2>4
  <2> HIDE DEF x, y, z
  <2>6. x < total
    BY <1>1, <2>3, <2>5
  <2> QED
    BY <2>6 DEF x
<1> HIDE DEF c, m
<1>10. /\ Pages!Offset(c) \in Nat /\ Pages!Offset(n) \in Nat
       /\ Pages!Offset(n) < total => c = Pages!Max({1, n})
       /\ total > 0 => Pages!Offset(c) < total
  BY <1>4, <1>6, <1>7, <1>8, <1>9
<1> QED
  BY <1>3, <1>5, <1>6, <1>10 DEF p

(* The lists of pages are lists of jobs.                                   *)
LEMMA OffsetNat == ASSUME NEW n \in Nat PROVE Pages!Offset(n) \in Nat
<1>1. 0 \in Nat
  OBVIOUS
<1> QED
  BY <1>1, PageNumbers

(* The types of a page.                                                    *)
LEMMA PageTyped ==
    ASSUME PagesInv, NEW kd, NEW n \in Nat
    PROVE  /\ ListOf(queue, dead, kd) \in Seq(Ids) /\ Len(ListOf(queue, dead, kd)) \in Nat
           /\ PageOf(queue, dead, kd, n) \in Nat
           /\ Pages!Offset(PageOf(queue, dead, kd, n)) \in Nat
           /\ IdsOf(queue, dead, kd, n) \in Seq(Ids) /\ JobsOf(queue, dead, payload, kd, n) \in Seq(Ids)
<1>1. ListOf(queue, dead, kd) \in Seq(Ids)
  BY DEF PagesInv, PagesTyped, ListOf
<1>2. Len(ListOf(queue, dead, kd)) \in Nat
  BY <1>1
<1>3. PageOf(queue, dead, kd, n) \in Nat
  BY <1>2, PageNumbers DEF PageOf
<1>4. Pages!Offset(PageOf(queue, dead, kd, n)) \in Nat /\ PerPage + 1 \in Nat
  BY <1>3, OffsetNat, PagesConstants
<1>5. IdsOf(queue, dead, kd, n) \in Seq(Ids)
  BY <1>1, <1>4, RangeOf DEF IdsOf
<1>6. JobsOf(queue, dead, payload, kd, n) \in Seq(Ids)
  BY <1>5, OnlyKeeps DEF JobsOf
<1> QED
  BY <1>1, <1>2, <1>3, <1>4, <1>5, <1>6

(* A page is a reply.                                                      *)
LEMMA PageReplies ==
    ASSUME NEW n \in Nat, NEW total \in Nat, NEW js \in Seq(Ids)
    PROVE  Pages!JobPage(n, total, js) \in Replies
<1>1. PerPage \in Nat \ {0} /\ Len(js) \in Nat
  BY PagesConstants
<1>2. Pages!Max({1, n}) \in Nat
  <2>1. 1 \in Int /\ n \in Int
    OBVIOUS
  <2>2. Pages!Max({1, n}) = IF 1 >= n THEN 1 ELSE n
    BY <2>1, OfTwo
  <2> QED
    BY <2>2
<1>3. Pages!Min({PerPage, Len(js)}) \in Nat /\ Pages!Min({PerPage, Len(js)}) <= Len(js)
  <2>1. PerPage \in Int /\ Len(js) \in Int
    BY <1>1
  <2>2. Pages!Min({PerPage, Len(js)}) = IF PerPage <= Len(js) THEN PerPage ELSE Len(js)
    BY <2>1, OfTwo
  <2> QED
    BY <1>1, <2>2
<1>4. SubSeq(js, 1, Pages!Min({PerPage, Len(js)})) \in Seq(Ids)
  <2>1. PICK k \in Nat : k = Pages!Min({PerPage, Len(js)}) /\ k <= Len(js)
    BY <1>3
  <2>2. SubSeq(js, 1, k) \in Seq(Ids)
    BY <2>1, Prefix
  <2> QED
    BY <2>1, <2>2
<1>5. (Len(js) > PerPage) \in BOOLEAN
  OBVIOUS
<1> QED
  BY <1>2, <1>4, <1>5 DEF Pages!JobPage, Replies

(* The jobs are counted.                                                   *)
LEMMA CountJobsStep == ASSUME PagesInv, Pages!CountJobs PROVE PagesInv'
<1> DEFINE kd == request.kind
           total == Len(ListOf(queue, dead, kd))
           r == [request EXCEPT !.pc = "list", !.count = total, !.arg = PageOf(queue, dead, kd, request.arg)]
<1>1. request.pc = "start" /\ kd \in {"queue", "deads"}
  BY DEF Pages!CountJobs
<1>2. request \in Requests /\ request.arg \in Nat
  BY DEF PagesInv, PagesTyped, IsRequest, Requests
<1>3. total \in Nat /\ PageOf(queue, dead, kd, request.arg) \in Nat
  BY <1>2, PageTyped
<1>4. Pages!Serve(r)
  <2>1. Pages!Serve([request EXCEPT !.pc = "list", !.count = total,
                       !.arg = IF request.kind = "queue" THEN Pages!ClampNumber(@, total) ELSE @])
    BY DEF Pages!CountJobs, ListOf
  <2>2. [request EXCEPT !.pc = "list", !.count = total,
                       !.arg = IF request.kind = "queue" THEN Pages!ClampNumber(@, total) ELSE @] = r
    BY DEF PageOf
  <2> QED
    BY <2>1, <2>2
<1>5. /\ r \in Requests /\ r.pc = "list" /\ r.kind = kd /\ r.arg = PageOf(queue, dead, kd, request.arg)
      /\ r.count = total /\ r.asked = request.asked
  BY <1>2, <1>3 DEF Requests
<1> HIDE DEF r
<1>6. /\ request' = r /\ queue' = queue /\ dead' = dead /\ payload' = payload /\ reviving' = reviving
      /\ kept' = kept /\ steady' = steady /\ stays' = stays /\ kept' \in BOOLEAN /\ steady' \in BOOLEAN
  BY <1>4, ServeIs
<1>7. IsRequest(request)'
  BY <1>1, <1>5, <1>6 DEF IsRequest
<1>8. JobKept'
  BY <1>1, <1>5, <1>6, NoJob
<1>9. WalkKept'
  BY <1>1, <1>5, <1>6, NoWalk
<1>10. PageKept'
  <2> SUFFICES ASSUME steady PROVE PageGood(queue, dead, payload, r)
    BY <1>6 DEF PageKept
  <2>1. request.arg = request.asked
    BY <1>1 DEF PagesInv, PageKept, PageGood
  <2> QED
    BY <1>5, <2>1 DEF PageGood
<1> QED
  BY <1>6, <1>7, <1>8, <1>9, <1>10, ServesKeep

(* A page is answered.                                                     *)
LEMMA PageAnswered ==
    ASSUME PagesInv, request.kind \in {"queue", "deads"}, NEW js \in Seq(Ids),
           Pages!Answer(Pages!JobPage(request.arg, request.count, js)),
           steady => /\ request.arg = PageOf(queue, dead, request.kind, request.asked)
                     /\ request.count = Len(ListOf(queue, dead, request.kind))
                     /\ js = JobsOf(queue, dead, payload, request.kind, request.asked)
    PROVE  PagesInv'
<1> DEFINE a == Pages!JobPage(request.arg, request.count, js)
<1>1. request.arg \in Nat /\ request.count \in Nat
  BY DEF PagesInv, PagesTyped, IsRequest, Requests
<1>2. a \in Replies
  BY <1>1, PageReplies
<1>3. a = Pages!JobPage(request.arg, request.count, js) /\ Pages!Answer(a)
  OBVIOUS
<1> HIDE DEF a
<1>4. /\ IsRequest(request)' /\ request'.pc = "idle" /\ request'.answer = a
      /\ request'.kind = request.kind /\ request'.asked = request.asked
      /\ queue' = queue /\ dead' = dead /\ payload' = payload /\ reviving' = reviving
      /\ kept' = kept /\ steady' = steady /\ stays' = stays
      /\ kept' \in BOOLEAN /\ steady' \in BOOLEAN
  BY <1>2, <1>3, AnswerIs
<1>5. JobKept'
  BY <1>4, NoJob
<1>6. WalkKept'
  BY <1>4, NoWalk
<1>7. PageKept'
  <2> SUFFICES ASSUME steady PROVE PageGood(queue, dead, payload, request')
    BY <1>4 DEF PageKept
  <2> QED
    BY <1>3, <1>4 DEF PageGood
<1> QED
  BY <1>4, <1>5, <1>6, <1>7, ServesKeep

(* The ids of a page are read.                                             *)
LEMMA ListJobsStep == ASSUME PagesInv, Pages!ListJobs PROVE PagesInv'
<1> DEFINE kd == request.kind
           js == Pages!ListRange(ListOf(queue, dead, kd), Pages!Offset(request.arg), PerPage + 1)
<1>1. request.pc = "list" /\ kd \in {"queue", "deads"}
  BY DEF Pages!ListJobs, PagesInv, PagesTyped, IsRequest
<1>2. request \in Requests /\ request.arg \in Nat
  BY DEF PagesInv, PagesTyped, IsRequest, Requests
<1>3. /\ kd = "queue" => Pages!Serve([request EXCEPT !.pc = "resolve", !.ids = js])
      /\ kd # "queue" => Pages!Answer(Pages!JobPage(request.arg, request.count, js))
  BY DEF Pages!ListJobs, ListOf
<1>4. js \in Seq(Ids)
  <2>1. ListOf(queue, dead, kd) \in Seq(Ids)
    BY <1>2, PageTyped
  <2>2. Pages!Offset(request.arg) \in Nat /\ PerPage + 1 \in Nat
    <3>1. Pages!Offset(request.arg) \in Nat
      BY <1>2, OffsetNat
    <3> QED
      BY <3>1, PagesConstants
  <2> QED
    BY <2>1, <2>2, RangeOf
<1>5. steady => /\ request.arg = PageOf(queue, dead, kd, request.asked)
                /\ request.count = Len(ListOf(queue, dead, kd))
                /\ js = IdsOf(queue, dead, kd, request.asked)
  BY <1>1 DEF PagesInv, PageKept, PageGood, IdsOf
<1>6. CASE kd # "queue"
  BY <1>1, <1>3, <1>4, <1>5, <1>6, PageAnswered DEF JobsOf
<1>7. CASE kd = "queue"
  <2> HIDE DEF js
  <2> DEFINE r == [request EXCEPT !.pc = "resolve", !.ids = js]
  <2>1. /\ r \in Requests /\ r.pc = "resolve" /\ r.kind = kd /\ r.arg = request.arg
        /\ r.count = request.count /\ r.asked = request.asked /\ r.ids = js
    BY <1>2, <1>4 DEF Requests
  <2>2. Pages!Serve(r)
    BY <1>3, <1>7
  <2> HIDE DEF r
  <2>3. /\ request' = r /\ queue' = queue /\ dead' = dead /\ payload' = payload /\ reviving' = reviving
        /\ kept' = kept /\ steady' = steady /\ stays' = stays /\ kept' \in BOOLEAN /\ steady' \in BOOLEAN
    BY <2>2, ServeIs
  <2>4. IsRequest(request)'
    BY <1>7, <2>1, <2>3 DEF IsRequest
  <2>5. JobKept'
    BY <1>1, <2>1, <2>3, NoJob
  <2>6. WalkKept'
    BY <1>1, <2>1, <2>3, NoWalk
  <2>7. PageKept'
    <3> SUFFICES ASSUME steady PROVE PageGood(queue, dead, payload, r)
      BY <2>3 DEF PageKept
    <3> QED
      BY <1>5, <2>1 DEF PageGood
  <2> QED
    BY <2>3, <2>4, <2>5, <2>6, <2>7, ServesKeep
<1> QED
  BY <1>6, <1>7

(* The ids of a page are resolved.                                         *)
LEMMA GetManyStep == ASSUME PagesInv, Pages!GetMany PROVE PagesInv'
<1> DEFINE js == Pages!Only(request.ids, payload)
<1>1. request.pc = "resolve" /\ request.kind = "queue"
  BY DEF Pages!GetMany, PagesInv, PagesTyped, IsRequest
<1>2. request.ids \in Seq(Ids)
  BY DEF PagesInv, PagesTyped, IsRequest, Requests
<1>3. js \in Seq(Ids)
  BY <1>2, OnlyKeeps
<1>4. Pages!Answer(Pages!JobPage(request.arg, request.count, js))
  BY DEF Pages!GetMany
<1>5. steady => /\ request.arg = PageOf(queue, dead, request.kind, request.asked)
                /\ request.count = Len(ListOf(queue, dead, request.kind))
                /\ js = JobsOf(queue, dead, payload, request.kind, request.asked)
  BY <1>1 DEF PagesInv, PageKept, PageGood, JobsOf
<1> HIDE DEF js
<1> QED
  BY <1>1, <1>3, <1>4, <1>5, PageAnswered

(* A walk goes on or ends.                                                 *)
LEMMA WalkAnswered ==
    ASSUME PagesInv, request.kind = "walk", NEW a \in Replies, Pages!Answer(a),
           a = "walked" => stays \subseteq request.seen
    PROVE  PagesInv'
<1>1. /\ IsRequest(request)' /\ request'.pc = "idle" /\ request'.answer = a /\ request'.kind = "walk"
      /\ request'.seen = request.seen
      /\ queue' = queue /\ dead' = dead /\ payload' = payload /\ reviving' = reviving
      /\ kept' = kept /\ stays' = stays /\ kept' \in BOOLEAN /\ steady' \in BOOLEAN
  BY AnswerIs
<1>2. JobKept'
  BY <1>1, NoJob
<1>3. WalkKept'
  BY <1>1 DEF PagesInv, WalkKept, Lists
<1>4. PageKept'
  BY <1>1, NoPage
<1> QED
  BY <1>1, <1>2, <1>3, <1>4, ServesKeep

(* The ids of a page of a walk: what is unseen and not among them is right *)
(* of them.                                                                *)
LEMMA WalkPageStep == ASSUME PagesInv, Pages!WalkPage PROVE PagesInv'
<1>1. request.pc = "start" /\ request.kind = "walk"
  BY DEF Pages!WalkPage
<1>2. /\ request \in Requests /\ request.count \in Nat /\ request.arg \in Nat /\ queue \in Seq(Ids)
      /\ WalkKept
  BY DEF PagesInv, PagesTyped, IsRequest, Requests
<1>3. CASE ~Pages!Options(request.arg)
  <2>1. Pages!Answer("refused") /\ "refused" \in Replies /\ "refused" # "walked"
    BY <1>3 DEF Pages!WalkPage, Replies
  <2> QED
    BY <1>1, <2>1, WalkAnswered
<1>4. CASE Pages!Options(request.arg)
  <2> DEFINE c == request.count
             g == request.arg
             t == Pages!ListRange(queue, c, g)
             m == IF c + g <= Len(queue) THEN c + g ELSE Len(queue)
             r == [request EXCEPT !.pc = "page", !.ids = t]
  <2>1. g >= 1
    BY <1>4, PagesConstants DEF Pages!Options
  <2>2. /\ t \in Seq(Ids) /\ Len(t) = (IF c < m THEN m - c ELSE 0)
        /\ \A i \in 1 .. Len(t) : i + c \in 1 .. Len(queue) /\ t[i] = queue[i + c]
    BY <1>2, RangeOf
  <2>3. Pages!Serve(r)
    BY <1>4 DEF Pages!WalkPage
  <2> HIDE DEF t
  <2>4. /\ r \in Requests /\ r.pc = "page" /\ r.kind = "walk" /\ r.ids = t /\ r.count = c /\ r.arg = g
        /\ r.seen = request.seen
    BY <1>1, <1>2, <2>2 DEF Requests
  <2> HIDE DEF r
  <2>5. /\ request' = r /\ queue' = queue /\ dead' = dead /\ payload' = payload /\ reviving' = reviving
        /\ kept' = kept /\ stays' = stays /\ kept' \in BOOLEAN /\ steady' \in BOOLEAN
    BY <2>3, ServeIs
  <2>6. IsRequest(request)'
    BY <2>4, <2>5 DEF IsRequest
  <2>7. JobKept'
    BY <1>1, <2>4, <2>5, NoJob
  <2>8. PageKept'
    BY <2>4, <2>5, NoPage
  <2>9. \A n \in DOMAIN queue : n <= c /\ queue[n] \in stays => queue[n] \in request.seen
    BY <1>1, <1>2 DEF WalkKept, SeenUpTo
  <2>10. DOMAIN queue = 1 .. Len(queue) /\ Len(queue) \in Nat /\ DOMAIN t = 1 .. Len(t) /\ Len(t) \in Nat
    BY <1>2, <2>2
  <2>11. \A n \in DOMAIN queue : n <= c + g /\ ~(n <= c) => queue[n] \in Lists(t)
    <3> SUFFICES ASSUME NEW n \in DOMAIN queue, n <= c + g, ~(n <= c) PROVE \E i \in DOMAIN t : t[i] = queue[n]
      BY DEF Lists
    <3>1. n - c \in 1 .. Len(t) /\ (n - c) + c = n
      BY <1>2, <2>2, <2>10
    <3> QED
      BY <2>2, <2>10, <3>1
  <2>12. \A n \in DOMAIN queue : n <= c + g /\ queue[n] \in stays => queue[n] \in request.seen \cup Lists(t)
    BY <2>9, <2>11
  <2>13. t = <<>> => stays \subseteq request.seen
    <3> SUFFICES ASSUME t = <<>>, NEW x \in stays PROVE x \in request.seen
      OBVIOUS
    <3>1. PICK n \in DOMAIN queue : queue[n] = x
      BY <1>2 DEF WalkKept, Lists
    <3>2. Len(t) = 0
      OBVIOUS
    <3>3. ~(c < m)
      BY <1>2, <2>2, <2>10, <3>2
    <3>4. n <= c
      BY <1>2, <2>1, <2>10, <3>3
    <3> QED
      BY <2>9, <3>1, <3>4
  <2>14. ASSUME NEW n \in DOMAIN queue, queue[n] \in stays \ (request.seen \cup Lists(t)) PROVE LeftOf(t, n)
    <3> SUFFICES ASSUME NEW i \in DOMAIN t PROVE \E k \in DOMAIN queue : k < n /\ queue[k] = t[i]
      BY DEF LeftOf, Lists
    <3>1. ~(n <= c + g)
      BY <2>12, <2>14
    <3>2. i + c \in DOMAIN queue /\ queue[i + c] = t[i] /\ i + c <= c + g
      BY <1>2, <2>2, <2>10
    <3> QED
      BY <1>2, <2>10, <3>1, <3>2
  <2>15. WalkKept'
    <3>1. stays' \subseteq Lists(queue') /\ (stays' # {} => Lists(queue') \subseteq payload')
      BY <1>2, <2>5 DEF WalkKept
    <3>2. SeenUpTo(request.count + request.arg, request.seen \cup Lists(request.ids))'
      BY <2>4, <2>5, <2>12 DEF SeenUpTo, Lists
    <3>3. \A n \in DOMAIN queue' :
            queue'[n] \in stays' \ (request'.seen \cup Lists(request'.ids)) => LeftOf(request.ids, n)'
      BY <2>4, <2>5, <2>14 DEF LeftOf, Lists
    <3> QED
      BY <2>4, <2>5, <2>13, <3>1, <3>2, <3>3 DEF WalkKept
  <2> QED
    BY <2>5, <2>6, <2>7, <2>8, <2>15, ServesKeep
<1> QED
  BY <1>3, <1>4

(* The jobs of a page of a walk.  A page without any is the last one: if   *)
(* something is unseen, the ids read are still on the queue, left of it,   *)
(* and have their payloads.                                                *)
LEMMA WalkResolveStep == ASSUME PagesInv, Pages!WalkResolve PROVE PagesInv'
<1> DEFINE js == Lists(request.ids) \cap payload
<1>1. request.pc = "page" /\ request.kind = "walk"
  BY DEF Pages!WalkResolve, PagesInv, PagesTyped, IsRequest
<1>2. /\ request \in Requests /\ request.count \in Nat /\ request.arg \in Nat /\ queue \in Seq(Ids)
      /\ request.ids \in Seq(Ids) /\ payload \in SUBSET Ids /\ request.seen \in SUBSET Ids
  BY DEF PagesInv, PagesTyped, IsRequest, Requests
<1>3. /\ stays \subseteq Lists(queue) /\ (stays # {} => Lists(queue) \subseteq payload)
      /\ SeenUpTo(request.count + request.arg, request.seen \cup Lists(request.ids))
      /\ request.ids = <<>> => stays \subseteq request.seen
      /\ \A n \in DOMAIN queue :
            queue[n] \in stays \ (request.seen \cup Lists(request.ids)) => LeftOf(request.ids, n)
  BY <1>1 DEF PagesInv, WalkKept
<1>4. CASE js = {}
  <2>1. Pages!Answer("walked") /\ "walked" \in Replies
    BY <1>4 DEF Pages!WalkResolve, Replies, Lists
  <2>2. ASSUME NEW x \in stays, x \notin request.seen PROVE FALSE
    <3>1. Lists(queue) \subseteq payload /\ x \in Lists(queue)
      BY <1>3
    <3>2. x \notin Lists(request.ids)
      BY <1>4, <3>1
    <3>3. PICK n \in DOMAIN queue : queue[n] = x
      BY <3>1 DEF Lists
    <3>4. LeftOf(request.ids, n)
      BY <1>3, <2>2, <3>2, <3>3
    <3>5. PICK y : y \in Lists(request.ids)
      <4>1. request.ids # <<>>
        BY <1>3, <2>2
      <4>2. 1 \in DOMAIN request.ids
        BY <1>2, <4>1
      <4> QED
        BY <4>2 DEF Lists
    <3>6. y \in Lists(queue)
      BY <3>4, <3>5 DEF LeftOf, Lists
    <3> QED
      BY <1>4, <3>1, <3>5, <3>6
  <2> QED
    BY <1>1, <2>1, <2>2, WalkAnswered
<1>5. CASE js # {}
  <2> DEFINE r == [request EXCEPT !.pc = "start", !.count = request.count + request.arg, !.ids = <<>>,
                                  !.seen = request.seen \cup js]
  <2>1. Pages!Serve(r)
    BY <1>5 DEF Pages!WalkResolve, Lists
  <2>2. request.count + request.arg \in Nat /\ request.seen \cup js \in SUBSET Ids /\ <<>> \in Seq(Ids)
    BY <1>2
  <2>3. /\ r \in Requests /\ r.pc = "start" /\ r.kind = "walk" /\ r.count = request.count + request.arg
        /\ r.seen = request.seen \cup js
    BY <1>1, <1>2, <2>2 DEF Requests
  <2> HIDE DEF r
  <2>4. /\ request' = r /\ queue' = queue /\ dead' = dead /\ payload' = payload /\ reviving' = reviving
        /\ kept' = kept /\ stays' = stays /\ kept' \in BOOLEAN /\ steady' \in BOOLEAN
    BY <2>1, ServeIs
  <2>5. IsRequest(request)'
    BY <2>3, <2>4 DEF IsRequest
  <2>6. JobKept'
    BY <1>1, <2>3, <2>4, NoJob
  <2>7. PageKept'
    BY <2>3, <2>4, NoPage
  <2>8. \A n \in DOMAIN queue : n <= request.count + request.arg /\ queue[n] \in stays
                                  => queue[n] \in request.seen \cup js
    <3> SUFFICES ASSUME NEW n \in DOMAIN queue, n <= request.count + request.arg, queue[n] \in stays
                 PROVE  queue[n] \in request.seen \cup js
      OBVIOUS
    <3>1. queue[n] \in request.seen \cup Lists(request.ids)
      BY <1>3 DEF SeenUpTo
    <3>2. queue[n] \in payload
      BY <1>3 DEF Lists
    <3> QED
      BY <3>1, <3>2
  <2>9. SeenUpTo(request.count, request.seen)'
    BY <2>3, <2>4, <2>8 DEF SeenUpTo
  <2>10. WalkKept'
    BY <1>3, <2>3, <2>4, <2>9 DEF WalkKept, Lists
  <2> QED
    BY <2>4, <2>5, <2>6, <2>7, <2>10, ServesKeep
<1> QED
  BY <1>4, <1>5

(* Every step keeps the invariant of the pages.                            *)
LEMMA PagesNext == ASSUME PagesInv, Pages!Next PROVE PagesInv'
<1>1. CASE Pages!Claim \/ Pages!ReviveClaim \/ Pages!ReviveOne
  BY <1>1, ClaimStep, ReviveClaimStep, ReviveOneStep
<1>2. ASSUME NEW i \in Ids, Pages!Finish(i) \/ Pages!Kill(i) \/ Pages!Expire(i) \/ Pages!Delete(i)
      PROVE  PagesInv'
  BY <1>2, FinishStep, KillStep, ExpireStep, DeleteStep
<1>3. ASSUME NEW i \in Ids, Pages!Request("job", i) PROVE PagesInv'
  <2>1. i \in Nat
    BY PagesConstants
  <2> QED
    BY <1>3, <2>1, RequestStep
<1>4. ASSUME NEW n \in 0 .. MaxPage, Pages!Request("queue", n) \/ Pages!Request("deads", n) PROVE PagesInv'
  <2>1. n \in Nat
    BY PagesConstants
  <2> QED
    BY <1>4, <2>1, RequestStep
<1>5. ASSUME NEW n \in 0 .. MaxLimit + 1, Pages!Request("walk", n) PROVE PagesInv'
  <2>1. n \in Nat
    BY PagesConstants
  <2> QED
    BY <1>5, <2>1, RequestStep
<1>6. CASE Pages!WalkPage \/ Pages!WalkResolve
  BY <1>6, WalkPageStep, WalkResolveStep
<1>7. CASE \/ Pages!GetJob \/ Pages!DeadCount \/ Pages!FindDead \/ Pages!CountJobs \/ Pages!ListJobs
           \/ Pages!GetMany \/ Pages!Show
  BY <1>7, GetJobStep, DeadCountStep, FindDeadStep, CountJobsStep, ListJobsStep, GetManyStep,
     ShowStep
<1> QED
  BY <1>1, <1>2, <1>3, <1>4, <1>5, <1>6, <1>7 DEF Pages!Next

(* The first jobs of a page that was read with one more than fits.         *)
LEMMA PagePart ==
    ASSUME NEW list \in Seq(Ids), NEW o \in Nat
    PROVE  LET t == Pages!ListRange(list, o, PerPage + 1)
               v == SubSeq(list, o + 1, Pages!Min({o + PerPage, Len(list)}))
           IN  /\ SubSeq(t, 1, Pages!Min({PerPage, Len(t)})) = v
               /\ (Len(t) > PerPage) <=> (Len(list) > o + PerPage)
               /\ o < Len(list) => v # <<>>
<1> DEFINE p == PerPage
           L == Len(list)
           t == Pages!ListRange(list, o, p + 1)
           m == IF o + (p + 1) <= L THEN o + (p + 1) ELSE L
           w == IF o + p <= L THEN o + p ELSE L
           v == SubSeq(list, o + 1, w)
           k == IF p <= Len(t) THEN p ELSE Len(t)
           u == SubSeq(t, 1, k)
<1>1. p \in Nat /\ p >= 1 /\ p + 1 \in Nat /\ L \in Nat
  BY PagesConstants
<1> HIDE DEF p
<1>2. /\ t \in Seq(Ids) /\ Len(t) = (IF o < m THEN m - o ELSE 0)
      /\ \A i \in 1 .. Len(t) : i + o \in 1 .. L /\ t[i] = list[i + o]
  BY <1>1, RangeOf
<1> HIDE DEF t
<1>3. Len(t) \in Nat
  BY <1>2
<1>4. /\ v \in Seq(Ids) /\ Len(v) = (IF o < w THEN w - o ELSE 0)
      /\ \A i \in 1 .. Len(v) : i + o \in 1 .. L /\ v[i] = list[i + o]
  BY <1>1, PartOf, Zenon
<1>5. k \in Nat /\ k <= Len(t)
  BY <1>1, <1>3
<1> HIDE DEF v
<1>6. u \in Seq(Ids) /\ Len(u) = k /\ \A i \in 1 .. k : u[i] = t[i]
  <2> HIDE DEF k
  <2> QED
    BY <1>2, <1>5, Prefix
<1> HIDE DEF u
<1>7. k = Len(v)
  BY <1>1, <1>2, <1>4
<1>8. u = v
  <2>1. Len(u) = Len(v) /\ Len(v) \in Nat
    BY <1>4, <1>6, <1>7
  <2>2. \A i \in 1 .. Len(v) : u[i] = v[i]
    BY <1>2, <1>4, <1>5, <1>6, <1>7, SMTT(30)
  <2> HIDE DEF k
  <2> QED
    BY <1>4, <1>6, <2>1, <2>2
<1>9. (Len(t) > p) <=> (L > o + p)
  BY <1>1, <1>2
<1>10. o < L => v # <<>>
  <2>1. o < L => Len(v) # 0
    BY <1>1, <1>4
  <2> QED
    BY <2>1
<1>11. Pages!Min({o + p, L}) = w /\ Pages!Min({p, Len(t)}) = k
  <2>1. o + p \in Int /\ L \in Int /\ p \in Int /\ Len(t) \in Int
    BY <1>1, <1>3
  <2> QED
    BY <2>1, OfTwo
<1> HIDE DEF w, k, L
<1> QED
  BY <1>8, <1>9, <1>10, <1>11, Zenon DEF p, t, u, v, L

(* What the invariant of the pages is for.                                 *)
LEMMA PagesHold == ASSUME PagesInv PROVE Pages!PagesTrue
<1>1. Pages!FoundWhenKept
  BY DEF PagesInv, JobKept, Pages!FoundWhenKept, Pages!Answered
<1>2. Pages!WalkMissesNothing
  BY DEF PagesInv, WalkKept, Pages!WalkMissesNothing, Pages!Answered
<1>3. Pages!PageExact
  <2> DEFINE kd == request.kind
             list == IF kd = "queue" THEN queue ELSE dead
             page == request.answer
             from == (page.number - 1) * PerPage
             n == PageOf(queue, dead, kd, request.asked)
             o == Pages!Offset(n)
             ids == Pages!ListRange(list, o, PerPage + 1)
             v == SubSeq(list, o + 1, Pages!Min({o + PerPage, Len(list)}))
  <2> SUFFICES ASSUME Pages!Answered, steady, kd \in {"queue", "deads"},
                      kd = "deads" \/ Lists(queue) \subseteq payload
               PROVE  /\ page.jobs = SubSeq(list, from + 1, Pages!Min({from + PerPage, Len(list)}))
                      /\ page.has_next = (Len(list) > from + PerPage)
                      /\ Pages!Offset(request.asked) < Len(list) => page.number = Pages!Max({1, request.asked})
                      /\ kd = "queue" /\ queue # <<>> => page.jobs # <<>>
    BY IsSet, Zenon DEF Pages!PageExact
  <2>1. request.asked \in Nat /\ queue \in Seq(Ids) /\ dead \in Seq(Ids)
    BY DEF PagesInv, PagesTyped, IsRequest, Requests
  <2>2. list \in Seq(Ids) /\ Len(list) \in Nat /\ n \in Nat /\ o \in Nat /\ ids \in Seq(Ids)
    BY <2>1, PageTyped DEF ListOf, IdsOf
  <2>3. page = Pages!JobPage(n, Len(list), JobsOf(queue, dead, payload, kd, request.asked))
    BY DEF PagesInv, PageKept, PageGood, Pages!Answered, ListOf
  <2>4. JobsOf(queue, dead, payload, kd, request.asked) = ids
    <3>1. ids = IdsOf(queue, dead, kd, request.asked)
      BY DEF IdsOf, ListOf
    <3>2. CASE kd = "queue"
      <4>0. PerPage + 1 \in Nat
        BY PagesConstants
      <4>1. Lists(ids) \subseteq Lists(list)
        BY <2>2, <4>0, RangeOf
      <4>2. \A i \in DOMAIN ids : ids[i] \in payload
        BY <3>2, <4>1 DEF Lists
      <4>3. Pages!Only(ids, payload) = ids
        <5> HIDE DEF ids
        <5> QED
          BY <2>2, <4>2, OnlyKeeps
      <4> QED
        BY <3>1, <3>2, <4>3 DEF JobsOf
    <3>3. CASE kd # "queue"
      BY <3>1, <3>3 DEF JobsOf
    <3> QED
      BY <3>2, <3>3
  <2>5. /\ SubSeq(ids, 1, Pages!Min({PerPage, Len(ids)})) = v
        /\ (Len(ids) > PerPage) <=> (Len(list) > o + PerPage)
        /\ o < Len(list) => v # <<>>
    BY <2>2, PagePart
  <2>6. /\ page.number = Pages!Max({1, n}) /\ page.has_next = (Len(ids) > PerPage)
        /\ page.jobs = SubSeq(ids, 1, Pages!Min({PerPage, Len(ids)}))
    <3> HIDE DEF ids, n, list, page
    <3> QED
      BY <2>3, <2>4 DEF Pages!JobPage
  <2>7. from = o
    BY <2>6 DEF Pages!Offset
  <2>8. page.jobs = v /\ page.has_next = (Len(list) > o + PerPage)
    <3> HIDE DEF ids, n, list, page, v, o
    <3>1. page.jobs = v
      BY <2>5, <2>6, Zenon
    <3>2. (Len(ids) > PerPage) = (Len(list) > o + PerPage)
      BY <2>5
    <3>3. page.has_next = (Len(list) > o + PerPage)
      BY <2>6, <3>2, Zenon
    <3> QED
      BY <3>1, <3>3
  <2>9. Pages!Offset(request.asked) < Len(list) => page.number = Pages!Max({1, request.asked})
    <3>1. CASE kd = "queue"
      <4>1. n = Pages!ClampNumber(request.asked, Len(list))
        BY <3>1 DEF PageOf, ListOf
      <4>2. n >= 1 /\ (Pages!Offset(request.asked) < Len(list) => n = Pages!Max({1, request.asked}))
        BY <2>1, <2>2, <4>1, PageNumbers
      <4>3. Pages!Max({1, n}) = n
        <5> HIDE DEF n
        <5>1. 1 \in Int /\ n \in Int
          BY <2>2
        <5>2. Pages!Max({1, n}) = IF 1 >= n THEN 1 ELSE n
          BY <5>1, OfTwo
        <5> QED
          BY <2>2, <4>2, <5>2
      <4> QED
        BY <2>6, <4>2, <4>3
    <3>2. CASE kd # "queue"
      BY <2>6, <3>2 DEF PageOf
    <3> QED
      BY <3>1, <3>2
  <2>10. kd = "queue" /\ queue # <<>> => v # <<>>
    <3> SUFFICES ASSUME kd = "queue", queue # <<>> PROVE o < Len(list)
      BY <2>5
    <3>1. Len(list) > 0
      BY <2>1
    <3>2. n = Pages!ClampNumber(request.asked, Len(list))
      BY DEF PageOf, ListOf
    <3> QED
      BY <2>1, <2>2, <3>1, <3>2, PageNumbers
  <2> QED
    BY <2>7, <2>8, <2>9, <2>10
<1> QED
  BY <1>1, <1>2, <1>3 DEF Pages!PagesTrue

(* Other parts leave the pages alone.                                      *)
LEMMA PagesStutter == ASSUME PagesInv, UNCHANGED ofPages PROVE PagesInv'
<1>1. /\ queue' = queue /\ dead' = dead /\ payload' = payload /\ reviving' = reviving
      /\ request' = request /\ kept' = kept /\ steady' = steady /\ stays' = stays
  BY DEF ofPages
<1>2. PagesTyped' /\ Apart' /\ JobKept' /\ PageKept'
  BY <1>1 DEF PagesInv, PagesTyped, Apart, JobKept, PageKept
<1>3. WalkKept'
  <2>1. stays = stays \cap Lists(queue) \cap payload
    BY DEF PagesInv, WalkKept
  <2>2. stays' = stays \cap Lists(queue') \cap payload' /\ Lists(queue) \cap payload \subseteq payload'
    BY <1>1, <2>1
  <2> QED
    BY <1>1, <2>2, WalkQuiet
<1> QED
  BY <1>2, <1>3 DEF PagesInv

-----------------------------------------------------------------------------
(* Who works on what.                                                      *)

(* What the assumption says of the processes and the jobs.                 *)
LEMMA WorkConstants ==
    /\ Procs \subseteq Nat /\ IsFiniteSet(Procs) /\ IsFiniteSet(WorkIds) /\ Threshold \in Nat
    /\ None \notin Nat
<1>1. /\ Procs \subseteq Nat /\ Work!IsFiniteSet(Procs) /\ Work!IsFiniteSet(WorkIds)
      /\ Threshold \in Nat /\ None \notin Nat
  BY WorkAssumption DEF Work!OverviewAssumption
<1> QED
  BY <1>1, SameCardinality

(* The claims on stored jobs, without the names of the instance.           *)
LEMMA WorkingIs ==
    /\ Work!Working = {x \in Procs \X WorkIds : x[2] \in claims[x[1]] /\ x[2] \in envelopes}
    /\ Work!Working' = {x \in Procs \X WorkIds : x[2] \in claims'[x[1]] /\ x[2] \in envelopes'}
<1>1. Work!Pairs = Procs \X WorkIds
  BY DEF Work!Pairs
<1> QED
  BY <1>1 DEF Work!Working

(* At first there is no process and nothing was read.                      *)
LEMMA WorkInit == Work!Init => WorkInv
<1> SUFFICES ASSUME Work!Init PROVE WorkInv
  OBVIOUS
<1>1. /\ now = 0 /\ life = [p \in Procs |-> "new"] /\ beating = [p \in Procs |-> None]
      /\ score = [p \in Procs |-> None] /\ record = [p \in Procs |-> None]
      /\ claims = [p \in Procs |-> {}] /\ envelopes = WorkIds /\ reader = Work!Idle /\ quiet = TRUE
  BY DEF Work!Init
<1>2. reader \in Readers /\ reader.pc = "idle"
  BY <1>1 DEF Work!Idle, Readers
<1>3. quiet \in BOOLEAN
  BY <1>1, Zenon
<1>4. WorkTyped
  BY <1>1, <1>2, <1>3 DEF WorkTyped, Times
<1>5. BeatsKept
  BY <1>1 DEF BeatsKept
<1>6. ReadKept /\ BeatsSorted
  BY <1>2 DEF ReadKept, ReadGood, BeatsSorted, SortedGood
<1> QED
  BY <1>4, <1>5, <1>6 DEF WorkInv

(* What is left to show of a step of a process.                            *)
LEMMA ProcessesKeep ==
    ASSUME WorkInv, score' \in Times, record' \in Times, beating' \in Times,
           life' \in [Procs -> {"new", "up", "leaving", "down"}], BeatsKept', now' = now,
           UNCHANGED <<claims, envelopes, reader, held, always>>, quiet' \in BOOLEAN, quiet' => quiet,
           registered' \subseteq registered, \A p \in registered' : record[p] # None => record'[p] # None,
           quiet' /\ reader.pc = "ids" => \A p \in Procs : record'[p] = record[p] \/ record'[p] = None
    PROVE  WorkInv'
<1>1. WorkTyped'
  BY DEF WorkInv, WorkTyped
<1>2. Work!Working' = Work!Working
  BY WorkingIs
<1>3. ReadKept'
  <2>1. ReadGood(reader, held, always, registered', record', Work!Working, envelopes)
    BY DEF WorkInv, ReadKept, ReadGood
  <2> QED
    BY <1>2, <2>1 DEF ReadKept
<1>4. BeatsSorted'
  <2> SUFFICES ASSUME quiet' PROVE SortedGood(reader, record')
    BY DEF BeatsSorted
  <2>1. SortedGood(reader, record) /\ reader \in Readers
    BY DEF WorkInv, BeatsSorted, WorkTyped
  <2>2. \A i \in DOMAIN reader.ids : reader.ids[i] \in Procs
    BY <2>1 DEF Readers
  <2>3. CASE reader.pc = "ids"
    BY <2>1, <2>2, <2>3 DEF SortedGood
  <2>4. CASE reader.pc # "ids"
    BY <2>1, <2>4 DEF SortedGood
  <2> QED
    BY <2>3, <2>4
<1> QED
  BY <1>1, <1>3, <1>4 DEF WorkInv

(* Time passes.                                                            *)
LEMMA TickStep == ASSUME WorkInv, Work!Tick PROVE WorkInv'
<1>1. /\ now' = now + 1 /\ UNCHANGED <<score, record, beating, life, claims, envelopes, reader, held, always>>
      /\ quiet' = quiet /\ registered' = registered
  BY DEF Work!Tick, Work!procVars, Work!jobVars, Work!history
<1>2. WorkTyped'
  BY <1>1 DEF WorkInv, WorkTyped
<1>3. Work!Working' = Work!Working
  BY <1>1, WorkingIs
<1>4. BeatsKept' /\ BeatsSorted'
  BY <1>1 DEF WorkInv, BeatsKept, BeatsSorted
<1>5. ReadKept'
  BY <1>1, <1>3 DEF WorkInv, ReadKept
<1> QED
  BY <1>2, <1>4, <1>5 DEF WorkInv

(* A process beats: its score, and later its record.                       *)
LEMMA PingScoreStep == ASSUME WorkInv, NEW p \in Procs, Work!PingScore(p) PROVE WorkInv'
<1>1. /\ life[p] \in {"new", "up"} /\ beating[p] = None
      /\ score' = [score EXCEPT ![p] = now] /\ beating' = [beating EXCEPT ![p] = now]
      /\ now' = now /\ UNCHANGED <<life, record, claims, envelopes, reader, held, always, registered>>
  BY DEF Work!PingScore, Work!jobVars
<1>2. quiet' \in BOOLEAN /\ (quiet' => quiet /\ reader.pc # "ids")
  <2>1. quiet' = (quiet /\ reader.pc # "ids")
    BY DEF Work!PingScore
  <2> QED
    BY <2>1, Zenon
<1>3. /\ now \in Nat /\ score \in Times /\ record \in Times /\ beating \in Times
      /\ life \in [Procs -> {"new", "up", "leaving", "down"}]
  BY DEF WorkInv, WorkTyped
<1>4. score' \in Times /\ beating' \in Times
  BY <1>1, <1>3 DEF Times
<1>5. BeatsKept'
  <2> SUFFICES ASSUME NEW q \in Procs
               PROVE  /\ beating'[q] = None /\ score'[q] # None => record[q] = score'[q]
                      /\ beating'[q] # None => score'[q] \in {beating'[q], None}
                      /\ life[q] = "leaving" => score'[q] = None
    BY <1>1 DEF BeatsKept
  <2>1. /\ beating[q] = None /\ score[q] # None => record[q] = score[q]
        /\ beating[q] # None => score[q] \in {beating[q], None}
        /\ life[q] = "leaving" => score[q] = None
    BY DEF WorkInv, BeatsKept
  <2>2. CASE q = p
    BY <1>1, <1>3, <2>2, WorkConstants DEF Times
  <2>3. CASE q # p
    BY <1>1, <1>3, <2>1, <2>3 DEF Times
  <2> QED
    BY <2>2, <2>3
<1>6. registered' \subseteq registered /\ \A q \in registered' : record[q] # None => record'[q] # None
  BY <1>1
<1> QED
  BY <1>1, <1>2, <1>3, <1>4, <1>5, <1>6, ProcessesKeep

(* The record follows the score.                                           *)
LEMMA PingRecordStep == ASSUME WorkInv, NEW p \in Procs, Work!PingRecord(p) PROVE WorkInv'
<1>1. /\ life[p] \in {"new", "up"} /\ beating[p] # None
      /\ record' = [record EXCEPT ![p] = beating[p]] /\ beating' = [beating EXCEPT ![p] = None]
      /\ life' = [life EXCEPT ![p] = "up"]
      /\ now' = now /\ UNCHANGED <<score, claims, envelopes, reader, held, always, registered>>
  BY DEF Work!PingRecord, Work!jobVars
<1>2. quiet' \in BOOLEAN /\ (quiet' => quiet /\ reader.pc # "ids")
  <2>1. quiet' = (quiet /\ reader.pc # "ids")
    BY DEF Work!PingRecord
  <2> QED
    BY <2>1, Zenon
<1>3. /\ score \in Times /\ record \in Times /\ beating \in Times
      /\ life \in [Procs -> {"new", "up", "leaving", "down"}]
  BY DEF WorkInv, WorkTyped
<1>4. record' \in Times /\ beating' \in Times /\ life' \in [Procs -> {"new", "up", "leaving", "down"}]
  BY <1>1, <1>3 DEF Times
<1>5. BeatsKept'
  <2> SUFFICES ASSUME NEW q \in Procs
               PROVE  /\ beating'[q] = None /\ score[q] # None => record'[q] = score[q]
                      /\ beating'[q] # None => score[q] \in {beating'[q], None}
                      /\ life'[q] = "leaving" => score[q] = None
    BY <1>1 DEF BeatsKept
  <2>1. /\ beating[q] = None /\ score[q] # None => record[q] = score[q]
        /\ beating[q] # None => score[q] \in {beating[q], None}
        /\ life[q] = "leaving" => score[q] = None
    BY DEF WorkInv, BeatsKept
  <2>2. CASE q = p
    BY <1>1, <1>3, <2>1, <2>2 DEF Times
  <2>3. CASE q # p
    BY <1>1, <1>3, <2>1, <2>3 DEF Times
  <2> QED
    BY <2>2, <2>3
<1>6. \A q : record[q] # None => record'[q] # None
  BY <1>1, <1>3 DEF Times
<1> QED
  BY <1>1, <1>2, <1>3, <1>4, <1>5, <1>6, ProcessesKeep

(* A process crashes, leaves or is forgotten.                              *)
LEMMA LifeKeeps ==
    ASSUME WorkInv, NEW p \in Procs, NEW state \in {"down", "leaving"}, NEW sc \in {score[p], None},
           life' = [life EXCEPT ![p] = state], score' = [score EXCEPT ![p] = sc], now' = now,
           state = "leaving" => sc = None,
           UNCHANGED <<beating, record, claims, envelopes, reader, held, always, registered, quiet>>
    PROVE  WorkInv'
<1>3. /\ score \in Times /\ record \in Times /\ beating \in Times
      /\ life \in [Procs -> {"new", "up", "leaving", "down"}]
  BY DEF WorkInv, WorkTyped
<1>4. score' \in Times /\ life' \in [Procs -> {"new", "up", "leaving", "down"}]
  BY <1>3 DEF Times
<1>5. BeatsKept'
  <2> SUFFICES ASSUME NEW q \in Procs
               PROVE  /\ beating[q] = None /\ score'[q] # None => record[q] = score'[q]
                      /\ beating[q] # None => score'[q] \in {beating[q], None}
                      /\ life'[q] = "leaving" => score'[q] = None
    BY DEF BeatsKept
  <2>1. /\ beating[q] = None /\ score[q] # None => record[q] = score[q]
        /\ beating[q] # None => score[q] \in {beating[q], None}
        /\ life[q] = "leaving" => score[q] = None
    BY DEF WorkInv, BeatsKept
  <2>2. CASE q = p
    BY <1>3, <2>1, <2>2 DEF Times
  <2>3. CASE q # p
    BY <1>3, <2>1, <2>3 DEF Times
  <2> QED
    BY <2>2, <2>3
<1>6. quiet' \in BOOLEAN /\ (quiet' => quiet)
  <2>1. quiet \in BOOLEAN
    BY DEF WorkInv, WorkTyped
  <2> QED
    BY <2>1, Zenon
<1> QED
  BY <1>3, <1>4, <1>5, <1>6, ProcessesKeep

(* A crash leaves score and record.                                        *)
LEMMA CrashStep == ASSUME WorkInv, NEW p \in Procs, Work!Crash(p) PROVE WorkInv'
<1>1. /\ life' = [life EXCEPT ![p] = "down"] /\ score' = score /\ now' = now
      /\ UNCHANGED <<beating, record, claims, envelopes, reader, held, always, registered, quiet>>
  BY DEF Work!Crash, Work!jobVars, Work!history
<1>2. score' = [score EXCEPT ![p] = score[p]]
  BY <1>1 DEF WorkInv, WorkTyped, Times
<1> QED
  BY <1>1, <1>2, LifeKeeps

(* A process that leaves takes its score first,                            *)
LEMMA LeaveStep == ASSUME WorkInv, NEW p \in Procs, Work!Leave(p) PROVE WorkInv'
<1>1. /\ life' = [life EXCEPT ![p] = "leaving"] /\ score' = [score EXCEPT ![p] = None] /\ now' = now
      /\ UNCHANGED <<beating, record, claims, envelopes, reader, held, always, registered, quiet>>
  BY DEF Work!Leave, Work!jobVars, Work!history
<1> QED
  BY <1>1, LifeKeeps

(* and so does the sweep for one that died.                                *)
LEMMA SweepForgetStep == ASSUME WorkInv, NEW p \in Procs, Work!SweepForget(p) PROVE WorkInv'
<1>1. /\ life' = [life EXCEPT ![p] = "leaving"] /\ score' = [score EXCEPT ![p] = None] /\ now' = now
      /\ UNCHANGED <<beating, record, claims, envelopes, reader, held, always, registered, quiet>>
  BY DEF Work!SweepForget, Work!jobVars, Work!history
<1> QED
  BY <1>1, LifeKeeps

(* The record goes after the score.                                        *)
LEMMA LeftStep == ASSUME WorkInv, NEW p \in Procs, Work!Left(p) PROVE WorkInv'
<1>1. /\ life[p] = "leaving" /\ life' = [life EXCEPT ![p] = "down"]
      /\ record' = [record EXCEPT ![p] = None] /\ registered' = registered \ {p}
      /\ now' = now /\ UNCHANGED <<beating, score, claims, envelopes, reader, held, always, quiet>>
  BY DEF Work!Left, Work!jobVars
<1>3. /\ score \in Times /\ record \in Times /\ beating \in Times
      /\ life \in [Procs -> {"new", "up", "leaving", "down"}]
  BY DEF WorkInv, WorkTyped
<1>4. record' \in Times /\ life' \in [Procs -> {"new", "up", "leaving", "down"}]
  BY <1>1, <1>3 DEF Times
<1>5. BeatsKept'
  <2> SUFFICES ASSUME NEW q \in Procs
               PROVE  /\ beating[q] = None /\ score[q] # None => record'[q] = score[q]
                      /\ beating[q] # None => score[q] \in {beating[q], None}
                      /\ life'[q] = "leaving" => score[q] = None
    BY <1>1 DEF BeatsKept
  <2>1. /\ beating[q] = None /\ score[q] # None => record[q] = score[q]
        /\ beating[q] # None => score[q] \in {beating[q], None}
        /\ life[q] = "leaving" => score[q] = None
    BY DEF WorkInv, BeatsKept
  <2>2. CASE q = p
    BY <1>1, <1>3, <2>1, <2>2 DEF Times
  <2>3. CASE q # p
    BY <1>1, <1>3, <2>1, <2>3 DEF Times
  <2> QED
    BY <2>2, <2>3
<1>6. quiet' \in BOOLEAN /\ (quiet' => quiet)
  <2>1. quiet \in BOOLEAN /\ quiet' = quiet
    BY <1>1 DEF WorkInv, WorkTyped
  <2> QED
    BY <2>1, Zenon
<1>7. /\ registered' \subseteq registered
      /\ \A q \in registered' : record[q] # None => record'[q] # None
      /\ \A q \in Procs : record'[q] = record[q] \/ record'[q] = None
  BY <1>1, <1>3 DEF Times
<1> QED
  BY <1>1, <1>3, <1>4, <1>5, <1>6, <1>7, ProcessesKeep

(* What is left to show of a job that moves.                               *)
LEMMA JobsKeep ==
    ASSUME WorkInv, Work!Note, claims' \in [Procs -> SUBSET WorkIds], envelopes' \subseteq envelopes,
           UNCHANGED <<now, life, beating, score, record, reader>>
    PROVE  WorkInv'
<1> DEFINE wk == Work!Working
           wkn == Work!Working'
<1>1. /\ held' = IF reader.pc \in {"ids", "records"} THEN held \cup wkn ELSE held
      /\ always' = IF reader.pc \in {"ids", "records"} THEN always \cap wkn ELSE always
      /\ registered' = registered /\ quiet' = quiet
  BY DEF Work!Note, Work!Reading
<1>2. WorkTyped'
  BY <1>1 DEF WorkInv, WorkTyped
<1>3. BeatsKept' /\ BeatsSorted'
  BY <1>1 DEF WorkInv, BeatsKept, BeatsSorted
<1> HIDE DEF wk, wkn
<1>4. ReadGood(reader, held, always, registered, record, wk, envelopes)
  BY DEF WorkInv, ReadKept, wk
<1>5. ReadGood(reader, held', always', registered, record, wkn, envelopes')
  <2>1. CASE reader.pc = "ids"
    BY <1>1, <1>4, <2>1 DEF ReadGood
  <2>2. CASE reader.pc = "records"
    BY <1>1, <1>4, <2>2 DEF ReadGood
  <2>3. CASE reader.pc = "answered"
    BY <1>1, <1>4, <2>3 DEF ReadGood
  <2>4. CASE reader.pc \notin {"ids", "records", "answered"}
    BY <2>4 DEF ReadGood
  <2> QED
    BY <2>1, <2>2, <2>3, <2>4
<1>6. ReadKept'
  BY <1>1, <1>5 DEF ReadKept, wkn
<1> QED
  BY <1>2, <1>3, <1>6 DEF WorkInv

(* A job is claimed, finished, retried or deleted.                         *)
LEMMA JobSteps ==
    ASSUME WorkInv, NEW p \in Procs, NEW j \in WorkIds,
           Work!Claim(p, j) \/ Work!Finish(p, j) \/ Work!Requeue(p, j) \/ Work!Delete(j)
    PROVE  WorkInv'
<1>1. /\ Work!Note /\ UNCHANGED <<now, life, beating, score, record, reader>>
      /\ envelopes' \subseteq envelopes
      /\ \/ claims' = claims
         \/ claims' = [claims EXCEPT ![p] = @ \union {j}]
         \/ claims' = [claims EXCEPT ![p] = @ \ {j}]
  BY DEF Work!Claim, Work!Finish, Work!Requeue, Work!Delete, Work!procVars
<1>2. claims \in [Procs -> SUBSET WorkIds]
  BY DEF WorkInv, WorkTyped
<1>3. claims' \in [Procs -> SUBSET WorkIds]
  BY <1>1, <1>2
<1> QED
  BY <1>1, <1>3, JobsKeep

(* What is left to show of a step of the reader.                           *)
LEMMA ReaderKeeps ==
    ASSUME WorkInv, UNCHANGED <<now, life, beating, score, record, claims, envelopes>>,
           reader' \in Readers, quiet' \in BOOLEAN,
           ReadGood(reader', held', always', registered', record, Work!Working, envelopes),
           quiet' => SortedGood(reader', record)
    PROVE  WorkInv'
<1>1. WorkTyped'
  BY DEF WorkInv, WorkTyped
<1>2. BeatsKept'
  BY DEF WorkInv, BeatsKept
<1>3. Work!Working' = Work!Working
  BY WorkingIs
<1>4. ReadKept' /\ BeatsSorted'
  BY <1>3 DEF ReadKept, BeatsSorted
<1> QED
  BY <1>1, <1>2, <1>4 DEF WorkInv

(* The ids are read in the order of their scores.                          *)
LEMMA ReadIdsStep == ASSUME WorkInv, Work!ReadIds PROVE WorkInv'
<1> DEFINE fresh == {p \in Procs : Work!Fresh(p)}
<1>0. /\ score \in Times /\ record \in Times /\ beating \in Times
      /\ \A p \in Procs : beating[p] = None /\ score[p] # None => record[p] = score[p]
  BY DEF WorkInv, WorkTyped, BeatsKept
<1>1. PICK ids \in [1 .. Work!Cardinality(fresh) -> fresh] :
          Work!InOrder(ids, fresh) /\ reader' = [Work!Idle EXCEPT !.pc = "ids", !.ids = ids]
  BY DEF Work!ReadIds
<1>2. /\ held' = Work!Working /\ always' = Work!Working
      /\ registered' = {p \in Procs : score[p] # None /\ score[p] + Threshold >= now /\ record[p] # None}
      /\ UNCHANGED <<now, life, beating, score, record, claims, envelopes>>
  BY DEF Work!ReadIds, Work!procVars, Work!jobVars
<1>3. Work!Cardinality(fresh) \in Nat
  <2>1. IsFiniteSet(fresh)
    BY WorkConstants, FS_Subset
  <2> QED
    BY <2>1, FS_CardinalityType, SameCardinality
<1>4. ids \in Seq(Procs)
  <2>1. PICK n \in Nat : n = Work!Cardinality(fresh)
    BY <1>3
  <2>2. fresh \subseteq Procs
    OBVIOUS
  <2> HIDE DEF fresh
  <2>3. ids \in [1 .. n -> fresh]
    BY <1>1, <2>1
  <2> QED
    BY <2>2, <2>3
<1>5. /\ reader'.pc = "ids" /\ reader'.ids = ids /\ reader'.listed = {} /\ reader' \in Readers
  <2>1. reader' = [Work!Idle EXCEPT !.pc = "ids", !.ids = ids]
    BY <1>1
  <2>2. Work!Idle \in Readers /\ Work!Idle.listed = {}
    BY DEF Work!Idle, Readers
  <2> HIDE DEF fresh
  <2> QED
    BY ONLY <1>4, <2>1, <2>2 DEF Readers
<1>6. Lists(ids) = fresh /\ \A i, j \in DOMAIN ids : i < j => Work!Before(ids[i], ids[j])
  BY <1>1 DEF Work!InOrder, Lists, Work!ToSet
<1>7. ReadGood(reader', held', always', registered', record, Work!Working, envelopes)
  <2>1. \A p \in registered' : p \in Lists(ids) /\ record[p] # None
    BY <1>2, <1>6 DEF Work!Fresh
  <2> QED
    BY <1>2, <1>5, <2>1 DEF ReadGood
<1>8. quiet' \in BOOLEAN
  <2>1. quiet' = \A p \in Procs : beating[p] = None
    BY DEF Work!ReadIds
  <2> QED
    BY <2>1, Zenon
<1>9. ASSUME quiet' PROVE SortedGood(reader', record)
  <2>1. \A p \in Procs : beating[p] = None
    BY <1>9 DEF Work!ReadIds
  <2> SUFFICES ASSUME NEW i \in DOMAIN ids, NEW j \in DOMAIN ids, i < j
               PROVE  record[ids[i]] <= record[ids[j]]
    BY <1>5 DEF SortedGood
  <2>2. ids[i] \in fresh /\ ids[j] \in fresh /\ Work!Before(ids[i], ids[j])
    BY <1>6 DEF Lists
  <2>3. score[ids[i]] \in Nat /\ score[ids[j]] \in Nat
    BY <1>0, <2>2 DEF Work!Fresh, Times
  <2>4. record[ids[i]] = score[ids[i]] /\ record[ids[j]] = score[ids[j]]
    BY <1>0, <2>1, <2>2 DEF Work!Fresh
  <2>5. score[ids[i]] <= score[ids[j]]
    BY <2>2, <2>3 DEF Work!Before
  <2> QED
    BY <2>4, <2>5
<1> QED
  BY <1>2, <1>5, <1>7, <1>8, <1>9, ReaderKeeps

(* The records are read in the order of the ids.                           *)
LEMMA ReadRecordsStep == ASSUME WorkInv, Work!ReadRecords PROVE WorkInv'
<1> DEFINE S == {p \in Procs : record[p] # None}
           known == Work!Only(reader.ids, S)
           rec(i) == [id |-> known[i], heartbeat |-> record[known[i]]]
           sh == [i \in 1 .. Len(known) |-> rec(i)]
<1>0. record \in Times /\ reader \in Readers /\ quiet \in BOOLEAN
  BY DEF WorkInv, WorkTyped
<1>1. /\ reader.pc = "ids"
      /\ reader' = [reader EXCEPT !.pc = "records", !.ids = <<>>, !.todo = known, !.shown = sh]
      /\ UNCHANGED <<now, life, beating, score, record, claims, envelopes, held, always, registered, quiet>>
  BY DEF Work!ReadRecords, Work!procVars, Work!jobVars, Work!history
<1>2. reader.ids \in Seq(Procs) /\ DOMAIN reader.ids = 1 .. Len(reader.ids)
  BY <1>0 DEF Readers
<1>3. known \in Seq(Procs) /\ \E e : Embeds(e, known, reader.ids, S, Len(reader.ids))
  BY <1>2, OnlyKeeps
<1>4. PICK e : Embeds(e, known, reader.ids, S, Len(reader.ids))
  BY <1>3
<1> HIDE DEF known
<1>5. DOMAIN known = 1 .. Len(known) /\ Len(known) \in Nat /\ \A i \in DOMAIN known : known[i] \in Procs
  BY <1>3
<1>6. \A i \in DOMAIN known : known[i] \in S /\ record[known[i]] \in Nat
  BY <1>0, <1>4, <1>5 DEF Embeds, Times
<1>7. /\ sh \in Seq([id : Procs, heartbeat : Nat]) /\ DOMAIN sh = DOMAIN known
      /\ \A i \in DOMAIN known : sh[i].id = known[i] /\ sh[i].heartbeat = record[known[i]]
  <2>1. \A i \in DOMAIN known : rec(i) \in [id : Procs, heartbeat : Nat]
    BY <1>5, <1>6
  <2> HIDE DEF rec
  <2>2. sh \in Seq([id : Procs, heartbeat : Nat]) /\ DOMAIN sh = DOMAIN known
    BY <1>5, <2>1
  <2>3. \A i \in DOMAIN known : sh[i] = rec(i)
    BY <1>5
  <2> QED
    BY <2>2, <2>3 DEF rec
<1> HIDE DEF sh
<1>8. /\ reader' \in Readers /\ reader'.pc = "records" /\ reader'.todo = known /\ reader'.shown = sh
      /\ reader'.listed = reader.listed
  <2>1. <<>> \in Seq(Procs)
    OBVIOUS
  <2> HIDE DEF S
  <2> QED
    BY ONLY <1>0, <1>1, <1>3, <1>7, <2>1 DEF Readers
<1>9. ReadGood(reader, held, always, registered, record, Work!Working, envelopes)
  BY DEF WorkInv, ReadKept
<1>10. /\ Work!Working \subseteq held /\ always \subseteq Work!Working /\ reader.listed = {}
       /\ \A p \in registered : p \in Lists(reader.ids) /\ record[p] # None
  BY <1>1, <1>9 DEF ReadGood
<1>11. ShownIn(reader') = Lists(known)
  BY <1>7, <1>8 DEF ShownIn, Lists
<1>12. registered \subseteq Lists(known)
  <2> SUFFICES ASSUME NEW p \in registered PROVE p \in Lists(known)
    OBVIOUS
  <2>1. PICK m \in DOMAIN reader.ids : reader.ids[m] = p
    BY <1>10 DEF Lists
  <2>2. p \in S
    BY <1>2, <1>10, <2>1
  <2> QED
    BY <1>2, <1>4, <2>1, <2>2 DEF Embeds, Lists
<1>13. ReadGood(reader', held', always', registered', record, Work!Working, envelopes)
  BY <1>1, <1>8, <1>10, <1>11, <1>12 DEF ReadGood
<1>14. ASSUME quiet' PROVE SortedGood(reader', record)
  <2>1. SortedGood(reader, record)
    BY <1>1, <1>14 DEF WorkInv, BeatsSorted
  <2> SUFFICES ASSUME NEW i \in DOMAIN known, NEW j \in DOMAIN known, i < j
               PROVE  record[known[i]] <= record[known[j]]
    BY <1>7, <1>8 DEF SortedGood
  <2>2. /\ e[i] \in DOMAIN reader.ids /\ e[j] \in DOMAIN reader.ids /\ e[i] < e[j]
        /\ known[i] = reader.ids[e[i]] /\ known[j] = reader.ids[e[j]]
    BY <1>2, <1>4 DEF Embeds
  <2> QED
    BY <1>1, <1>6, <2>1, <2>2 DEF SortedGood
<1>15. quiet' \in BOOLEAN
  BY <1>0, <1>1, Zenon
<1> QED
  BY <1>1, <1>8, <1>13, <1>14, <1>15, ReaderKeeps

(* The next processing list is read.                                       *)
LEMMA ReadClaimsStep == ASSUME WorkInv, Work!ReadClaims PROVE WorkInv'
<1> DEFINE p == Head(reader.todo)
           more == {<<p, j>> : j \in claims[p]}
<1>0. /\ reader \in Readers /\ claims \in [Procs -> SUBSET WorkIds] /\ quiet \in BOOLEAN
  BY DEF WorkInv, WorkTyped
<1>1. /\ reader.pc = "records" /\ reader.todo # <<>>
      /\ reader' = [reader EXCEPT !.todo = Tail(reader.todo), !.listed = reader.listed \cup more]
      /\ UNCHANGED <<now, life, beating, score, record, claims, envelopes, held, always, registered, quiet>>
  BY DEF Work!ReadClaims, Work!procVars, Work!jobVars, Work!history
<1>2. reader.todo \in Seq(Procs) /\ reader.listed \in SUBSET (Procs \X WorkIds)
  BY <1>0 DEF Readers
<1>3. /\ p \in Procs /\ Tail(reader.todo) \in Seq(Procs) /\ p \in Lists(reader.todo)
      /\ Lists(Tail(reader.todo)) \subseteq Lists(reader.todo)
      /\ \A q \in Lists(reader.todo) : q = p \/ q \in Lists(Tail(reader.todo))
  <2>1. /\ Tail(reader.todo) \in Seq(Procs) /\ p = reader.todo[1] /\ 1 \in DOMAIN reader.todo
        /\ \A n \in DOMAIN Tail(reader.todo) :
              n + 1 \in DOMAIN reader.todo /\ Tail(reader.todo)[n] = reader.todo[n + 1]
    BY <1>1, <1>2
  <2>2. \A n \in DOMAIN reader.todo :
            n = 1 \/ (n - 1 \in DOMAIN Tail(reader.todo) /\ reader.todo[n] = Tail(reader.todo)[n - 1])
    BY <1>1, <1>2
  <2>3. p \in Procs
    BY <1>2, <2>1
  <2> QED
    BY <2>1, <2>2, <2>3 DEF Lists
<1> HIDE DEF p
<1>4. more \in SUBSET (Procs \X WorkIds) /\ \A x \in more : x[1] = p /\ x[2] \in claims[p]
  BY <1>0, <1>3
<1>5. \A x \in Procs \X WorkIds : x[1] = p /\ x[2] \in claims[p] => x \in more
  OBVIOUS
<1> HIDE DEF more
<1>6. /\ reader' \in Readers /\ reader'.pc = "records" /\ reader'.todo = Tail(reader.todo)
      /\ reader'.shown = reader.shown /\ reader'.listed = reader.listed \cup more
  BY <1>0, <1>1, <1>3, <1>4 DEF Readers
<1>7. ReadGood(reader, held, always, registered, record, Work!Working, envelopes)
  BY DEF WorkInv, ReadKept
<1>8. ShownIn(reader') = ShownIn(reader)
  BY <1>6 DEF ShownIn
<1>9. /\ Work!Working \subseteq held /\ always \subseteq Work!Working
      /\ \A x \in reader.listed : x[1] \in ShownIn(reader) /\ (x[2] \in envelopes => x \in held)
      /\ registered \subseteq ShownIn(reader) /\ Lists(reader.todo) \subseteq ShownIn(reader)
      /\ \A x \in always : x[1] \in registered => x[1] \in Lists(reader.todo) \/ x \in reader.listed
  BY <1>1, <1>7 DEF ReadGood
<1>10. \A x \in more : x[2] \in envelopes => x \in Work!Working
  BY <1>4, WorkingIs
<1>11. \A x \in always : x \in Procs \X WorkIds /\ x[2] \in claims[x[1]]
  BY <1>9, WorkingIs
<1>12. \A x \in always : x[1] = p => x \in more
  BY <1>5, <1>11
<1>13. ReadGood(reader', held', always', registered', record, Work!Working, envelopes)
  <2>1. \A x \in reader'.listed : x[1] \in ShownIn(reader) /\ (x[2] \in envelopes => x \in held)
    BY <1>3, <1>4, <1>6, <1>9, <1>10
  <2>2. \A x \in always : x[1] \in registered => x[1] \in Lists(reader'.todo) \/ x \in reader'.listed
    BY <1>3, <1>6, <1>9, <1>12
  <2>3. Lists(reader'.todo) \subseteq ShownIn(reader)
    BY <1>3, <1>6, <1>9
  <2> QED
    BY <1>1, <1>6, <1>8, <1>9, <2>1, <2>2, <2>3 DEF ReadGood
<1>14. quiet' => SortedGood(reader', record)
  BY <1>1, <1>6 DEF WorkInv, BeatsSorted, SortedGood
<1>15. quiet' \in BOOLEAN
  BY <1>0, <1>1, Zenon
<1> QED
  BY <1>1, <1>6, <1>13, <1>14, <1>15, ReaderKeeps

(* Only what still has a payload is shown.                                 *)
LEMMA ReadJobsStep == ASSUME WorkInv, Work!ReadJobs PROVE WorkInv'
<1> DEFINE res == {x \in reader.listed : x[2] \in envelopes}
<1>0. reader \in Readers /\ quiet \in BOOLEAN
  BY DEF WorkInv, WorkTyped
<1>1. /\ reader.pc = "records" /\ reader.todo = <<>>
      /\ reader' = [reader EXCEPT !.pc = "answered", !.listed = {}, !.rows = res]
      /\ UNCHANGED <<now, life, beating, score, record, claims, envelopes, held, always, registered, quiet>>
  BY DEF Work!ReadJobs, Work!Resolved, Work!procVars, Work!jobVars, Work!history
<1>2. reader.listed \in SUBSET (Procs \X WorkIds)
  BY <1>0 DEF Readers
<1>3. res \in SUBSET (Procs \X WorkIds)
  BY <1>2
<1>4. \A x : x \in res <=> x \in reader.listed /\ x[2] \in envelopes
  OBVIOUS
<1> HIDE DEF res
<1>6. /\ reader' \in Readers /\ reader'.pc = "answered" /\ reader'.shown = reader.shown
      /\ reader'.rows = res
  BY <1>0, <1>1, <1>3 DEF Readers
<1>7. ReadGood(reader, held, always, registered, record, Work!Working, envelopes)
  BY DEF WorkInv, ReadKept
<1>8. ShownIn(reader') = ShownIn(reader)
  BY <1>6 DEF ShownIn
<1>9. /\ always \subseteq Work!Working /\ Lists(reader.todo) = {}
      /\ \A x \in reader.listed : x[1] \in ShownIn(reader) /\ (x[2] \in envelopes => x \in held)
      /\ registered \subseteq ShownIn(reader)
      /\ \A x \in always : x[1] \in registered => x[1] \in Lists(reader.todo) \/ x \in reader.listed
  BY <1>1, <1>7 DEF ReadGood, Lists
<1>10. \A x \in always : x[2] \in envelopes
  BY <1>9, WorkingIs
<1>13. ReadGood(reader', held', always', registered', record, Work!Working, envelopes)
  BY <1>1, <1>4, <1>6, <1>8, <1>9, <1>10 DEF ReadGood
<1>14. quiet' => SortedGood(reader', record)
  BY <1>1, <1>6 DEF WorkInv, BeatsSorted, SortedGood
<1>15. quiet' \in BOOLEAN
  BY <1>0, <1>1, Zenon
<1> QED
  BY <1>1, <1>6, <1>13, <1>14, <1>15, ReaderKeeps

(* The next reading begins.                                                *)
LEMMA WorkShowStep == ASSUME WorkInv, Work!Show PROVE WorkInv'
<1>1. /\ reader' = Work!Idle /\ UNCHANGED <<now, life, beating, score, record, claims, envelopes>>
      /\ quiet' = TRUE
  BY DEF Work!Show, Work!procVars, Work!jobVars
<1>2. reader' \in Readers /\ reader'.pc = "idle"
  BY <1>1 DEF Work!Idle, Readers
<1>3. /\ ReadGood(reader', held', always', registered', record, Work!Working, envelopes)
      /\ SortedGood(reader', record)
  BY <1>2 DEF ReadGood, SortedGood
<1>4. quiet' \in BOOLEAN
  BY <1>1, Zenon
<1> QED
  BY <1>1, <1>2, <1>3, <1>4, ReaderKeeps

(* Every step keeps what the overview relies on.                           *)
LEMMA WorkNext == ASSUME WorkInv, Work!Next PROVE WorkInv'
<1>1. CASE \E p \in Procs : \/ Work!PingScore(p) \/ Work!PingRecord(p) \/ Work!Crash(p) \/ Work!Leave(p)
                            \/ Work!Left(p) \/ Work!SweepForget(p)
  BY <1>1, PingScoreStep, PingRecordStep, CrashStep, LeaveStep, LeftStep, SweepForgetStep
<1>2. CASE \E p \in Procs : \E j \in WorkIds :
              Work!Claim(p, j) \/ Work!Finish(p, j) \/ Work!Requeue(p, j)
  BY <1>2, JobSteps
<1>3. CASE \E j \in WorkIds : Work!Delete(j)
  <2>1. PICK j \in WorkIds : Work!Delete(j)
    BY <1>3
  <2>2. /\ Work!Note /\ UNCHANGED <<now, life, beating, score, record, reader>>
        /\ envelopes' \subseteq envelopes /\ claims' = claims
    BY <2>1 DEF Work!Delete, Work!procVars
  <2>3. claims' \in [Procs -> SUBSET WorkIds]
    BY <2>2 DEF WorkInv, WorkTyped
  <2> QED
    BY <2>2, <2>3, JobsKeep
<1>4. CASE Work!Tick \/ Work!ReadIds \/ Work!ReadRecords \/ Work!ReadClaims \/ Work!ReadJobs \/ Work!Show
  BY <1>4, TickStep, ReadIdsStep, ReadRecordsStep, ReadClaimsStep, ReadJobsStep, WorkShowStep
<1> QED
  BY <1>1, <1>2, <1>3, <1>4 DEF Work!Next

(* Other parts leave the overview alone.                                   *)
LEMMA WorkStutter == ASSUME WorkInv, UNCHANGED ofWork PROVE WorkInv'
<1>1. /\ UNCHANGED <<now, life, beating, score, record, claims, envelopes>> /\ reader' = reader
      /\ held' = held /\ always' = always /\ registered' = registered /\ quiet' = quiet
  BY DEF ofWork
<1>2. /\ reader' \in Readers /\ quiet' \in BOOLEAN
      /\ ReadGood(reader', held', always', registered', record, Work!Working, envelopes)
      /\ quiet' => SortedGood(reader', record)
  BY <1>1 DEF WorkInv, WorkTyped, ReadKept, BeatsSorted
<1> QED
  BY <1>1, <1>2, ReaderKeeps

(* Induction on finite sets, as the existence of a least counterexample.   *)
LEMMA LeastSubset ==
    ASSUME NEW Q, IsFiniteSet(Q), NEW C \in SUBSET (SUBSET Q), C # {}
    PROVE  \E T \in C : \A x \in T : T \ {x} \notin C
<1>1. IsWellFoundedOn(StrictSubsetOrdering(Q), SUBSET Q)
  BY FS_StrictSubsetOrderingWellFounded, FS_FiniteSubsetsOfFinite
<1>2. PICK T \in C : \A U \in C : ~(<<U, T>> \in StrictSubsetOrdering(Q))
  BY <1>1, WFMin
<1>3. \A x \in T : <<T \ {x}, T>> \in StrictSubsetOrdering(Q)
  BY DEF StrictSubsetOrdering
<1> QED
  BY <1>2, <1>3

(* The rows of some processes, and the order in which they are added up.   *)
RowsOf(R, T) == {x \in R : x[1] \in T}
Pick(T) == CHOOSE x \in T : TRUE

(* The rows of a process, and those of the others.                         *)
LEMMA RowsSplit ==
    ASSUME NEW R, IsFiniteSet(R), NEW T, NEW p \in T
    PROVE  /\ Cardinality(RowsOf(R, T)) =
                 Cardinality({x \in R : x[1] = p}) + Cardinality(RowsOf(R, T \ {p}))
           /\ Cardinality(RowsOf(R, T \ {p})) \in Nat
<1> DEFINE A == {x \in R : x[1] = p}
           B == RowsOf(R, T \ {p})
<1>1. RowsOf(R, T) = A \cup B /\ A \cap B = {} /\ A \subseteq R /\ B \subseteq R
  BY DEF RowsOf
<1> HIDE DEF A, B
<1>2. IsFiniteSet(A) /\ IsFiniteSet(B)
  BY <1>1, FS_Subset
<1>3. Cardinality(A \cup B) = Cardinality(A) + Cardinality(B) - Cardinality(A \cap B)
  BY <1>2, FS_Union
<1>4. Cardinality(A \cap B) = 0 /\ Cardinality(A) \in Nat /\ Cardinality(B) \in Nat
  BY <1>1, <1>2, FS_EmptySet, FS_CardinalityType
<1>5. Cardinality(A \cup B) = Cardinality(A) + Cardinality(B)
  BY <1>3, <1>4
<1> QED
  BY <1>1, <1>4, <1>5 DEF A, B

(* The busy numbers add up to the rows.                                    *)
LEMMA BusySum ==
    ASSUME IsFiniteSet(reader.rows), NEW Q, IsFiniteSet(Q)
    PROVE  Work!MapThenSumSet(Work!BusyForProcess, Q) = Cardinality(RowsOf(reader.rows, Q))
<1> DEFINE R == reader.rows
           busy(p) == Cardinality({x \in R : x[1] = p})
           F(f) == f = [T \in SUBSET Q |-> IF T = {} THEN 0
                                           ELSE Work!BusyForProcess(Pick(T)) + f[T \ {Pick(T)}]]
<1>1. Work!MapThenSumSet(Work!BusyForProcess, Q) = (CHOOSE f : F(f))[Q]
  BY DEF Work!MapThenSumSet, Work!MapThenFoldSet, Pick
<1>2. \A p : Work!BusyForProcess(p) = busy(p)
  BY SameCardinality DEF Work!BusyForProcess
<1> HIDE DEF busy
<1>3. \A T \in SUBSET Q : T # {} =>
         /\ Pick(T) \in T
         /\ Cardinality(RowsOf(R, T)) = busy(Pick(T)) + Cardinality(RowsOf(R, T \ {Pick(T)}))
  <2> SUFFICES ASSUME NEW T \in SUBSET Q, T # {}
               PROVE /\ Pick(T) \in T
                     /\ Cardinality(RowsOf(R, T)) = busy(Pick(T)) + Cardinality(RowsOf(R, T \ {Pick(T)}))
    OBVIOUS
  <2>1. Pick(T) \in T
    BY DEF Pick
  <2> QED
    BY <2>1, RowsSplit DEF busy
<1>4. Cardinality(RowsOf(R, {})) = 0
  <2>1. RowsOf(R, {}) = {}
    BY DEF RowsOf
  <2> QED
    BY <2>1, FS_EmptySet
<1>5. \E f : F(f)
  <2> DEFINE u == [T \in SUBSET Q |-> Cardinality(RowsOf(R, T))]
  <2>1. \A T \in SUBSET Q :
            u[T] = IF T = {} THEN 0 ELSE Work!BusyForProcess(Pick(T)) + u[T \ {Pick(T)}]
    BY <1>2, <1>3, <1>4
  <2>2. F(u)
    BY <2>1
  <2> QED
    BY <2>2
<1>6. PICK f : F(f) /\ f = CHOOSE g : F(g)
  BY <1>5
<1>7. \A T \in SUBSET Q : f[T] = IF T = {} THEN 0 ELSE busy(Pick(T)) + f[T \ {Pick(T)}]
  <2> SUFFICES ASSUME NEW T \in SUBSET Q
               PROVE  f[T] = IF T = {} THEN 0 ELSE busy(Pick(T)) + f[T \ {Pick(T)}]
    OBVIOUS
  <2>1. F(f)
    BY <1>6
  <2>2. f[T] = IF T = {} THEN 0 ELSE Work!BusyForProcess(Pick(T)) + f[T \ {Pick(T)}]
    BY ONLY <2>1
  <2> QED
    BY ONLY <1>2, <2>2
<1> HIDE DEF F
<1> DEFINE C == {T \in SUBSET Q : f[T] # Cardinality(RowsOf(R, T))}
<1>8. ASSUME C # {} PROVE FALSE
  <2>1. PICK T \in C : \A x \in T : T \ {x} \notin C
    BY <1>8, LeastSubset
  <2>2. CASE T = {}
    BY <1>4, <1>7, <2>1, <2>2
  <2>3. CASE T # {}
    <3>1. Pick(T) \in T
      BY <1>3, <2>3
    <3>2. f[T \ {Pick(T)}] = Cardinality(RowsOf(R, T \ {Pick(T)}))
      BY <2>1, <3>1
    <3> QED
      BY <1>3, <1>7, <2>1, <2>3, <3>2
  <2> QED
    BY <2>2, <2>3
<1>9. f[Q] = Cardinality(RowsOf(R, Q))
  BY <1>8
<1> QED
  BY <1>1, <1>6, <1>9

(* The largest of some numbers up to n.                                    *)
LEMMA LargestOf ==
    ASSUME NEW n \in Nat, NEW S \in SUBSET (1 .. n), S # {}
    PROVE  Work!Max(S) \in S /\ \A k \in S : k <= Work!Max(S)
<1> DEFINE D == {n - k : k \in S}
<1>1. D \in SUBSET Nat /\ D # {}
  <2>1. \A k \in S : n - k \in Nat
    OBVIOUS
  <2> QED
    BY <2>1
<1>2. PICK d \in D : \A k \in D : d <= k
  BY <1>1, HasSmallest
<1>3. PICK m \in S : d = n - m
  BY <1>2
<1>4. \A k \in S : n - k \in D
  OBVIOUS
<1> HIDE DEF D
<1>5. \A k \in S : k <= m
  BY <1>2, <1>3, <1>4
<1>6. \E x \in S : \A y \in S : x >= y
  BY <1>3, <1>5
<1> QED
  BY <1>6 DEF Work!Max

(* What a sequence is made of.                                             *)
LEMMA ElementsOf ==
    ASSUME NEW A, NEW s \in Seq(A)
    PROVE  DOMAIN s = 1 .. Len(s) /\ Len(s) \in Nat /\ \A i \in 1 .. Len(s) : s[i] \in A
  OBVIOUS

(* What was read is what is promised of it.                                *)
LEMMA WorkHold == ASSUME WorkInv PROVE Work!WorkShown
<1>1. reader \in Readers /\ ReadGood(reader, held, always, registered, record, Work!Working, envelopes)
  BY DEF WorkInv, WorkTyped, ReadKept
<1>2. /\ reader.shown \in Seq([id : Procs, heartbeat : Nat]) /\ reader.rows \in SUBSET (Procs \X WorkIds)
  BY <1>1 DEF Readers
<1>3. /\ DOMAIN reader.shown = 1 .. Len(reader.shown) /\ Len(reader.shown) \in Nat
      /\ \A i \in 1 .. Len(reader.shown) : reader.shown[i].id \in Procs /\ reader.shown[i].heartbeat \in Nat
  <2>1. /\ DOMAIN reader.shown = 1 .. Len(reader.shown) /\ Len(reader.shown) \in Nat
        /\ \A i \in 1 .. Len(reader.shown) : reader.shown[i] \in [id : Procs, heartbeat : Nat]
    BY <1>2, ElementsOf
  <2> QED
    BY <2>1
<1>4. Work!ShownIds = ShownIn(reader) /\ ShownIn(reader) \subseteq Procs
  BY <1>3 DEF Work!ShownIds, ShownIn
<1> SUFFICES ASSUME reader.pc = "answered"
             PROVE  Work!RowsSound /\ Work!RowsComplete /\ Work!BusyAddsUp /\ Work!LatestBeatExported
  BY DEF Work!WorkShown, Work!RowsSound, Work!RowsComplete, Work!BusyAddsUp,
     Work!LatestBeatExported,
         Work!Answered
<1>5. /\ \A x \in reader.rows : x[1] \in ShownIn(reader) /\ x \in held
      /\ registered \subseteq ShownIn(reader)
      /\ \A x \in always : x[1] \in registered => x \in reader.rows
  BY <1>1 DEF ReadGood
<1>6. Work!RowsSound /\ Work!RowsComplete
  BY <1>4, <1>5 DEF Work!RowsSound, Work!RowsComplete
<1>7. Work!BusyAddsUp
  <2>1. IsFiniteSet(ShownIn(reader)) /\ IsFiniteSet(reader.rows)
    BY <1>2, <1>4, WorkConstants, FS_Subset, FS_Product
  <2>2. RowsOf(reader.rows, ShownIn(reader)) = reader.rows
    BY <1>5 DEF RowsOf
  <2>3. Work!MapThenSumSet(Work!BusyForProcess, Work!ShownIds) = Cardinality(reader.rows)
    BY <1>4, <2>1, <2>2, BusySum
  <2> QED
    BY <2>3, SameCardinality DEF Work!BusyAddsUp
<1>8. Work!LatestBeatExported
  <2> SUFFICES ASSUME quiet, NEW i \in 1 .. Len(reader.shown)
               PROVE  Work!Heartbeat("a") >= reader.shown[i].heartbeat
    BY <1>3 DEF Work!LatestBeatExported
  <2>1. \A m, n \in 1 .. Len(reader.shown) : m < n => reader.shown[m].heartbeat <= reader.shown[n].heartbeat
    BY <1>3 DEF WorkInv, BeatsSorted, SortedGood
  <2> DEFINE S == {n \in 1 .. Len(reader.shown) : [p \in Procs |-> "a"][reader.shown[n].id] = "a"}
  <2>2. i \in S /\ S \in SUBSET (1 .. Len(reader.shown))
    BY <1>3
  <2>3. Work!Heartbeat("a") = reader.shown[Work!Max(S)].heartbeat
    BY DEF Work!Heartbeat
  <2> HIDE DEF S
  <2>4. Work!Max(S) \in S /\ i <= Work!Max(S)
    BY <1>3, <2>2, LargestOf
  <2>5. PICK k \in 1 .. Len(reader.shown) : k = Work!Max(S) /\ i <= k
    BY <2>2, <2>4
  <2>6. reader.shown[i].heartbeat <= reader.shown[k].heartbeat
    BY <1>3, <2>1, <2>5
  <2> QED
    BY <1>3, <2>3, <2>5, <2>6
<1> QED
  BY <1>6, <1>7, <1>8

-----------------------------------------------------------------------------
(* The four parts, side by side.                                           *)

DashboardInv ==
    /\ Configuring => SettingsInv
    /\ Registering => RegistryInv
    /\ Paging => PagesInv
    /\ Working => WorkInv

(* The initial states of the parts.                                        *)
LEMMA DashboardInit == Init => DashboardInv
<1> SUFFICES ASSUME Init PROVE DashboardInv
  OBVIOUS
<1>1. Configuring => Settings!Init
  BY DEF Init, Configuring, Measuring, Counting, Paging, Listing, Registering, Working, Drawing
<1>2. Registering => Registry!Init
  BY DEF Init, Configuring, Measuring, Counting, Paging, Listing, Registering, Working, Drawing
<1>3. Paging => Pages!Init
  BY DEF Init, Configuring, Measuring, Counting, Paging, Listing, Registering, Working, Drawing
<1>4. Working => Work!Init
  BY DEF Init, Configuring, Measuring, Counting, Paging, Listing, Registering, Working, Drawing
<1> QED
  BY <1>1, <1>2, <1>3, <1>4, SettingsInit, RegistryInit, PagesInit, WorkInit DEF DashboardInv

(* Steps on other parts leave the settings alone.                          *)
LEMMA SettingsStutter ==
    ASSUME SettingsInv, UNCHANGED <<stored, client, ops>>
    PROVE  SettingsInv'
  BY DEF SettingsInv

(* Steps on other parts leave the registry alone.                          *)
LEMMA RegistryStutter ==
    ASSUME RegistryInv,
           UNCHANGED <<jobs, aliases, schedules, onDemand, queues, allowlist, denylist, phase, running,
                       catalog, submitted, explicit, claimed>>
    PROVE  RegistryInv'
  BY DEF RegistryInv, NamesLead, Registry!RegistrationsWhole, Registry!DeclaredQueueKept,
     QueuesRegistered, CatalogStale, SubmittedKnown, Registry!SelectionExact

Effects ==
    /\ Configuring => Settings!OperationEffective
    /\ Registering => Registry!MeaningUnchanged

(* A behaviour is about one part.                                          *)
LEMMA PartStep ==
    ASSUME [Next]_vars
    PROVE  /\ part' = part
           /\ Configuring => Settings!Next \/ UNCHANGED <<stored, client, ops>>
           /\ Registering => Registry!Next \/ UNCHANGED ofRegistry
           /\ Paging => Pages!Next \/ UNCHANGED ofPages
           /\ Working => Work!Next \/ UNCHANGED ofWork
  BY DEF Next, vars, notCharts, ofSettings, ofRegistry, Configuring, Measuring, Counting, Paging,
     Listing, Registering, Working, Drawing

(* Every step keeps the invariant of the part it is about.                 *)
LEMMA DashboardStep ==
    ASSUME DashboardInv, [Next]_vars
    PROVE  DashboardInv' /\ (Next => Effects)
<1>1. part' = part
  BY PartStep
<1>2. Configuring => SettingsInv' /\ (Next => Settings!OperationEffective)
  <2> SUFFICES ASSUME Configuring PROVE SettingsInv' /\ (Next => Settings!OperationEffective)
    OBVIOUS
  <2>1. SettingsInv
    BY DEF DashboardInv
  <2>2. CASE Settings!Next
    BY <2>1, <2>2, SettingsNext
  <2>3. CASE UNCHANGED <<stored, client, ops>>
    BY <2>1, <2>3, SettingsStutter, QuietEffective
  <2> QED
    BY <2>2, <2>3, PartStep
<1>3. Registering => RegistryInv' /\ (Next => Registry!MeaningUnchanged)
  <2> SUFFICES ASSUME Registering PROVE RegistryInv' /\ (Next => Registry!MeaningUnchanged)
    OBVIOUS
  <2>1. RegistryInv
    BY DEF DashboardInv
  <2>2. CASE Registry!Next
    BY <2>1, <2>2, RegistryNext
  <2>3. CASE UNCHANGED ofRegistry
    BY <2>1, <2>3, RegistryStutter, NamesKept DEF ofRegistry
  <2> QED
    BY <2>2, <2>3, PartStep
<1>4. Paging => PagesInv'
  <2> SUFFICES ASSUME Paging PROVE PagesInv'
    OBVIOUS
  <2>1. PagesInv
    BY DEF DashboardInv
  <2> QED
    BY <2>1, PagesNext, PagesStutter, PartStep
<1>5. Working => WorkInv'
  <2> SUFFICES ASSUME Working PROVE WorkInv'
    OBVIOUS
  <2>1. WorkInv
    BY DEF DashboardInv
  <2> QED
    BY <2>1, WorkNext, WorkStutter, PartStep
<1> QED
  BY <1>1, <1>2, <1>3, <1>4, <1>5
     DEF DashboardInv, Configuring, Registering, Paging, Working, Effects

(* The invariant of the parts.                                             *)
LEMMA DashboardInvariant == Spec => []DashboardInv
<1>1. DashboardInv /\ [Next]_vars => DashboardInv'
  BY DashboardStep
<1> QED
  BY DashboardInit, <1>1, PTL DEF Spec

(* SettingsShown: whatever set_queue_state, set_queue_concurrency and      *)
(* set_queue_config leave in the hash, and whoever writes between the      *)
(* reads and the write of another, the dashboard shows the configuration   *)
(* the workers run with and calls exactly the differing ones overrides.    *)
THEOREM SettingsFaithful == Spec => []SettingsShown
<1>1. DashboardInv => SettingsShown
  <2> SUFFICES ASSUME DashboardInv, Configuring PROVE Settings!SettingsShown
    BY DEF SettingsShown
  <2>1. SettingsInv
    BY DEF DashboardInv
  <2>2. Settings!TypeOK
    BY <2>1 DEF SettingsInv, Settings!TypeOK, Hashes, ClientSound, ClientTyped
  <2> QED
    BY <2>1, <2>2, SettingsAgree DEF SettingsInv, Settings!SettingsShown
<1> QED
  BY <1>1, DashboardInvariant, PTL

(* RegistrySound: after any sequence of register_worker, register_queue,   *)
(* selections and launches, a queued name finds the job it was queued for, *)
(* a schedule has its queue, a process runs the cron loops of the queues   *)
(* it consumes, and what a stale catalog submits is still known.           *)
THEOREM RegistryKept == Spec => []RegistrySound
<1>1. DashboardInv => RegistrySound
  BY RegistryImplies DEF DashboardInv, RegistrySound
<1> QED
  BY <1>1, DashboardInvariant, PTL

(* PagesTrue: whatever jobs are claimed, finished, killed, revived,        *)
(* expired and deleted between the commands of find_job, of the job lists  *)
(* and of the walk over a queue, a job that stays is found, a page of a    *)
(* still list is exact and a walk misses no job that stayed; and whoever   *)
(* beats, crashes, leaves or works while stats_with_rates reads, it shows  *)
(* in work only what a listed process held, all of what a registered one   *)
(* held throughout, busy numbers that add up and the latest heartbeat.     *)
THEOREM AnswersTrue == Spec => []PagesTrue
<1>1. DashboardInv => PagesTrue
  BY PagesHold, WorkHold DEF DashboardInv, PagesTrue
<1> QED
  BY <1>1, DashboardInvariant, PTL

(* OperationsEffective: a change of the settings with no other writer      *)
(* between its read and its write has the effect asked for on the workers  *)
(* of its queue and none on the others; and no registration changes the    *)
(* job that another name already means.                                    *)
THEOREM EffectsAsAsked == Spec => OperationsEffective
<1>1. DashboardInv /\ [Next]_vars => [Effects]_vars
  BY DashboardStep
<1>2. DashboardInv /\ [Next]_vars =>
        [/\ Configuring => Settings!OperationEffective
         /\ Registering => Registry!MeaningUnchanged]_vars
  BY <1>1 DEF Effects
<1> QED
  BY <1>2, DashboardInvariant, PTL DEF Spec, OperationsEffective
=============================================================================
