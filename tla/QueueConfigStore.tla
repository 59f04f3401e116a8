-------------------------- MODULE QueueConfigStore --------------------------
(***************************************************************************)
(* The runtime configuration of queues, stored in one Redis hash: the      *)
(* operations of Storage and of the dashboard that change it, and the two  *)
(* readings of it, by the workers (coordinator.rs) and by the dashboard    *)
(* (handlers.rs).  Every operation reads and writes with separate commands.*)
(*                                                                         *)
(* A queue is its own base, or a dynamic queue discovered under a prefix   *)
(* and then has the prefix as its base.                                    *)
(***************************************************************************)
EXTENDS Naturals

CONSTANTS
    Queues,          \* queue keys
    BaseOf,          \* key_or_prefix of a queue
    DynamicLimit,    \* bases declared with dynamic_concurrency
    Default,         \* the declared concurrency of a base
    Limits,          \* the concurrencies clients ask for
    Clients,         \* API users and dashboard requests
    Unset,           \* an absent concurrency or configuration
    MaxOps           \* bound on the operations

States == {"active", "paused"}
Config == [concurrency : Limits \cup {Unset}, state : States]

(* What is assumed of the constants.                                       *)
QueueConfigAssumption ==
    /\ BaseOf \in [Queues -> Queues] /\ \A q \in Queues : BaseOf[BaseOf[q]] = BaseOf[q]
    /\ DynamicLimit \subseteq Queues
    /\ Limits \subseteq Nat \ {0} /\ Default \in [Queues -> Nat \ {0}]
    /\ Unset \notin Nat \cup Queues \cup Config /\ MaxOps \in Nat

VARIABLES
    stored,   \* the hash: queue -> configuration
    client,   \* the operation of a client and what it has read
    ops       \* operations begun

vars == <<stored, client, ops>>

Empty  == [concurrency |-> Unset, state |-> "active"]

Idle == [pc |-> "idle", op |-> "none", queue |-> Unset, arg |-> Unset, default |-> Unset,
         existing |-> Unset, disturbed |-> FALSE, before |-> "active"]

(* A hash left by an earlier deployment, in which a queue that is fixed    *)
(* now may have been dynamic.                                              *)
Init ==
    /\ stored \in [Queues -> Config \cup {Unset}]
    /\ client = [c \in Clients |-> Idle]
    /\ ops = 0

-----------------------------------------------------------------------------
(* Reading, as the workers do.                                             *)
IsDynamic(q) == BaseOf[q] \in DynamicLimit
DeclaredDefault(q) == Default[BaseOf[q]]

OrElse(x, y) == IF x = Unset THEN y ELSE x
WithDefaults(config, defaults) ==
    [config EXCEPT !.concurrency = OrElse(@, defaults.concurrency)]
OrDefault(config, defaults) ==
    IF config = Unset THEN defaults ELSE WithDefaults(config, defaults)

StoredRuntimeDefault(q) ==
    [concurrency |-> IF IsDynamic(q) THEN DeclaredDefault(q) ELSE Unset, state |-> "active"]

RuntimeQueueConfig(q) ==
    LET base == OrDefault(stored[BaseOf[q]], StoredRuntimeDefault(q))
    IN  IF q = BaseOf[q] THEN base ELSE OrDefault(stored[q], base)

EffectiveRuntimeConfig(q, config) ==
    [config EXCEPT !.concurrency = IF IsDynamic(q) THEN OrElse(@, DeclaredDefault(q))
                                   ELSE DeclaredDefault(q)]

Effective(q) == EffectiveRuntimeConfig(q, RuntimeQueueConfig(q))

(* Reading, as the dashboard does: the queues of its catalog, and those    *)
(* the statistics show.                                                    *)
Catalog == [b \in {BaseOf[q] : q \in Queues} |->
               [concurrency |-> Default[b], dynamic |-> b \in DynamicLimit]]

QueueUsesDynamicConcurrency(q) == Catalog[BaseOf[q]].dynamic

(* The keys read for the list of queues and for the page of one queue.     *)
QueueConfigKeys(shown) == DOMAIN Catalog \cup shown
QueueRuntimeConfigKeys(q) == {BaseOf[q], q}

(* queue_configs: what HMGET finds.                                        *)
QueueConfigs(keys) == [q \in Queues |-> IF q \in keys THEN stored[q] ELSE Unset]

DefaultQueueRuntimeConfig(q) == [concurrency |-> Catalog[BaseOf[q]].concurrency, state |-> "active"]

(* Mutant of MergeQueueRuntimeConfig: the override of a fixed queue shows. *)
MergeKeepsOverride(q, config, defaults) == WithDefaults(config, defaults)

MergeQueueRuntimeConfig(q, config, defaults) ==
    WithDefaults(IF QueueUsesDynamicConcurrency(q) THEN config ELSE [config EXCEPT !.concurrency = Unset],
                 defaults)

QueueRuntimeConfigFromMap(map, q) ==
    LET default == DefaultQueueRuntimeConfig(BaseOf[q])
        base == IF map[BaseOf[q]] = Unset THEN default
                ELSE MergeQueueRuntimeConfig(BaseOf[q], map[BaseOf[q]], default)
    IN  IF q = BaseOf[q] \/ map[q] = Unset THEN base
        ELSE MergeQueueRuntimeConfig(q, map[q], base)

(* queue_concurrency_status_from_map: the default shown beside the field,  *)
(* and whether the queue differs from it.                                  *)
InheritedDefault(map, q) ==
    IF q = BaseOf[q] THEN DefaultQueueRuntimeConfig(q).concurrency
    ELSE QueueRuntimeConfigFromMap(map, BaseOf[q]).concurrency

Direct(map, q) == IF map[q] = Unset THEN Unset ELSE map[q].concurrency

QueueConcurrencyStatus(map, q) ==
    CASE ~QueueUsesDynamicConcurrency(q) -> "fixed"
      [] QueueUsesDynamicConcurrency(q) /\ Direct(map, q) \notin {Unset, InheritedDefault(map, q)}
            -> "override"
      [] OTHER -> "default"

(* queue_runtime_config_view_from_map.                                     *)
View(map, q) == [config |-> QueueRuntimeConfigFromMap(map, q), status |-> QueueConcurrencyStatus(map, q)]

QueueConfigMap(shown) ==
    [q \in QueueConfigKeys(shown) |-> View(QueueConfigs(QueueConfigKeys(shown)), q)]
QueueRuntimeConfigFor(q) == View(QueueConfigs(QueueRuntimeConfigKeys(q)), q)

-----------------------------------------------------------------------------
(* HSET and HDEL of a client; the other clients' reads become stale.       *)
Write(c, q, value) ==
    /\ stored' = [stored EXCEPT ![q] = value]
    /\ client' = [d \in Clients |->
          IF d = c THEN Idle
          ELSE [client[d] EXCEPT !.disturbed = @ \/ client[d].pc # "idle"]]

Begin(c, op, q, arg) ==
    /\ client[c].pc = "idle" /\ ops < MaxOps /\ ops' = ops + 1
    /\ client' = [client EXCEPT ![c] = [Idle EXCEPT !.pc = "read", !.op = op, !.queue = q, !.arg = arg,
                                                    !.before = Effective(q).state]]
    /\ UNCHANGED stored

(* set_queue_config: a concurrency for a fixed queue is refused.           *)
SetQueueConfig(c, q, config) ==
    /\ client[c].pc = "idle" /\ ops < MaxOps /\ ops' = ops + 1
    /\ config.concurrency # Unset => IsDynamic(q)
    /\ Write(c, q, config)

ResetQueueConfig(c, q) ==
    /\ client[c].pc = "idle" /\ ops < MaxOps /\ ops' = ops + 1
    /\ Write(c, q, Unset)

(* pause_queue and unpause_queue.                                          *)
SetQueueState(c, q, state) == Begin(c, "state", q, state)

(* set_queue_concurrency: refused for a fixed queue, and the dashboard     *)
(* refuses zero.                                                           *)
SetQueueConcurrency(c, q, limit) == IsDynamic(q) /\ Begin(c, "concurrency", q, limit)

(* Mutant of ResetDefault: the override of the base is forgotten.          *)
ResetDefaultDeclared(q) == DeclaredDefault(q)

(* runtime_concurrency_reset_default.                                      *)
ResetDefault(q) ==
    IF q = BaseOf[q] THEN DeclaredDefault(q)
    ELSE OrElse(OrDefault(stored[BaseOf[q]], StoredRuntimeDefault(q)).concurrency, DeclaredDefault(q))

(* set_queue_concurrency first reads the default ...                       *)
ReadDefault(c) ==
    /\ client[c].pc = "read" /\ client[c].op = "concurrency" /\ client[c].default = Unset
    /\ client' = [client EXCEPT ![c].default = ResetDefault(client[c].queue)]
    /\ UNCHANGED <<stored, ops>>

(* ... and then, like set_queue_state, the configuration of the queue.     *)
ReadExisting(c) ==
    /\ client[c].pc = "read"
    /\ client[c].op = "concurrency" => client[c].default # Unset
    /\ LET k == client[c]
       IN  client' = [client EXCEPT ![c] =
              IF k.op = "concurrency" /\ k.arg = k.default /\ stored[k.queue] = Unset THEN Idle
              ELSE [k EXCEPT !.pc = "write", !.existing = OrElse(stored[k.queue], Empty)]]
    /\ UNCHANGED <<stored, ops>>

(* What is written back.                                                   *)
Changed(k) ==
    IF k.op = "state"
    THEN [state |-> k.arg, concurrency |-> IF IsDynamic(k.queue) THEN k.existing.concurrency ELSE Unset]
    ELSE [k.existing EXCEPT !.concurrency = IF k.arg = k.default THEN Unset ELSE k.arg]

WriteBack(c) ==
    /\ client[c].pc = "write"
    /\ Write(c, client[c].queue, Changed(client[c]))
    /\ UNCHANGED ops

(* A command fails: the operation returns the error.                       *)
Abandon(c) ==
    /\ client[c].pc # "idle"
    /\ client' = [client EXCEPT ![c] = Idle]
    /\ UNCHANGED <<stored, ops>>

Next ==
    \E c \in Clients :
        \/ ReadDefault(c) \/ ReadExisting(c) \/ WriteBack(c) \/ Abandon(c)
        \/ \E q \in Queues :
              \/ ResetQueueConfig(c, q)
              \/ \E config \in Config : SetQueueConfig(c, q, config)
              \/ \E s \in States : SetQueueState(c, q, s)
              \/ \E l \in Limits : SetQueueConcurrency(c, q, l)

Spec == Init /\ [][Next]_vars

-----------------------------------------------------------------------------
(* Type correctness of the hash and of the clients.                        *)
TypeOK ==
    /\ stored \in [Queues -> Config \cup {Unset}]
    /\ \A c \in Clients : client[c].pc \in {"idle", "read", "write"}
    /\ ops \in 0 .. MaxOps

(* The dashboard shows the configuration the workers run with, whatever    *)
(* the hash holds, on the page of a queue and on the list of the queues it *)
(* happens to know: two readings written twice, by different code.         *)
DashboardAgrees ==
    \A q \in Queues :
        /\ QueueRuntimeConfigFor(q).config = Effective(q)
        /\ QueueConfigMap({q})[q] = QueueRuntimeConfigFor(q)

(* The dashboard says "override" of a queue exactly when its workers run   *)
(* with another limit than the one it would inherit.                       *)
StatusAgrees ==
    \A q \in Queues : IsDynamic(q) =>
        (QueueRuntimeConfigFor(q).status = "override"
            <=> Effective(q).concurrency # InheritedDefault(stored, q))

(* No operation stores a concurrency for a queue that has a fixed one;     *)
(* the first operation on an override left behind removes it.              *)
FixedKept ==
    \A q \in Queues : stored'[q] # stored[q] /\ ~IsDynamic(q) /\ stored'[q] # Unset
        => stored'[q].concurrency = Unset

(* An operation nobody interferes with has its effect: the workers of the  *)
(* queue then run with the concurrency or the state asked for, even if the *)
(* concurrency was dropped because it is the inherited one.                *)
Effected ==
    \A c \in Clients, q \in Queues :
        (client[c].queue = q /\ stored' # stored /\ client'[c].pc = "idle" /\ ~client[c].disturbed)
        => \/ client[c].op = "concurrency" /\ Effective(q)'.concurrency = client[c].arg
           \/ client[c].op = "state" /\ Effective(q)'.state = client[c].arg

(* Setting the concurrency leaves the state of a queue alone, unless the   *)
(* queue has no configuration of its own and its base is paused: the new   *)
(* entry then makes the queue active.                                      *)
StateKept ==
    \A c \in Clients, q \in Queues :
        (client[c].queue = q /\ client[c].op = "concurrency" /\ client'[c].pc = "idle"
           /\ ~client[c].disturbed)
        => \/ Effective(q)'.state = client[c].before
           \/ q # BaseOf[q] /\ stored[q] = Unset /\ Effective(q).state = "paused"

(* The dashboard shows what the workers run with.                          *)
SettingsShown == TypeOK /\ DashboardAgrees /\ StatusAgrees

(* An operation has its effect, and no other.                              *)
OperationEffective == FixedKept /\ Effected /\ StateKept
=============================================================================
