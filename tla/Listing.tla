------------------------------ MODULE Listing -------------------------------
(***************************************************************************)
(* How the dashboard orders what it shows: the comparators of the queue    *)
(* and worker tables, and the rows of the type tree of cron and on-demand  *)
(* jobs.  The inputs are chosen at first; one step renders them.  A name   *)
(* is the sequence of its segments, and a segment is a number.             *)
(***************************************************************************)
EXTENDS Integers, Sequences, SequencesExt, FiniteSets, Functions

CONSTANTS
    Values,      \* values of a column
    Segments,    \* segments of a type name
    MaxSegments, \* bound on the segments of a name
    MaxEntries,  \* bound on the entries of a table and of a tree
    None

VARIABLES
    table,     \* queues: key, value of the sorted column or None
    column,    \* "eta" or another
    desc,      \* the direction
    names,     \* the names of the jobs, in the order of the catalog
    shown,     \* the sorted table, None before
    rows       \* the rows of the tree, None before

vars == <<table, column, desc, names, shown, rows>>

TypeNames == UNION {[1 .. n -> Segments] : n \in 1 .. MaxSegments}

(* The order of names, and of the segments of a BTreeMap.                  *)
NameBefore(a, b) ==
    \E n \in 0 .. Len(a) :
        /\ \A i \in 1 .. n : i <= Len(b) /\ a[i] = b[i]
        /\ (n = Len(a) /\ n < Len(b)) \/ (n < Len(a) /\ n < Len(b) /\ a[n + 1] < b[n + 1])

Init ==
    /\ table \in UNION {[1 .. n -> Values \union {None}] : n \in 0 .. MaxEntries}
    /\ column \in {"eta", "other"} /\ desc \in BOOLEAN
    /\ column = "other" => \A k \in DOMAIN table : table[k] # None
    /\ \/ names = <<>>                     \* one question at a time
       \/ /\ table = <<>> /\ column = "other" /\ ~desc
          /\ \E pick \in [1 .. MaxEntries -> TypeNames] :
                names = SetToSortSeq(Range(pick), NameBefore)
    /\ shown = None /\ rows = None

-----------------------------------------------------------------------------
Reversed(c) == 0 - c
Compared(a, b) == IF a < b THEN -1 ELSE IF a > b THEN 1 ELSE 0

(* An unknown estimate is later than every other, also when reversed.      *)
CompareEta(a, b, d) ==
    LET c == IF a = None /\ b = None THEN 0
             ELSE IF b = None THEN -1
             ELSE IF a = None THEN 1 ELSE Compared(a, b)
    IN  IF d THEN Reversed(c) ELSE c

(* The comparator of sort_queues and of sorted_worker_metrics: the column, *)
(* then the key, which is never reversed.  A queue is its key k, and the   *)
(* value of its column is table[k].                                        *)
QueueOrder(k, l) ==
    LET c == IF column = "eta" THEN CompareEta(table[k], table[l], desc)
             ELSE IF desc THEN Reversed(Compared(table[k], table[l]))
             ELSE Compared(table[k], table[l])
    IN  IF c # 0 THEN c ELSE Compared(k, l)

SortQueues == SetToSortSeq(DOMAIN table, LAMBDA k, l : QueueOrder(k, l) < 0)

-----------------------------------------------------------------------------
(* type_tree_parts: the last two segments are the name of the leaf.        *)
GroupOf(name) == SubSeq(name, 1, IF Len(name) < 2 THEN 0 ELSE Len(name) - 2)

Extends(path, group) == Len(group) > Len(path) /\ IsPrefix(path, group)

(* The children of the node at a path, and the entries stored there.       *)
Children(path) ==
    {GroupOf(names[i])[Len(path) + 1] :
        i \in {i \in DOMAIN names : Extends(path, GroupOf(names[i]))}}
Entries(path) == SelectSeq(names, LAMBDA n : GroupOf(n) = path)

(* Paths of the tree: the groups that a name may have.                     *)
Paths == UNION {[1 .. n -> Segments] : n \in 0 .. MaxSegments}

(* flatten: a group row per child, followed by the rows of the child, and  *)
(* the entries of the node after its children.                             *)
Flatten[path \in Paths] ==
    FlattenSeq([i \in 1 .. Cardinality(Children(path)) |->
        LET child == SetToSortSeq(Children(path), <)[i] IN
        <<[group |-> TRUE, name |-> <<child>>, depth |-> Len(path)]>>
            \o Flatten[Append(path, child)]])
    \o [i \in DOMAIN Entries(path) |->
           [group |-> FALSE, name |-> Entries(path)[i], depth |-> Len(path)]]

Render ==
    /\ shown = None /\ shown' = SortQueues /\ rows' = Flatten[<<>>]
    /\ UNCHANGED <<table, column, desc, names>>

Next == Render

Spec == Init /\ [][Next]_vars

-----------------------------------------------------------------------------
(* The comparators are total orders of the queues: sort_by, which may      *)
(* panic on anything else, gets one whatever columns are unknown.          *)
OrderTotal ==
    \A k, l, m \in DOMAIN table :
        /\ QueueOrder(k, l) = Reversed(QueueOrder(l, k))
        /\ QueueOrder(k, l) = 0 => k = l
        /\ QueueOrder(k, l) < 0 /\ QueueOrder(l, m) < 0 => QueueOrder(k, m) < 0

LastGroup(i, depth) ==
    LET S == {j \in 1 .. i : rows[j].group /\ rows[j].depth = depth}
    IN  rows[CHOOSE j \in S : \A k \in S : k <= j].name[1]

(* Every job has one row, and the group rows above it spell the path of    *)
(* its type name but for the last two segments: no job shows under a       *)
(* neighbour's group, although the tree is flattened.                      *)
RowsUnderTheirGroups ==
    rows # None =>
        /\ \A n \in ToSet(names) :
              Cardinality({i \in DOMAIN rows : ~rows[i].group /\ rows[i].name = n}) = 1
        /\ \A i \in DOMAIN rows : ~rows[i].group =>
              LET n == rows[i].name IN
              /\ rows[i].depth = (IF Len(n) > 2 THEN Len(n) - 2 ELSE 0)
              /\ \A d \in 1 .. rows[i].depth : LastGroup(i, d - 1) = n[d]

(* Tables have an order, and every job of a tree its place.                *)
TablesFaithful == OrderTotal /\ RowsUnderTheirGroups
=============================================================================
