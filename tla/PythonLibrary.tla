--------------------------- MODULE PythonLibrary ----------------------------
(***************************************************************************)
(* What the monitoring tools take from Python's library: time.monotonic,   *)
(* and collections.OrderedDict, which they use as a bounded cache.  An     *)
(* ordered dictionary is a sequence of entries, each a record with a field *)
(* `key', the entry that goes first in front.                              *)
(***************************************************************************)
EXTENDS Integers, Sequences, SequencesExt

CONSTANTS
    MaxTime,    \* bound: last tick
    None        \* Python's None

ASSUME TimeAssumption == MaxTime \in Nat

VARIABLE clock  \* time.monotonic()

Tick == clock < MaxTime /\ clock' = clock + 1

HasKey(d, key) == \E i \in DOMAIN d : d[i].key = key
Place(d, key) == CHOOSE i \in DOMAIN d : d[i].key = key
Lookup(d, key) == d[Place(d, key)]

(* d[key] = entry: an old key stays where it is, a new one goes to the end. *)
Assign(d, entry) ==
    IF HasKey(d, entry.key) THEN ReplaceAt(d, Place(d, entry.key), entry)
    ELSE Append(d, entry)

(* move_to_end(key).                                                       *)
MoveToEnd(d, key) ==
    Append(RemoveAt(d, Place(d, key)), Lookup(d, key))

(* What a loop leaves of a dictionary or a list that deletes every entry   *)
(* but those at the positions in S.                                        *)
Kept(d, S) ==
    LET kept[n \in 0..Len(d)] ==
            IF n = 0 THEN <<>>
            ELSE IF n \in S THEN Append(kept[n - 1], d[n]) ELSE kept[n - 1]
    IN  kept[Len(d)]

(* popitem(last=False).                                                    *)
PopFirst(d) == Tail(d)
=============================================================================
