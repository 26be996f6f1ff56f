---------------------------- MODULE AcceptedLog ----------------------------
(***************************************************************************)
(* What a durable store promises its single writer: a log of accepted      *)
(* entries that survives crashes.  An accepted entry is never lost or      *)
(* altered; a restart may also bring back an entry whose acceptance was    *)
(* never reported, because the crash came after the entry reached the disk *)
(* and before the writer was told.                                         *)
(*                                                                         *)
(* DurableState and AuthorizationDaemon are checked to implement this.     *)
(***************************************************************************)
EXTENDS Naturals, SequencesExt

CONSTANTS
    Values,     \* the entries that can be accepted
    Down        \* the view of a writer that is not running

VARIABLES
    accepted,   \* the longest log the writer was told is accepted
    view        \* the log the running writer holds in memory, or Down

vars == <<accepted, view>>

Init == accepted = <<>> /\ view = <<>>

(* The writer is told that one more entry is accepted on top of its log.   *)
Accept ==
    /\ view # Down
    /\ view' \in Seq(Values)
    /\ Len(view') = Len(view) + 1
    /\ IsPrefix(view, view')
    /\ accepted' = view'

Crash ==
    /\ view # Down
    /\ view' = Down
    /\ UNCHANGED accepted

(* A restart that succeeds holds every accepted entry, in its place.       *)
Restart ==
    /\ view = Down
    /\ view' \in Seq(Values)
    /\ IsPrefix(accepted, view')
    /\ UNCHANGED accepted

Next ==
    \/ Accept
    \/ Crash
    \/ Restart

Spec == Init /\ [][Next]_vars
=============================================================================
