--------------------------- MODULE MetricFollower ---------------------------
(***************************************************************************)
(* tools/monitoring/tail.py: a cursor over a file that somebody else       *)
(* appends to, truncates, removes and replaces.                            *)
(*                                                                         *)
(* One poll is two steps, because the file may change between fstat and    *)
(* read: Open, which also compares what fstat said with the cursor, and    *)
(* Read, which splits what was read into lines.                            *)
(*                                                                         *)
(* A generation is what a file holds from its creation or truncation to    *)
(* the next one.  A byte is a newline or any other; where it comes from is *)
(* kept with it, so that lines can be told apart.  A line that does not    *)
(* decode is rejected where a line too long is, and is left out.  lines,   *)
(* errors, seen and skip are histories.                                    *)
(***************************************************************************)
EXTENDS Naturals, SequencesExt

CONSTANTS
    ReadLimit,      \* max_read_bytes
    LineLimit,      \* max_line_bytes
    Inodes,         \* identities the file system gives out, and reuses
    None,
    MaxBytes,       \* bound: bytes of a generation
    MaxGenerations, \* bound
    MaxFaults       \* bound: opens and reads that fail

VARIABLES
    files,      \* every generation so far: its inode and its bytes
    path,       \* the generation the path names, 0 when there is none
    first, identity, offset, pending, discard,      \* the cursor
    opened,     \* inode of the open file, or None between two polls
    seen,       \* the generation the cursor is about
    skip,       \* where in it reading began
    lines,      \* all lines returned, with their newlines
    errors,     \* rejected lines since the cursor was last reset
    faults

cursor == <<first, identity, offset, pending, discard>>
history == <<seen, skip, lines, errors>>
vars == <<files, path, cursor, opened, history, faults>>

Kinds == {"text", "newline"}

ASSUME FollowerAssumption ==
    /\ ReadLimit \in Nat \ {0} /\ LineLimit \in Nat \ {0}
    /\ MaxBytes \in Nat \ 0..1 /\ MaxGenerations \in Nat \ {0} /\ MaxFaults \in Nat
    /\ None \notin Inodes

Newest(inode) ==
    CHOOSE g \in DOMAIN files :
        /\ files[g].inode = inode
        /\ \A h \in DOMAIN files : files[h].inode = inode => h <= g

Size(g) == Len(files[g].bytes)

-----------------------------------------------------------------------------
(* The writer.                                                             *)

Grow(kind) ==
    LET byte == [gen |-> path, pos |-> Size(path) + 1, kind |-> kind]
    IN  files' = [files EXCEPT ![path].bytes = Append(@, byte)]

(* The documented limit of the follower: a file that was truncated, or     *)
(* replaced under the same identity, and is as long again as the cursor    *)
(* before the next fstat, cannot be told from one that only grew.          *)
WouldHide ==
    /\ identity = files[path].inode
    /\ seen # path
    /\ offset > 0
    /\ Size(path) + 1 >= offset

AppendByte ==
    /\ path # 0
    /\ Size(path) < MaxBytes
    /\ ~WouldHide
    /\ \E kind \in Kinds : Grow(kind)
    /\ UNCHANGED <<path, cursor, opened, history, faults>>

NewGeneration(inode) ==
    /\ Len(files) < MaxGenerations
    /\ files' = Append(files, [inode |-> inode, bytes |-> <<>>])
    /\ path' = Len(files) + 1
    /\ UNCHANGED <<cursor, opened, history, faults>>

Truncate == path # 0 /\ NewGeneration(files[path].inode)

(* A file made anew, or moved over the old one.  An inode is not reused    *)
(* while the path or the follower still holds it.                          *)
Replace ==
    \E inode \in Inodes \ {opened} :
        /\ path # 0 => files[path].inode # inode
        /\ NewGeneration(inode)

Unlink ==
    /\ path # 0
    /\ path' = 0
    /\ UNCHANGED <<files, cursor, opened, history, faults>>

-----------------------------------------------------------------------------
(* poll, up to fstat and the comparison with the cursor.                   *)

(* Faulty: another field of fstat is taken for the identity.               *)
IdentifiedBySize(g) ==
    /\ identity' = Size(g)
    /\ seen' = g
    /\ errors' = 0
    /\ UNCHANGED <<lines, faults, files, path>>

Identified(g) ==
    /\ identity' = files[g].inode
    /\ seen' = g
    /\ errors' = 0
    /\ UNCHANGED <<lines, faults, files, path>>

(* The first file opened: what it holds already is history.                *)
OpenFirst ==
    /\ first
    /\ Identified(path)
    /\ offset' = Size(path) /\ skip' = Size(path)
    /\ IF Size(path) = 0 THEN first' = FALSE /\ UNCHANGED opened
       ELSE opened' = files[path].inode /\ UNCHANGED first
    /\ UNCHANGED <<pending, discard>>

(* Faulty: a shorter file is not taken for a new one.                      *)
ReplacedByIdentity == files[path].inode # identity

Replaced == files[path].inode # identity \/ Size(path) < offset

(* Faulty: the partial line of the old file is kept.                       *)
OpenReplacedKeepingPending ==
    /\ ~first
    /\ Replaced
    /\ Identified(path)
    /\ offset' = 0 /\ skip' = 0
    /\ UNCHANGED <<pending, discard>>
    /\ opened' = files[path].inode
    /\ UNCHANGED first

OpenReplaced ==
    /\ ~first
    /\ Replaced
    /\ Identified(path)
    /\ offset' = 0 /\ skip' = 0
    /\ pending' = <<>> /\ discard' = FALSE
    /\ opened' = files[path].inode
    /\ UNCHANGED first

OpenSame ==
    /\ ~first
    /\ ~Replaced
    /\ opened' = files[path].inode
    /\ seen' = IF offset = 0 THEN path ELSE seen
    /\ UNCHANGED <<cursor, skip, lines, errors, files, path, faults>>

Open ==
    /\ opened = None
    /\ path # 0
    /\ OpenFirst \/ OpenReplaced \/ OpenSame

(* FileNotFoundError: a file that appears later has no history.            *)
Missing ==
    /\ opened = None
    /\ path = 0
    /\ first' = FALSE
    /\ UNCHANGED <<files, path, identity, offset, pending, discard, opened, history, faults>>

(* Any other OSError, of the open or of the read.                          *)
Unreadable ==
    /\ path # 0 \/ opened # None
    /\ faults < MaxFaults
    /\ faults' = faults + 1
    /\ opened' = None
    /\ UNCHANGED <<files, path, cursor, history>>

-----------------------------------------------------------------------------
(* poll, from the read on.                                                 *)

(* The first poll reads the last byte only: a line that has begun already  *)
(* is discarded.  The byte may be gone by now.                             *)
ReadLastByte ==
    /\ opened # None
    /\ first
    /\ LET g == Newest(opened)
       IN  discard' = ~(offset <= Size(g) /\ files[g].bytes[offset].kind = "newline")
    /\ first' = FALSE
    /\ opened' = None
    /\ UNCHANGED <<files, path, identity, offset, pending, history, faults>>

Fits(line) == Len(line) <= LineLimit

(* One more byte of the chunk.                                             *)
Split(s, byte) ==
    IF byte.kind # "newline" THEN [s EXCEPT !.pending = Append(@, byte)]
    ELSE IF s.discard THEN [s EXCEPT !.pending = <<>>, !.discard = FALSE]
    ELSE IF Fits(s.pending)
    THEN [s EXCEPT !.pending = <<>>, !.lines = Append(@, Append(s.pending, byte))]
    ELSE [s EXCEPT !.pending = <<>>, !.errors = @ + 1]

Pieces(s, chunk) == FoldLeft(Split, s, chunk)

(* Faulty: the part of a line too long is kept until the newline.          *)
LimitAtNewline(s) == IF s.discard THEN [s EXCEPT !.pending = <<>>] ELSE s

(* The partial line that is left after the last newline.                   *)
Limit(s) ==
    IF s.discard THEN [s EXCEPT !.pending = <<>>]
    ELSE IF Len(s.pending) > LineLimit
    THEN [s EXCEPT !.pending = <<>>, !.errors = @ + 1, !.discard = TRUE]
    ELSE s

(* source.tell(), after reading at most ReadLimit bytes.                   *)
After(g) ==
    IF Size(g) <= offset THEN offset
    ELSE IF Size(g) <= offset + ReadLimit THEN Size(g) ELSE offset + ReadLimit

Read ==
    /\ opened # None
    /\ ~first
    /\ LET g == Newest(opened)
           chunk == SubSeq(files[g].bytes, offset + 1, After(g))
           s == Limit(Pieces([pending |-> pending, discard |-> discard,
                              lines |-> lines, errors |-> errors], chunk))
       IN  /\ offset' = After(g)
           /\ pending' = s.pending /\ discard' = s.discard
           /\ lines' = s.lines /\ errors' = s.errors
           /\ seen' = IF offset = 0 THEN g ELSE seen
    /\ opened' = None
    /\ UNCHANGED <<files, path, first, identity, skip, faults>>

-----------------------------------------------------------------------------
(* The file may be absent, empty, or end in a whole line or a partial one. *)
Histories == {<<>>, <<"text">>, <<"text", "newline">>, <<"newline", "text">>}

Init ==
    /\ \E inode \in Inodes, kinds \in Histories, there \in {0, 1} :
          /\ path = there
          /\ files = IF there = 0 THEN <<>>
                     ELSE <<[inode |-> inode,
                             bytes |-> [i \in DOMAIN kinds |->
                                           [gen |-> 1, pos |-> i, kind |-> kinds[i]]]]>>
    /\ first = TRUE /\ identity = None /\ offset = 0
    /\ pending = <<>> /\ discard = FALSE
    /\ opened = None
    /\ seen = 0 /\ skip = 0 /\ lines = <<>> /\ errors = 0
    /\ faults = 0

Poll == Open \/ Missing \/ ReadLastByte \/ Read

Next == AppendByte \/ Truncate \/ Replace \/ Unlink \/ Poll \/ Unreadable

Spec == Init /\ [][Next]_vars

(* run_watch polls again and again.                                        *)
FairSpec == Spec /\ WF_vars(Poll)

-----------------------------------------------------------------------------
Bytes == [gen : 1..MaxGenerations, pos : 1..MaxBytes, kind : Kinds]

TypeOK ==
    /\ files \in Seq([inode : Inodes, bytes : Seq(Bytes)])
    /\ path \in 0..Len(files) /\ seen \in 0..Len(files)
    /\ first \in BOOLEAN /\ discard \in BOOLEAN
    /\ identity \in Inodes \union {None} /\ opened \in Inodes \union {None}
    /\ offset \in 0..MaxBytes /\ skip \in 0..MaxBytes
    /\ pending \in Seq(Bytes) /\ lines \in Seq(Seq(Bytes))
    /\ errors \in 0..MaxBytes
    /\ faults \in 0..MaxFaults

(* The newlines of generation g that the cursor has passed, and the line   *)
(* each of them ends.  A line that had begun when reading began is none.   *)
Newlines(g) ==
    {i \in (skip + 1)..offset : files[g].bytes[i].kind = "newline"}

BeginsAt(g, i) ==
    LET before == {j \in 1..(i - 1) : files[g].bytes[j].kind = "newline"}
    IN  IF before = {} THEN 1 ELSE (CHOOSE j \in before : \A k \in before : k <= j) + 1

LineAt(g, i) == SubSeq(files[g].bytes, BeginsAt(g, i), i)

Ends(g, fit) ==
    {i \in Newlines(g) : BeginsAt(g, i) > skip /\ Fits(Front(LineAt(g, i))) = fit}

(* The line the cursor is in is too long already.                          *)
TooLong(g) ==
    LET begin == BeginsAt(g, offset + 1)
    IN  begin > skip /\ (offset + 1) - begin > LineLimit

Following == ~first /\ seen # 0

(* Of the file that is followed, every line that was complete when the     *)
(* cursor passed it and that fits has been returned, whole, once and in    *)
(* order, and nothing else has: whatever the sizes of the reads, and also  *)
(* after rotations, truncations and failed polls.                          *)
LinesReturned ==
    Following =>
        LET returned == {n \in DOMAIN lines : Last(lines[n]).gen = seen}
        IN  /\ {Last(lines[n]).pos : n \in returned} = Ends(seen, TRUE)
            /\ \A n \in returned : lines[n] = LineAt(seen, Last(lines[n]).pos)
            /\ \A m, n \in returned : m < n => Last(lines[m]).pos < Last(lines[n]).pos

(* A line too long is counted once, as soon as it is known to be one, and a *)
(* partial line never holds more than the limit.                           *)
RejectedOnce ==
    Following =>
        /\ errors = Cardinality(Ends(seen, FALSE))
                      + (IF TooLong(seen) THEN 1 ELSE 0)
        /\ Len(pending) <= LineLimit

(* Every complete line is either returned or counted as rejected, and      *)
(* neither twice: the two parts above (tail.py 74-92).                     *)
EachLineOnce == LinesReturned /\ RejectedOnce

(* When the writer rests, the cursor comes to the end of its file.         *)
CatchesUp ==
    <>[](path = 0 \/ (~first /\ identity = files[path].inode /\ offset = Size(path)))
=============================================================================
