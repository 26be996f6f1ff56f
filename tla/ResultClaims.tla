---------------------------- MODULE ResultClaims ----------------------------
(***************************************************************************)
(* security/signed-result-verifier.js: verifySignedResult on a shared      *)
(* result journal.  A result is accepted once: the worker that creates the *)
(* claim file of its id exclusively writes the id into it, journals the id *)
(* and accepts.  Workers are processes: another one may run between any    *)
(* two file operations, any may die there, and a power failure undoes what *)
(* was not fsynced.                                                        *)
(*                                                                         *)
(* Abstraction.  A result is its id and whether it is still young enough;  *)
(* field, signature and lifecycle checks change nothing, so an attempt     *)
(* they refuse is one that ends (Stop).  A journal line is one system call *)
(* to a file opened for appending, which writes it whole unless the write  *)
(* is short.  A claim cut short by a short write counts as written: its    *)
(* own result finds it by the name of the file.                            *)
(***************************************************************************)
EXTENDS Naturals, FiniteSets

CONSTANTS
    Workers,      \* processes
    Results,      \* result ids
    NoResult,     \* no attempt in progress
    MaxCrashes,   \* bound: deaths of a worker, power failures, short writes
    NamesDurable  \* the file system: fsync of a new file or directory also
                  \* makes its name in the parent directory durable

ASSUME ConstantsAssumption == NoResult \notin Results /\ MaxCrashes \in Nat
ASSUME FileSystemAssumption == NamesDurable \in BOOLEAN

VARIABLES
    claim,       \* per id the claim file: "absent", "empty" or "written"
    pinned,      \* the claim files whose name and content are on disk
    journal,     \* the result journal: the ids of its lines and its tail
    durable,     \* the result journal as it was last fsynced
    linked,      \* the names that are on disk: of the claims directory and
                 \* of the journal file
    stale,       \* the results older than maxAgeMs
    step,        \* per worker: the next thing it does
    target,      \* per worker: the id it verifies
    unread,      \* per worker: listed claim files not read yet
    accepted,    \* history: how often an id was accepted
    lost,        \* history: the names a power failure has lost
    crashes      \* history: crashes so far

claims == <<claim, pinned>>
log == <<journal, durable>>
attempt == <<step, target, unread>>
history == <<accepted, lost>>
vars == <<claims, log, linked, stale, attempt, history, crashes>>

Steps == {"idle", "list", "read", "create", "write", "sync", "append", "flush", "accept"}
Names == {"claims", "journal"}

(* The end of the journal: a complete line; a line complete but for its    *)
(* newline, which is read as a line and which the next write spoils; or    *)
(* text that does not parse, here or on an earlier line.                   *)
Tails == {"whole", "open", "torn"}
Journals == [ids : SUBSET Results, tail : Tails]
NoJournal == [ids |-> {}, tail |-> "whole"]

Init ==
    /\ claim = [r \in Results |-> "absent"]
    /\ pinned = {}
    /\ journal = NoJournal /\ durable = NoJournal
    /\ linked = {} /\ stale = {} /\ lost = {}
    /\ step = [w \in Workers |-> "idle"]
    /\ target = [w \in Workers |-> NoResult]
    /\ unread = [w \in Workers |-> {}]
    /\ accepted = [r \in Results |-> 0]
    /\ crashes = 0

Goto(w, next) == step' = [step EXCEPT ![w] = next]

(* Faulty: the locals of the attempt survive it.                           *)
IdleWithLocals(w) ==
    /\ step' = [step EXCEPT ![w] = "idle"]
    /\ UNCHANGED <<target, unread>>

Idle(w) ==
    /\ step' = [step EXCEPT ![w] = "idle"]
    /\ target' = [target EXCEPT ![w] = NoResult]
    /\ unread' = [unread EXCEPT ![w] = {}]

(* The result is young enough, and loadSeenResultIds reads the journal     *)
(* first: one line that does not parse refuses every result.               *)
Begin(w, r) ==
    /\ step[w] = "idle"
    /\ r \notin stale
    /\ journal.tail # "torn"
    /\ r \notin journal.ids
    /\ Goto(w, "list")
    /\ target' = [target EXCEPT ![w] = r]
    /\ UNCHANGED <<claims, log, linked, stale, unread, history, crashes>>

(* Faulty: the id is reserved before the other checks, which may refuse.   *)
ListClaimsReserving(w) ==
    /\ step[w] = "list"
    /\ claim[target[w]] = "absent"
    /\ claim' = [claim EXCEPT ![target[w]] = "empty"]
    /\ Goto(w, "read")
    /\ unread' = [unread EXCEPT ![w] = {r \in Results : claim[r] # "absent"}]
    /\ UNCHANGED <<pinned, log, linked, stale, target, history, crashes>>

(* readdir: a claim of this very id is a duplicate, read or not.           *)
ListClaims(w) ==
    /\ step[w] = "list"
    /\ claim[target[w]] = "absent"
    /\ Goto(w, "read")
    /\ unread' = [unread EXCEPT ![w] = {r \in Results : claim[r] # "absent"}]
    /\ UNCHANGED <<claims, log, linked, stale, target, history, crashes>>

(* An empty claim of another id is RESULT_CLAIM_INVALID.                   *)
ReadClaim(w, r) ==
    /\ step[w] = "read"
    /\ r \in unread[w]
    /\ claim[r] = "written"
    /\ unread' = [unread EXCEPT ![w] = @ \ {r}]
    /\ UNCHANGED <<claims, log, linked, stale, step, target, history, crashes>>

(* All listed claims were read; signature and lifecycle checks pass.       *)
Checked(w) ==
    /\ step[w] = "read"
    /\ unread[w] = {}
    /\ Goto(w, "create")
    /\ UNCHANGED <<claims, log, linked, stale, target, unread, history, crashes>>

(* Faulty: the file is opened with `w'.                                    *)
CreateClaimShared(w) ==
    /\ step[w] = "create"
    /\ claim' = [claim EXCEPT ![target[w]] = "empty"]
    /\ Goto(w, "write")
    /\ UNCHANGED <<pinned, log, linked, stale, target, unread, history, crashes>>

(* openSync with `wx': only one worker creates the file.                   *)
CreateClaim(w) ==
    /\ step[w] = "create"
    /\ claim[target[w]] = "absent"
    /\ claim' = [claim EXCEPT ![target[w]] = "empty"]
    /\ Goto(w, "write")
    /\ UNCHANGED <<pinned, log, linked, stale, target, unread, history, crashes>>

WriteClaim(w) ==
    /\ step[w] = "write"
    /\ claim' = [claim EXCEPT ![target[w]] = "written"]
    /\ Goto(w, "sync")
    /\ UNCHANGED <<pinned, log, linked, stale, target, unread, history, crashes>>

(* Faulty: no fsync.                                                       *)
SyncClaimSkipped(w) ==
    /\ step[w] = "sync"
    /\ Goto(w, "append")
    /\ UNCHANGED <<claims, log, linked, stale, target, unread, history, crashes>>

(* fsync of the file, then of the directory; never of the directory that   *)
(* holds this one.                                                         *)
SyncClaim(w) ==
    /\ step[w] = "sync"
    /\ pinned' = pinned \union {target[w]}
    /\ Goto(w, "append")
    /\ UNCHANGED <<claim, log, linked, stale, target, unread, history, crashes>>

(* A write to a journal that does not end in a newline runs two lines into *)
(* one that does not parse.                                                *)
Appended(r) ==
    IF journal.tail = "whole" THEN [journal EXCEPT !.ids = @ \union {r}]
                              ELSE [journal EXCEPT !.tail = "torn"]

AppendJournal(w) ==
    /\ step[w] = "append"
    /\ journal' = Appended(target[w])
    /\ Goto(w, "flush")
    /\ UNCHANGED <<claims, durable, linked, stale, target, unread, history, crashes>>

(* fsync of the file, never of the directory that holds it.                *)
FlushJournal(w) ==
    /\ step[w] = "flush"
    /\ durable' = journal
    /\ Goto(w, "accept")
    /\ UNCHANGED <<claims, journal, linked, stale, target, unread, history, crashes>>

Accept(w) ==
    /\ step[w] = "accept"
    /\ accepted' = [accepted EXCEPT ![target[w]] = @ + 1]
    /\ Idle(w)
    /\ UNCHANGED <<claims, log, linked, stale, lost, crashes>>

(* Refused: the claim exists, or another claim is empty.                   *)
Refuse(w) ==
    /\ \/ step[w] \in {"list", "create"} /\ claim[target[w]] # "absent"
       \/ step[w] = "read" /\ \E r \in unread[w] : claim[r] = "empty"
    /\ Idle(w)
    /\ UNCHANGED <<claims, log, linked, stale, history, crashes>>

-----------------------------------------------------------------------------
CountCrash == crashes < MaxCrashes /\ crashes' = crashes + 1

(* A result grows too old; the line before the journal is read refuses it. *)
Expire(r) ==
    /\ r \notin stale
    /\ stale' = stale \union {r}
    /\ UNCHANGED <<claims, log, linked, attempt, history, crashes>>

(* The process dies, or a file operation throws.                           *)
Stop(w) ==
    /\ CountCrash
    /\ step[w] # "idle"
    /\ Idle(w)
    /\ UNCHANGED <<claims, log, linked, stale, history>>

(* writeSync writes less than the line and returns how much, which nobody  *)
(* looks at: only the newline is missing, or more.                         *)
ShortAppend(w) ==
    /\ CountCrash
    /\ step[w] = "append"
    /\ journal' \in {[journal EXCEPT !.tail = "torn"]} \union
                       IF journal.tail = "whole" THEN {[Appended(target[w]) EXCEPT !.tail = "open"]}
                                                 ELSE {}
    /\ Goto(w, "flush")
    /\ UNCHANGED <<claims, durable, linked, stale, target, unread, history>>

(* What a power failure may leave of a journal that keeps its name: what   *)
(* was fsynced, and any part of what was written after that.               *)
Survivors ==
    IF journal = durable THEN {journal}
    ELSE {j \in Journals :
            /\ durable.ids \subseteq j.ids /\ j.ids \subseteq journal.ids
            /\ durable.tail = "open" => j = durable \/ j = [durable EXCEPT !.tail = "torn"]
            /\ j.tail = "open" => j = durable \/ j.ids # durable.ids
            /\ durable.tail = "torn" => j.tail = "torn"}

(* The names that nothing has put on disk, which the file system may drop  *)
(* with all they lead to.                                                  *)
LosableNames ==
    IF NamesDurable THEN {}
    ELSE {n \in Names \ linked :
            IF n = "claims" THEN \E r \in Results : claim[r] # "absent"
                            ELSE journal # NoJournal}

(* Power fails: a claim not pinned down may be gone or empty, and a name   *)
(* that is not on disk may be gone; what is left is on disk.               *)
PowerFailure ==
    /\ CountCrash
    /\ step' = [w \in Workers |-> "idle"]
    /\ target' = [w \in Workers |-> NoResult]
    /\ unread' = [w \in Workers |-> {}]
    /\ \E names \in SUBSET LosableNames,
           gone \in SUBSET (Results \ pinned), emptied \in SUBSET (Results \ pinned) :
          /\ claim' = [r \in Results |->
                         CASE "claims" \in names \/ r \in gone -> "absent"
                           [] r \in emptied /\ claim[r] = "written" -> "empty"
                           [] OTHER -> claim[r]]
          /\ journal' \in IF "journal" \in names THEN {NoJournal} ELSE Survivors
          /\ lost' = lost \union names
    /\ pinned' = {r \in Results : claim'[r] # "absent"}
    /\ durable' = journal'
    /\ linked' = {n \in Names : IF n = "claims" THEN pinned' # {}
                                                 ELSE journal' # NoJournal}
    /\ UNCHANGED <<stale, accepted>>

Verify(w) ==
    \/ \E r \in Results : Begin(w, r) \/ ReadClaim(w, r)
    \/ ListClaims(w)
    \/ Checked(w)
    \/ CreateClaim(w)
    \/ WriteClaim(w)
    \/ SyncClaim(w)
    \/ AppendJournal(w)
    \/ FlushJournal(w)
    \/ Accept(w)
    \/ Refuse(w)

Next ==
    \/ \E w \in Workers : Verify(w) \/ ShortAppend(w) \/ Stop(w)
    \/ PowerFailure
    \/ \E r \in Results : Expire(r)
Spec == Init /\ [][Next]_vars

(* A worker that started goes on, and every result is delivered again and  *)
(* again to some worker that is free.                                      *)
Fairness ==
    /\ \A w \in Workers : WF_vars(Verify(w) /\ step[w] # "idle")
    /\ \A r \in Results : SF_vars(\E w \in Workers : Begin(w, r))
FairSpec == Spec /\ Fairness

-----------------------------------------------------------------------------
(* The types of the variables.                                             *)
TypeOK ==
    /\ claim \in [Results -> {"absent", "empty", "written"}]
    /\ pinned \subseteq Results
    /\ journal \in Journals /\ durable \in Journals
    /\ linked \subseteq Names
    /\ stale \subseteq Results
    /\ step \in [Workers -> Steps]
    /\ target \in [Workers -> Results \union {NoResult}]
    /\ \A w \in Workers : target[w] = NoResult <=> step[w] = "idle"
    /\ unread \in [Workers -> SUBSET Results]
    /\ accepted \in [Results -> Nat]
    /\ lost \subseteq Names
    /\ crashes \in 0..MaxCrashes

(* However workers interleave, die and retry, and whatever writes fall     *)
(* short, a result id is accepted again only after power failures have     *)
(* taken both the claims directory and the journal, neither of whose names *)
(* the code fsyncs.  Either of the two alone prevents it.                  *)
SecondAcceptanceNeedsBothLosses ==
    (\E r \in Results : accepted[r] > 1) => lost = Names

(* A journal that reads as holding r, or that nothing can be read from:    *)
(* r is refused.                                                           *)
Refuses(j, r) == r \in j.ids \/ j.tail = "torn"

(* An accepted id is on disk twice over, each record a refusal by itself   *)
(* for as long as its name lasts: a claim that is written, and a journal   *)
(* that lists the id or can no longer be read.  What the journal lists     *)
(* holds such a claim, accepted or not.                                    *)
AcceptanceIsOnRecord ==
    /\ "journal" \notin lost => \A r \in Results : accepted[r] > 0 => Refuses(durable, r)
    /\ "claims" \notin lost =>
         \A r \in Results : accepted[r] > 0 \/ r \in journal.ids =>
                                claim[r] = "written" /\ r \in pinned

(* A worker died or failed while it held the claim of r.                   *)
Abandoned(r) ==
    /\ crashes > 0
    /\ claim[r] # "absent" \/ r \in journal.ids
    /\ \A w \in Workers : target[w] = r => step[w] \in {"list", "read", "create"}

(* Every result is accepted for good in the end, unless it grows too old   *)
(* first, a line of the journal is torn (every result is refused from then *)
(* on), its own claim was abandoned, or another claim was abandoned before *)
(* its id was written.  A worker that meets a claim half-made is refused   *)
(* for now, never for good, and a worker that dies without a claim costs   *)
(* nothing.                                                                *)
EveryResultAccepted ==
    \A r \in Results :
        <>[](\/ accepted[r] > 0
             \/ r \in stale
             \/ journal.tail = "torn"
             \/ Abandoned(r)
             \/ \E other \in Results : Abandoned(other) /\ claim[other] = "empty")
=============================================================================
