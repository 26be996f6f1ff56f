------------------------- MODULE ResultClaimsProofs -------------------------
(***************************************************************************)
(* For every number of workers, results and crashes, and for every file    *)
(* system: a signed result is accepted again only if power failures took   *)
(* both its records, so at most once where names are durable, and what was *)
(* accepted stays on record for as long as the names of the records last.  *)
(*                                                                         *)
(* A worker past the exclusive creation of the claim file owns the id.     *)
(* The invariant says that an id has at most one owner, how far its claim  *)
(* and its journal line are on disk at each step, and that neither an      *)
(* owner nor a worker about to become one works on an id already accepted, *)
(* unless both names were lost.                                            *)
(***************************************************************************)
EXTENDS ResultClaims, TLAPS

Owning == {"write", "sync", "append", "flush", "accept"}
Owns(w, r) == step[w] \in Owning /\ target[w] = r

OneOwner ==
    \A v, w \in Workers : \A r \in Results : Owns(v, r) /\ Owns(w, r) => v = w

(* How far an owner has brought its claim and its line.                    *)
Progress(w) ==
    /\ step[w] \in Owning => claim[target[w]] # "absent"
    /\ step[w] \in Owning \ {"write"} => claim[target[w]] = "written"
    /\ step[w] \in {"append", "flush", "accept"} => target[w] \in pinned
    /\ step[w] = "flush" => Refuses(journal, target[w])
    /\ step[w] = "accept" => Refuses(durable, target[w])

(* An owner's id was not accepted yet, and a worker that has passed the    *)
(* journal with an id accepted before will find its claim.                 *)
Untaken(w) ==
    lost # Names =>
      /\ step[w] \in Owning => accepted[target[w]] = 0
      /\ step[w] \in {"list", "read", "create"} /\ accepted[target[w]] > 0 =>
           claim[target[w]] # "absent"

(* What is durable in the journal can still be read there.                 *)
LogGrows ==
    /\ durable.ids \subseteq journal.ids
    /\ durable.tail = "torn" => journal.tail = "torn"

IInv ==
    /\ TypeOK
    /\ OneOwner
    /\ \A w \in Workers : Progress(w) /\ Untaken(w)
    /\ LogGrows
    /\ NamesDurable => lost = {}
    /\ SecondAcceptanceNeedsBothLosses
    /\ AcceptanceIsOnRecord

-----------------------------------------------------------------------------
LEMMA InitInvariant ==
    Init => IInv
<1> SUFFICES ASSUME Init PROVE IInv
  OBVIOUS
<1>1. NoJournal \in Journals
  BY DEF NoJournal, Journals, Tails
<1>2. TypeOK
  BY <1>1, ConstantsAssumption DEF Init, TypeOK, Steps
<1>3. \A w \in Workers : step[w] \notin Owning \union {"list", "read", "create"}
  BY DEF Init, Owning
<1>4. OneOwner /\ \A w \in Workers : Progress(w) /\ Untaken(w)
  BY <1>3 DEF OneOwner, Owns, Progress, Untaken, Owning
<1>5. LogGrows /\ lost = {}
  BY DEF Init, LogGrows
<1>6. SecondAcceptanceNeedsBothLosses /\ AcceptanceIsOnRecord
  BY DEF Init, NoJournal, SecondAcceptanceNeedsBothLosses, AcceptanceIsOnRecord
<1> QED
  BY <1>2, <1>4, <1>5, <1>6 DEF IInv

(* A worker is bound to a result exactly while it is not idle.             *)
LEMMA TargetTyped ==
    ASSUME TypeOK, NEW w \in Workers, step[w] # "idle"
    PROVE  target[w] \in Results
  BY DEF TypeOK

(* What the files say, and a worker that did not move, stays as it was     *)
(* when claims are not undone and the journal only grows.                  *)
LEMMA OthersKeep ==
    ASSUME NEW v, Progress(v), Untaken(v), step'[v] = step[v], target'[v] = target[v],
           step[v] # "idle" => /\ claim'[target[v]] = claim[target[v]]
                               /\ accepted'[target[v]] = accepted[target[v]]
                               /\ Refuses(journal, target[v]) => Refuses(journal, target[v])'
                               /\ Refuses(durable, target[v]) => Refuses(durable, target[v])',
           pinned \subseteq pinned', lost' = lost
    PROVE  Progress(v)' /\ Untaken(v)'
<1>1. CASE step[v] = "idle"
  BY <1>1 DEF Progress, Untaken, Owning
<1>2. CASE step[v] # "idle"
  BY <1>2 DEF Progress, Untaken, Owning, Refuses
<1> QED
  BY <1>1, <1>2

(* The journal is not changed by steps that leave its variables alone.     *)
LEMMA SameLog ==
    ASSUME journal' = journal, durable' = durable
    PROVE  /\ LogGrows => LogGrows'
           /\ \A r : Refuses(journal, r) => Refuses(journal, r)'
           /\ \A r : Refuses(durable, r) => Refuses(durable, r)'
  BY DEF LogGrows, Refuses

(* An accepted id that both names protect is refused by the journal or     *)
(* holds its claim.                                                        *)
LEMMA AcceptedIsRefused ==
    ASSUME IInv, NEW r \in Results, accepted[r] > 0, lost # Names
    PROVE  Refuses(journal, r) \/ claim[r] # "absent"
<1>1. "journal" \notin lost \/ "claims" \notin lost
  BY DEF IInv, TypeOK, Names
<1>2. CASE "journal" \notin lost
  BY <1>2 DEF IInv, AcceptanceIsOnRecord, LogGrows, Refuses
<1>3. CASE "claims" \notin lost
  BY <1>3 DEF IInv, AcceptanceIsOnRecord
<1> QED
  BY <1>1, <1>2, <1>3

-----------------------------------------------------------------------------
(* Steps before the claim is created change no file.                       *)
LEMMA ReadingKeeps ==
    ASSUME IInv, NEW w \in Workers,
           (\E r \in Results : Begin(w, r) \/ ReadClaim(w, r))
           \/ ListClaims(w) \/ Checked(w)
    PROVE  IInv'
<1>1. /\ UNCHANGED <<claim, pinned, journal, durable, linked, stale, accepted, lost, crashes>>
      /\ step'[w] \in {"list", "read", "create"}
      /\ \A v \in Workers \ {w} : step'[v] = step[v] /\ target'[v] = target[v]
  BY DEF IInv, TypeOK, Begin, ReadClaim, ListClaims, Checked, Goto, claims, log, history
<1>2. TypeOK'
  <2>1. CASE \E r \in Results : Begin(w, r)
    BY <1>1, <2>1, ConstantsAssumption DEF IInv, TypeOK, Begin, Goto, Steps
  <2>2. CASE \E r \in Results : ReadClaim(w, r)
    BY <1>1, <2>2 DEF IInv, TypeOK, ReadClaim
  <2>3. CASE ListClaims(w)
    BY <1>1, <2>3 DEF IInv, TypeOK, ListClaims, Goto, Steps
  <2>4. CASE Checked(w)
    BY <1>1, <2>4 DEF IInv, TypeOK, Checked, Goto, Steps
  <2> QED
    BY <2>1, <2>2, <2>3, <2>4
<1>3. OneOwner'
  BY <1>1 DEF IInv, OneOwner, Owns, Owning
<1>4. Progress(w)' /\ Untaken(w)'
  <2>1. Progress(w)'
    BY <1>1 DEF Progress, Owning
  <2>2. CASE \E r \in Results : Begin(w, r)
    <3>1. PICK r \in Results : Begin(w, r)
      BY <2>2
    <3>2. target'[w] = r /\ ~Refuses(journal, r)
      BY <3>1 DEF IInv, TypeOK, Begin, Refuses
    <3>3. accepted[r] > 0 /\ lost # Names => claim[r] # "absent"
      BY <3>2, AcceptedIsRefused
    <3> QED
      BY <1>1, <2>1, <3>2, <3>3 DEF Untaken, Owning
  <2>3. CASE (\E r \in Results : ReadClaim(w, r)) \/ ListClaims(w) \/ Checked(w)
    <3>1. step[w] \in {"list", "read", "create"} /\ target'[w] = target[w]
      BY <2>3 DEF ReadClaim, ListClaims, Checked
    <3> QED
      BY <1>1, <2>1, <3>1 DEF IInv, Untaken, Owning
  <2> QED
    BY <2>1, <2>2, <2>3
<1>5. \A v \in Workers \ {w} : Progress(v)' /\ Untaken(v)'
  BY <1>1, SameLog, OthersKeep DEF IInv
<1>6. LogGrows' /\ (NamesDurable => lost' = {})
  BY <1>1, SameLog DEF IInv
<1>7. SecondAcceptanceNeedsBothLosses' /\ AcceptanceIsOnRecord'
  BY <1>1 DEF IInv, SecondAcceptanceNeedsBothLosses, AcceptanceIsOnRecord, Refuses
<1> QED
  BY <1>2, <1>3, <1>4, <1>5, <1>6, <1>7 DEF IInv

(* Only one worker finds the claim absent, and what is on record is not.   *)
LEMMA CreateKeeps ==
    ASSUME IInv, NEW w \in Workers, CreateClaim(w)
    PROVE  IInv'
<1> PICK r \in Results : target[w] = r
  BY TargetTyped DEF IInv, CreateClaim
<1>1. /\ step[w] = "create" /\ claim[r] = "absent"
      /\ claim' = [claim EXCEPT ![r] = "empty"]
      /\ step' = [step EXCEPT ![w] = "write"]
      /\ UNCHANGED <<pinned, journal, durable, linked, stale, target, unread, accepted, lost,
                     crashes>>
  BY DEF CreateClaim, Goto, log, history
<1>2. TypeOK'
  BY <1>1 DEF IInv, TypeOK, Steps
<1>3. \A v \in Workers : ~Owns(v, r)
  BY <1>1 DEF IInv, Owns, Progress
<1>4. lost # Names => accepted[r] = 0
  BY <1>1 DEF IInv, TypeOK, Untaken
<1>5. "claims" \notin lost => r \notin journal.ids /\ accepted[r] = 0
  BY <1>1 DEF IInv, TypeOK, AcceptanceIsOnRecord
<1>6. /\ step'[w] = "write" /\ claim'[r] = "empty"
      /\ \A v \in Workers \ {w} : step'[v] = step[v]
      /\ \A q \in Results \ {r} : claim'[q] = claim[q]
  BY <1>1 DEF IInv, TypeOK
<1>7. OneOwner'
  BY <1>1, <1>3, <1>6 DEF IInv, OneOwner, Owns
<1>8. ASSUME NEW v \in Workers
      PROVE  Progress(v)' /\ Untaken(v)'
  <2>1. CASE v = w
    BY <1>1, <1>4, <1>6, <2>1 DEF Progress, Untaken, Owning
  <2>2. CASE v # w /\ target[v] # r
    <3>1. step[v] # "idle" => target[v] \in Results \ {r}
      BY <2>2, TargetTyped DEF IInv
    <3> QED
      BY <1>1, <1>6, <2>2, <3>1, SameLog, OthersKeep DEF IInv
  <2>3. CASE v # w /\ target[v] = r
    BY <1>1, <1>3, <1>6, <2>3 DEF Progress, Untaken, Owns, Owning
  <2> QED
    BY <2>1, <2>2, <2>3
<1>9. LogGrows' /\ (NamesDurable => lost' = {})
  BY <1>1, SameLog DEF IInv
<1>10. SecondAcceptanceNeedsBothLosses'
  BY <1>1 DEF IInv, SecondAcceptanceNeedsBothLosses
<1>11. AcceptanceIsOnRecord'
  BY <1>1, <1>5, <1>6 DEF IInv, TypeOK, AcceptanceIsOnRecord, Refuses
<1> QED
  BY <1>2, <1>7, <1>8, <1>9, <1>10, <1>11 DEF IInv

(* The owner writes its claim and pins it down.                            *)
LEMMA ClaimingKeeps ==
    ASSUME IInv, NEW w \in Workers, WriteClaim(w) \/ SyncClaim(w)
    PROVE  IInv'
<1> PICK r \in Results : target[w] = r
  BY TargetTyped DEF IInv, WriteClaim, SyncClaim
<1>1. Owns(w, r) /\ (lost # Names => accepted[r] = 0)
  BY DEF IInv, Untaken, Owns, Owning, WriteClaim, SyncClaim
<1>2. \A v \in Workers \ {w} : step[v] \in Owning => target[v] # r
  BY <1>1 DEF IInv, OneOwner, Owns
<1>3. /\ UNCHANGED <<journal, durable, linked, stale, target, unread, accepted, lost, crashes>>
      /\ step'[w] \in {"sync", "append"}
      /\ \A v \in Workers \ {w} : step'[v] = step[v]
      /\ \A q \in Results \ {r} : claim'[q] = claim[q]
      /\ claim'[r] = "written"
      /\ pinned \subseteq pinned'
      /\ step'[w] = "append" => r \in pinned'
  BY DEF IInv, TypeOK, Progress, Owning, WriteClaim, SyncClaim, Goto, log, history
<1>4. TypeOK'
  BY <1>3 DEF IInv, TypeOK, WriteClaim, SyncClaim, Goto, Steps
<1>5. OneOwner'
  BY <1>1, <1>3 DEF IInv, OneOwner, Owns, Owning
<1>6. ASSUME NEW v \in Workers
      PROVE  Progress(v)' /\ Untaken(v)'
  <2>1. CASE v = w
    BY <1>1, <1>3, <2>1 DEF Progress, Untaken, Owning
  <2>2. CASE v # w /\ target[v] # r
    <3>1. step[v] # "idle" => target[v] \in Results \ {r}
      BY <2>2, TargetTyped DEF IInv
    <3> QED
      BY <1>3, <2>2, <3>1, SameLog, OthersKeep DEF IInv
  <2>3. CASE v # w /\ target[v] = r
    BY <1>2, <1>3, <2>3 DEF Progress, Untaken, Owning
  <2> QED
    BY <2>1, <2>2, <2>3
<1>7. LogGrows' /\ (NamesDurable => lost' = {})
  BY <1>3, SameLog DEF IInv
<1>8. SecondAcceptanceNeedsBothLosses'
  BY <1>3 DEF IInv, SecondAcceptanceNeedsBothLosses
<1>9. AcceptanceIsOnRecord'
  BY <1>3 DEF IInv, TypeOK, AcceptanceIsOnRecord, Refuses
<1> QED
  BY <1>4, <1>5, <1>6, <1>7, <1>8, <1>9 DEF IInv

(* A line, whole or short, is on record or makes the journal unreadable,   *)
(* and undoes no other line.                                               *)
LEMMA LineWritten ==
    ASSUME IInv, NEW w \in Workers, AppendJournal(w) \/ ShortAppend(w)
    PROVE  /\ journal' \in Journals
           /\ LogGrows'
           /\ journal'.ids \subseteq journal.ids \union {target[w]}
           /\ Refuses(journal, target[w])'
           /\ \A q \in Results : Refuses(journal, q) => Refuses(journal, q)'
<1>1. target[w] \in Results
  BY TargetTyped DEF IInv, AppendJournal, ShortAppend
<1>2. durable' = durable /\ target' = target
  BY DEF AppendJournal, ShortAppend
<1>3. journal \in Journals
  BY DEF IInv, TypeOK
<1>4. SUFFICES /\ journal' \in Journals
               /\ journal.ids \subseteq journal'.ids
               /\ journal'.ids \subseteq journal.ids \union {target[w]}
               /\ journal.tail = "torn" => journal'.tail = "torn"
               /\ journal'.tail = "torn" \/ target[w] \in journal'.ids
  BY <1>2 DEF IInv, LogGrows, Refuses
<1>5. \/ /\ journal' = [journal EXCEPT !.tail = "torn"]
      \/ /\ journal.tail = "whole"
         /\ journal' = [journal EXCEPT !.ids = @ \union {target[w]}]
      \/ /\ journal.tail = "whole"
         /\ journal' = [[journal EXCEPT !.ids = @ \union {target[w]}] EXCEPT !.tail = "open"]
  BY DEF AppendJournal, ShortAppend, Appended
<1>6. CASE journal' = [journal EXCEPT !.tail = "torn"]
  <2>1. journal'.ids = journal.ids /\ journal'.tail = "torn"
    BY <1>3, <1>6 DEF Journals
  <2>2. journal' \in Journals
    BY <1>3, <1>6 DEF Journals, Tails
  <2> QED
    BY <2>1, <2>2
<1>7. CASE /\ journal.tail = "whole"
           /\ journal' = [journal EXCEPT !.ids = @ \union {target[w]}]
  BY <1>1, <1>3, <1>7 DEF Journals, Tails
<1>8. CASE /\ journal.tail = "whole"
           /\ journal' = [[journal EXCEPT !.ids = @ \union {target[w]}] EXCEPT !.tail = "open"]
  BY <1>1, <1>3, <1>8 DEF Journals, Tails
<1> QED
  BY <1>5, <1>6, <1>7, <1>8

LEMMA AppendKeeps ==
    ASSUME IInv, NEW w \in Workers, AppendJournal(w) \/ ShortAppend(w)
    PROVE  IInv'
<1> PICK r \in Results : target[w] = r
  BY TargetTyped DEF IInv, AppendJournal, ShortAppend
<1>1. /\ Owns(w, r) /\ (lost # Names => accepted[r] = 0)
      /\ claim[r] = "written" /\ r \in pinned
  BY DEF IInv, Progress, Untaken, Owns, Owning, AppendJournal, ShortAppend
<1>2. /\ UNCHANGED <<claim, pinned, durable, linked, stale, target, unread, accepted, lost>>
      /\ step' = [step EXCEPT ![w] = "flush"]
      /\ crashes' \in 0..MaxCrashes
  BY ConstantsAssumption
  DEF IInv, TypeOK, AppendJournal, ShortAppend, CountCrash, Goto, claims, history
<1>3. TypeOK'
  BY <1>1, <1>2, LineWritten DEF IInv, TypeOK, Steps, Owns, Owning
<1>4. step'[w] = "flush" /\ \A v \in Workers \ {w} : step'[v] = step[v]
  BY <1>2 DEF IInv, TypeOK
<1>5. OneOwner'
  BY <1>1, <1>2, <1>4 DEF IInv, OneOwner, Owns, Owning
<1>6. \A q \in Results : Refuses(durable, q) => Refuses(durable, q)'
  BY <1>2 DEF Refuses
<1>7. ASSUME NEW v \in Workers
      PROVE  Progress(v)' /\ Untaken(v)'
  <2>1. CASE v = w
    BY <1>1, <1>2, <1>4, <2>1, LineWritten DEF Progress, Untaken, Owning
  <2>2. CASE v # w
    <3>1. step[v] # "idle" => target[v] \in Results
      BY TargetTyped DEF IInv
    <3> QED
      BY <1>2, <1>4, <1>6, <2>2, <3>1, LineWritten, OthersKeep DEF IInv
  <2> QED
    BY <2>1, <2>2
<1>8. LogGrows' /\ (NamesDurable => lost' = {})
  BY <1>2, LineWritten DEF IInv
<1>9. SecondAcceptanceNeedsBothLosses'
  BY <1>2 DEF IInv, SecondAcceptanceNeedsBothLosses
<1>10. AcceptanceIsOnRecord'
  BY <1>1, <1>2, LineWritten DEF IInv, AcceptanceIsOnRecord, Refuses
<1> QED
  BY <1>3, <1>5, <1>7, <1>8, <1>9, <1>10 DEF IInv

LEMMA FlushKeeps ==
    ASSUME IInv, NEW w \in Workers, FlushJournal(w)
    PROVE  IInv'
<1> PICK r \in Results : target[w] = r
  BY TargetTyped DEF IInv, FlushJournal
<1>1. /\ Owns(w, r) /\ (lost # Names => accepted[r] = 0)
      /\ claim[r] = "written" /\ r \in pinned /\ Refuses(journal, r)
  BY DEF IInv, Progress, Untaken, Owns, Owning, FlushJournal
<1>2. /\ UNCHANGED <<claim, pinned, journal, linked, stale, target, unread, accepted, lost,
                     crashes>>
      /\ durable' = journal
      /\ step' = [step EXCEPT ![w] = "accept"]
  BY DEF FlushJournal, Goto, claims, history
<1>3. TypeOK'
  BY <1>1, <1>2 DEF IInv, TypeOK, Steps, Owns, Owning
<1>4. step'[w] = "accept" /\ \A v \in Workers \ {w} : step'[v] = step[v]
  BY <1>2 DEF IInv, TypeOK
<1>5. OneOwner'
  BY <1>1, <1>2, <1>4 DEF IInv, OneOwner, Owns, Owning
<1>6. /\ LogGrows'
      /\ \A q : Refuses(journal, q) => Refuses(journal, q)' /\ Refuses(durable, q)'
      /\ \A q : Refuses(durable, q) => Refuses(journal, q)
  BY <1>2 DEF IInv, LogGrows, Refuses
<1>7. ASSUME NEW v \in Workers
      PROVE  Progress(v)' /\ Untaken(v)'
  <2>1. CASE v = w
    BY <1>1, <1>2, <1>4, <1>6, <2>1 DEF Progress, Untaken, Owning
  <2>2. CASE v # w
    BY <1>2, <1>4, <1>6, <2>2, OthersKeep DEF IInv
  <2> QED
    BY <2>1, <2>2
<1>8. NamesDurable => lost' = {}
  BY <1>2 DEF IInv
<1>9. SecondAcceptanceNeedsBothLosses'
  BY <1>2 DEF IInv, SecondAcceptanceNeedsBothLosses
<1>10. AcceptanceIsOnRecord'
  BY <1>2, <1>6 DEF IInv, AcceptanceIsOnRecord
<1> QED
  BY <1>3, <1>5, <1>6, <1>7, <1>8, <1>9, <1>10 DEF IInv

LEMMA AcceptKeeps ==
    ASSUME IInv, NEW w \in Workers, Accept(w)
    PROVE  IInv'
<1> PICK r \in Results : target[w] = r
  BY TargetTyped DEF IInv, Accept
<1>1. /\ Owns(w, r) /\ (lost # Names => accepted[r] = 0)
      /\ claim[r] = "written" /\ r \in pinned /\ Refuses(durable, r)
  BY DEF IInv, Progress, Untaken, Owns, Owning, Accept
<1>2. /\ UNCHANGED <<claim, pinned, journal, durable, linked, stale, lost, crashes>>
      /\ accepted' = [accepted EXCEPT ![r] = @ + 1]
      /\ step' = [step EXCEPT ![w] = "idle"]
      /\ target' = [target EXCEPT ![w] = NoResult]
      /\ unread' = [unread EXCEPT ![w] = {}]
  BY DEF Accept, Idle, claims, log
<1>3. TypeOK'
  BY <1>2 DEF IInv, TypeOK, Steps
<1>4. /\ step'[w] = "idle" /\ accepted'[r] = accepted[r] + 1 /\ accepted[r] \in Nat
      /\ \A v \in Workers \ {w} : step'[v] = step[v] /\ target'[v] = target[v]
      /\ \A q \in Results \ {r} : accepted'[q] = accepted[q]
  BY <1>2 DEF IInv, TypeOK
<1>5. OneOwner'
  BY <1>4 DEF IInv, OneOwner, Owns, Owning
<1>6. ASSUME NEW v \in Workers
      PROVE  Progress(v)' /\ Untaken(v)'
  <2>1. CASE v = w
    BY <1>4, <2>1 DEF Progress, Untaken, Owning
  <2>2. CASE v # w /\ target[v] # r
    <3>1. step[v] # "idle" => target[v] \in Results \ {r}
      BY <2>2, TargetTyped DEF IInv
    <3> QED
      BY <1>2, <1>4, <2>2, <3>1, SameLog, OthersKeep DEF IInv
  <2>3. CASE v # w /\ target[v] = r
    <3>1. step[v] \notin Owning
      BY <1>1, <2>3 DEF IInv, OneOwner, Owns
    <3> QED
      BY <1>1, <1>2, <1>4, <2>3, <3>1 DEF Progress, Untaken, Owning
  <2> QED
    BY <2>1, <2>2, <2>3
<1>7. LogGrows' /\ (NamesDurable => lost' = {})
  BY <1>2, SameLog DEF IInv
<1>8. SecondAcceptanceNeedsBothLosses'
  BY <1>1, <1>2, <1>4 DEF IInv, SecondAcceptanceNeedsBothLosses
<1>9. AcceptanceIsOnRecord'
  BY <1>1, <1>2, <1>4 DEF IInv, AcceptanceIsOnRecord, Refuses
<1> QED
  BY <1>3, <1>5, <1>6, <1>7, <1>8, <1>9 DEF IInv

(* A worker that is refused or dies leaves its files behind.               *)
LEMMA LeaveKeeps ==
    ASSUME IInv, NEW w \in Workers, Refuse(w) \/ Stop(w)
    PROVE  IInv'
<1>1. /\ UNCHANGED <<claim, pinned, journal, durable, linked, stale, accepted, lost>>
      /\ crashes' \in 0..MaxCrashes
      /\ step' = [step EXCEPT ![w] = "idle"]
      /\ target' = [target EXCEPT ![w] = NoResult]
      /\ unread' = [unread EXCEPT ![w] = {}]
  BY ConstantsAssumption
  DEF IInv, TypeOK, Refuse, Stop, CountCrash, Idle, claims, log, history
<1>2. TypeOK'
  BY <1>1 DEF IInv, TypeOK, Steps
<1>3. /\ step'[w] = "idle"
      /\ \A v \in Workers \ {w} : step'[v] = step[v] /\ target'[v] = target[v]
  BY <1>1 DEF IInv, TypeOK
<1>4. OneOwner'
  BY <1>3 DEF IInv, OneOwner, Owns, Owning
<1>5. ASSUME NEW v \in Workers
      PROVE  Progress(v)' /\ Untaken(v)'
  <2>1. CASE v = w
    BY <1>3, <2>1 DEF Progress, Untaken, Owning
  <2>2. CASE v # w
    BY <1>1, <1>3, <2>2, SameLog, OthersKeep DEF IInv
  <2> QED
    BY <2>1, <2>2
<1>6. LogGrows' /\ (NamesDurable => lost' = {})
  BY <1>1, SameLog DEF IInv
<1>7. SecondAcceptanceNeedsBothLosses' /\ AcceptanceIsOnRecord'
  BY <1>1 DEF IInv, SecondAcceptanceNeedsBothLosses, AcceptanceIsOnRecord, Refuses
<1> QED
  BY <1>2, <1>4, <1>5, <1>6, <1>7 DEF IInv

(* A result that grows too old changes nothing else.                       *)
LEMMA ExpireKeeps ==
    ASSUME IInv, NEW r \in Results, Expire(r)
    PROVE  IInv'
<1>1. /\ UNCHANGED <<claim, pinned, journal, durable, linked, step, target, unread, accepted,
                     lost, crashes>>
      /\ stale' \subseteq Results
  BY DEF IInv, TypeOK, Expire, claims, log, attempt, history
<1>2. TypeOK'
  BY <1>1 DEF IInv, TypeOK
<1>3. OneOwner'
  BY <1>1 DEF IInv, OneOwner, Owns
<1>4. \A v \in Workers : Progress(v)' /\ Untaken(v)'
  BY <1>1, SameLog, OthersKeep DEF IInv
<1>5. LogGrows' /\ (NamesDurable => lost' = {})
  BY <1>1, SameLog DEF IInv
<1>6. SecondAcceptanceNeedsBothLosses' /\ AcceptanceIsOnRecord'
  BY <1>1 DEF IInv, SecondAcceptanceNeedsBothLosses, AcceptanceIsOnRecord, Refuses
<1> QED
  BY <1>2, <1>3, <1>4, <1>5, <1>6 DEF IInv

(* A power failure leaves no owner; a pinned claim goes only with the name *)
(* of the claims directory, a durable line only with that of the journal.  *)
LEMMA PowerFailureKeeps ==
    ASSUME IInv, PowerFailure
    PROVE  IInv'
<1>1. PICK names \in SUBSET LosableNames,
           gone \in SUBSET (Results \ pinned), emptied \in SUBSET (Results \ pinned) :
        /\ claim' = [r \in Results |->
                       CASE "claims" \in names \/ r \in gone -> "absent"
                         [] r \in emptied /\ claim[r] = "written" -> "empty"
                         [] OTHER -> claim[r]]
        /\ journal' \in IF "journal" \in names THEN {NoJournal} ELSE Survivors
        /\ lost' = lost \union names
  BY DEF PowerFailure
<1>2. /\ step' = [w \in Workers |-> "idle"]
      /\ target' = [w \in Workers |-> NoResult]
      /\ unread' = [w \in Workers |-> {}]
      /\ pinned' = {r \in Results : claim'[r] # "absent"}
      /\ durable' = journal'
      /\ linked' \subseteq Names
      /\ UNCHANGED <<stale, accepted>>
      /\ crashes' \in 0..MaxCrashes
  BY ConstantsAssumption DEF IInv, TypeOK, PowerFailure, CountCrash
<1>3. /\ claim' \in [Results -> {"absent", "empty", "written"}]
      /\ "claims" \notin names => \A r \in pinned : r \in Results => claim'[r] = claim[r]
  BY <1>1 DEF IInv, TypeOK
<1>4. journal \in Journals /\ NoJournal \in Journals
  BY DEF IInv, TypeOK, NoJournal, Journals, Tails
<1>5. Survivors \subseteq Journals
  BY <1>4 DEF Survivors
<1>6. journal' \in Journals
  BY <1>1, <1>4, <1>5
<1>7. "journal" \notin names => \A r \in Results : Refuses(durable, r) => Refuses(durable, r)'
  <2>1. ASSUME "journal" \notin names
        PROVE  /\ durable.ids \subseteq journal'.ids
               /\ durable.tail = "torn" => journal'.tail = "torn"
    BY <1>1, <2>1 DEF Survivors, IInv, LogGrows
  <2> QED
    BY <1>2, <2>1 DEF Refuses
<1>8. journal'.ids \subseteq journal.ids
  BY <1>1, <1>4 DEF Survivors, NoJournal, Journals
<1>9. lost' \subseteq Names /\ (NamesDurable => lost' = {})
  BY <1>1 DEF IInv, TypeOK, LosableNames
<1>10. TypeOK'
  BY <1>2, <1>3, <1>6, <1>9 DEF IInv, TypeOK, Steps
<1>11. OneOwner' /\ \A w \in Workers : Progress(w)' /\ Untaken(w)'
  BY <1>2 DEF OneOwner, Owns, Owning, Progress, Untaken
<1>12. LogGrows'
  BY <1>2 DEF LogGrows
<1>13. SecondAcceptanceNeedsBothLosses'
  BY <1>1, <1>2, <1>9 DEF IInv, SecondAcceptanceNeedsBothLosses
<1>14. AcceptanceIsOnRecord'
  <2>1. "journal" \notin lost' => \A r \in Results : accepted'[r] > 0 => Refuses(durable, r)'
    BY <1>1, <1>2, <1>7 DEF IInv, AcceptanceIsOnRecord
  <2>2. "claims" \notin lost' =>
          \A r \in Results : accepted'[r] > 0 \/ r \in journal'.ids =>
                                 claim'[r] = "written" /\ r \in pinned'
    BY <1>1, <1>2, <1>3, <1>8 DEF IInv, AcceptanceIsOnRecord
  <2> QED
    BY <2>1, <2>2 DEF AcceptanceIsOnRecord
<1> QED
  BY <1>9, <1>10, <1>11, <1>12, <1>13, <1>14 DEF IInv

LEMMA StepKeeps ==
    ASSUME IInv, [Next]_vars
    PROVE  IInv'
<1>1. CASE PowerFailure
  BY <1>1, PowerFailureKeeps
<1>2. ASSUME NEW w \in Workers, Verify(w)
      PROVE  IInv'
  BY <1>2, ReadingKeeps, CreateKeeps, ClaimingKeeps, AppendKeeps, FlushKeeps, AcceptKeeps,
     LeaveKeeps DEF Verify
<1>3. ASSUME NEW w \in Workers, ShortAppend(w) \/ Stop(w)
      PROVE  IInv'
  BY <1>3, AppendKeeps, LeaveKeeps
<1>4. ASSUME NEW r \in Results, Expire(r)
      PROVE  IInv'
  BY <1>4, ExpireKeeps
<1>5. CASE UNCHANGED vars
  <2>1. UNCHANGED <<claim, pinned, journal, durable, linked, stale, step, target, unread,
                    accepted, lost, crashes>>
    BY <1>5 DEF vars, claims, log, attempt, history
  <2>2. TypeOK' /\ OneOwner' /\ LogGrows' /\ (NamesDurable => lost' = {})
    BY <2>1 DEF IInv, TypeOK, OneOwner, Owns, LogGrows
  <2>3. \A v \in Workers : Progress(v)' /\ Untaken(v)'
    BY <2>1, SameLog, OthersKeep DEF IInv
  <2>4. SecondAcceptanceNeedsBothLosses' /\ AcceptanceIsOnRecord'
    BY <2>1 DEF IInv, SecondAcceptanceNeedsBothLosses, AcceptanceIsOnRecord, Refuses
  <2> QED
    BY <2>2, <2>3, <2>4 DEF IInv
<1> QED
  BY <1>1, <1>2, <1>3, <1>4, <1>5 DEF Next

LEMMA InvariantHolds ==
    Spec => []IInv
<1>1. Init => IInv
  BY InitInvariant
<1>2. IInv /\ [Next]_vars => IInv'
  BY StepKeeps
<1> QED
  BY <1>1, <1>2, PTL DEF Spec

-----------------------------------------------------------------------------
(* The variables of the claim protocol keep their types.                   *)
THEOREM ClaimsTyped ==
    Spec => []TypeOK
<1>1. IInv => TypeOK
  BY DEF IInv
<1> QED
  BY <1>1, InvariantHolds, PTL

(* On any file system, verifySignedResult                                  *)
(* (security/signed-result-verifier.js:14-56) accepts a result id again    *)
(* only after power failures took both the claims directory and the        *)
(* journal.                                                                *)
THEOREM OneRecordSuffices ==
    Spec => []SecondAcceptanceNeedsBothLosses
<1>1. IInv => SecondAcceptanceNeedsBothLosses
  BY DEF IInv
<1> QED
  BY <1>1, InvariantHolds, PTL

(* Where the fsync of a new file or directory makes its name durable,      *)
(* verifySignedResult accepts a result id at most once, over any number of *)
(* processes, deaths, short writes and power failures.                     *)
THEOREM ResultsAcceptedOnce ==
    ASSUME NamesDurable
    PROVE  Spec => [](\A r \in Results : accepted[r] <= 1)
<1>1. IInv => \A r \in Results : accepted[r] <= 1
  BY DEF IInv, TypeOK, Names, SecondAcceptanceNeedsBothLosses
<1> QED
  BY <1>1, InvariantHolds, PTL

(* On any file system, what was accepted is refused by the journal for as  *)
(* long as its name lasts, and holds a claim that is written and pinned    *)
(* down for as long as the name of the claims directory lasts.             *)
THEOREM AcceptancesRecorded ==
    Spec => []AcceptanceIsOnRecord
<1>1. IInv => AcceptanceIsOnRecord
  BY DEF IInv
<1> QED
  BY <1>1, InvariantHolds, PTL
=============================================================================
