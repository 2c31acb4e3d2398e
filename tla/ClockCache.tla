----------------------------- MODULE ClockCache -----------------------------
(* The CLOCK cache of pkg/clockcache/cache.go: writers that insert and grow  *)
(* the cache under insertLock, and readers that look keys up and mark them   *)
(* as used under the read side of elementsLock.  A pointer into storage is   *)
(* the index of its slot: storage and elements are replaced together, under  *)
(* the write side of elementsLock.                                           *)
EXTENDS Integers, Sequences

CONSTANTS Keys, Values,
          Absent,         \* a key the cache does not hold
          Writers,        \* threads that call Insert, InsertBatch and ExpandTo
          Readers,        \* threads that call Get, GetValues and unmark
          NoWriter,       \* insertLock is free
          MaxCap,         \* bound: the capacities WithMax and ExpandTo are given
          InsertBatches,  \* the sequences of entries callers insert
          GetBatches      \* the sequences of keys callers look up

VARIABLES elements,    \* the slot of every key, 0 for a key not in the map
          storage,     \* the slots in use
          max,         \* cap(storage)
          next,        \* where the next sweep starts, counted from 0
          insertLock,  \* the writer that holds insertLock
          wr,          \* what every writer is doing
          rd,          \* what every reader is doing
          remarked     \* the slots marked as used since the last sweep began

cacheVars == <<elements, storage, max, next>>
vars == <<elements, storage, max, next, insertLock, wr, rd, remarked>>

ASSUME CacheAssumption ==
    /\ Absent \notin Values
    /\ NoWriter \notin Writers
    /\ MaxCap \in Nat
    /\ InsertBatches \subseteq Seq([key : Keys, value : Values])
    /\ GetBatches \subseteq Seq(Keys)

Slots == 1..Len(storage)
Elem(k, v, u) == [key |-> k, value |-> v, used |-> u]

IdleWriter == [pc |-> "idle", batch |-> <<>>, pos |-> 0, at |-> 0, slot |-> 0,
               copied |-> <<>>, newMax |-> 0]
IdleReader == [pc |-> "idle", keys |-> <<>>, vals |-> <<>>, idx |-> 0, n |-> 0, slot |-> 0]

(* Writers that wait for the write side of elementsLock: from then on no new *)
(* reader gets the read side (sync.RWMutex).                                 *)
WantsElements == {"append", "replace", "swapin"}

Init ==
    /\ elements = [k \in Keys |-> 0]
    /\ storage = <<>>
    /\ max \in 0..MaxCap
    /\ next = 0
    /\ insertLock = NoWriter
    /\ wr = [w \in Writers |-> IdleWriter]
    /\ rd = [r \in Readers |-> IdleReader]
    /\ remarked = {}
-----------------------------------------------------------------------------
(* Writers.                                                                  *)

BeginInsert(w) ==
    /\ wr[w].pc = "idle"
    /\ insertLock = NoWriter
    /\ \E b \in InsertBatches :
          wr' = [wr EXCEPT ![w] = [IdleWriter EXCEPT !.pc = "insert", !.batch = b, !.pos = 1]]
    /\ insertLock' = w
    /\ UNCHANGED <<cacheVars, rd, remarked>>

Current(w) == wr[w].batch[wr[w].pos]

(* What the caller of insert gets for a key that is present. *)
CallersValue(e, slot) == e.value
CanonicalValue(e, slot) == storage[slot].value

(* insert finds the key: the caller gets what the cache holds.  The mark is  *)
(* loaded here and stored in a step of its own.                              *)
InsertPresent(w) ==
    /\ wr[w].pc = "insert"
    /\ wr[w].pos <= Len(wr[w].batch)
    /\ LET slot == elements[Current(w).key] IN
       /\ slot # 0
       /\ wr' = [wr EXCEPT
                   ![w].batch[wr[w].pos].value = CanonicalValue(Current(w), slot),
                   ![w].slot = slot,
                   ![w].pos = IF storage[slot].used THEN @ ELSE @ + 1,
                   ![w].pc = IF storage[slot].used THEN "touch" ELSE "insert"]
    /\ UNCHANGED <<cacheVars, insertLock, rd, remarked>>

InsertTouch(w) ==
    /\ wr[w].pc = "touch"
    /\ storage' = [storage EXCEPT ![wr[w].slot].used = TRUE]
    /\ wr' = [wr EXCEPT ![w].pc = "insert", ![w].pos = @ + 1]
    /\ UNCHANGED <<elements, max, next, insertLock, rd, remarked>>

OffByOneFull == Len(storage) > max
Full == Len(storage) >= max

InsertAbsent(w) ==
    /\ wr[w].pc = "insert"
    /\ wr[w].pos <= Len(wr[w].batch)
    /\ elements[Current(w).key] = 0
    /\ IF Full
       THEN /\ wr' = [wr EXCEPT ![w].pc = "sweep", ![w].at = 0]
            /\ remarked' = {}
       ELSE /\ wr' = [wr EXCEPT ![w].pc = "append"]
            /\ UNCHANGED remarked
    /\ UNCHANGED <<cacheVars, insertLock, rd>>

(* The write side of elementsLock is free for the writer that waits for it. *)
Unlocked == TRUE
NoReaders == \A r \in Readers : rd[r].pc = "idle"

Append_(w) ==
    /\ wr[w].pc = "append"
    /\ NoReaders
    /\ LET e == Current(w) IN
       /\ storage' = Append(storage, Elem(e.key, e.value, FALSE))
       /\ elements' = [elements EXCEPT ![e.key] = Len(storage) + 1]
    /\ wr' = [wr EXCEPT ![w].pc = "insert", ![w].pos = @ + 1]
    /\ UNCHANGED <<max, next, insertLock, rd, remarked>>

(* The sweep visits postStart and then preStart, at most Rounds times.       *)
OneRound == 1
Rounds == 2
EndlessStep(at) == (at + 1) % Len(storage)
SweepStep(at) == at + 1
SweepLength == Rounds * Len(storage)
SweepLoc(at) == (next + at) % Len(storage)

(* The hand counted from the start of storage, past the end in preStart. *)
HandPastEnd(loc) == loc + 2

(* next is set from the loop index, which counts from the start of the half  *)
(* that is being walked.                                                     *)
HandAfter(loc) == IF loc >= next THEN loc - next + 1 ELSE loc + 1

(* One SwapUint32 of evict. *)
Sweep(w) ==
    /\ wr[w].pc = "sweep"
    /\ wr[w].at < SweepLength
    /\ LET loc == SweepLoc(wr[w].at) IN
       /\ storage' = [storage EXCEPT ![loc + 1].used = FALSE]
       /\ IF storage[loc + 1].used
          THEN /\ wr' = [wr EXCEPT ![w].at = SweepStep(@)]
               /\ UNCHANGED next
          ELSE /\ wr' = [wr EXCEPT ![w].pc = "replace", ![w].slot = loc + 1]
               /\ next' = HandAfter(loc)
    /\ UNCHANGED <<elements, max, insertLock, rd, remarked>>

(* evict returns nil: the insert fails and ends the batch. *)
Starve(w) ==
    /\ wr[w].pc = "sweep"
    /\ wr[w].at >= SweepLength
    /\ wr' = [wr EXCEPT ![w] = IdleWriter]
    /\ insertLock' = NoWriter
    /\ UNCHANGED <<cacheVars, rd, remarked>>

(* The evicted element makes room under the write side of elementsLock. *)
ForgottenDelete(e, slot) == [elements EXCEPT ![e.key] = slot]
Moved(e, slot) == [elements EXCEPT ![storage[slot].key] = 0, ![e.key] = slot]

Replace(w) ==
    /\ wr[w].pc = "replace"
    /\ NoReaders
    /\ LET e == Current(w)
           slot == wr[w].slot IN
       /\ elements' = Moved(e, slot)
       /\ storage' = [storage EXCEPT ![slot] = Elem(e.key, e.value, FALSE)]
    /\ wr' = [wr EXCEPT ![w].pc = "insert", ![w].pos = @ + 1]
    /\ UNCHANGED <<max, next, insertLock, rd, remarked>>

EndInsert(w) ==
    /\ wr[w].pc = "insert"
    /\ wr[w].pos > Len(wr[w].batch)
    /\ wr' = [wr EXCEPT ![w] = IdleWriter]
    /\ insertLock' = NoWriter
    /\ UNCHANGED <<cacheVars, rd, remarked>>

BeginExpand(w) ==
    /\ wr[w].pc = "idle"
    /\ insertLock = NoWriter
    /\ \E newMax \in 0..MaxCap :
          /\ newMax > max
          /\ wr' = [wr EXCEPT ![w] = [IdleWriter EXCEPT !.pc = "copy", !.newMax = newMax]]
    /\ insertLock' = w
    /\ UNCHANGED <<cacheVars, rd, remarked>>

(* ExpandTo copies one element; its mark is loaded while readers set marks. *)
ExpandCopy(w) ==
    /\ wr[w].pc = "copy"
    /\ LET copied == wr[w].copied IN
       IF Len(copied) < Len(storage)
       THEN wr' = [wr EXCEPT ![w].copied = Append(copied, storage[Len(copied) + 1])]
       ELSE wr' = [wr EXCEPT ![w].pc = "swapin"]
    /\ UNCHANGED <<cacheVars, insertLock, rd, remarked>>

(* newElements maps the key of every copied element to its new place. *)
Indexed(s) ==
    [k \in Keys |-> IF \E i \in 1..Len(s) : s[i].key = k
                    THEN CHOOSE i \in 1..Len(s) : s[i].key = k
                    ELSE 0]

ExpandSwap(w) ==
    /\ wr[w].pc = "swapin"
    /\ NoReaders
    /\ elements' = Indexed(wr[w].copied)
    /\ storage' = wr[w].copied
    /\ max' = wr[w].newMax
    /\ wr' = [wr EXCEPT ![w] = IdleWriter]
    /\ insertLock' = NoWriter
    /\ UNCHANGED <<next, rd, remarked>>
-----------------------------------------------------------------------------
(* Readers.                                                                  *)

RLockFree == \A w \in Writers : wr[w].pc \notin WantsElements

BeginGet(r) ==
    /\ rd[r].pc = "idle"
    /\ RLockFree
    /\ \E ks \in GetBatches :
          rd' = [rd EXCEPT ![r] = [IdleReader EXCEPT !.pc = "get", !.keys = ks,
                                                     !.idx = 1, !.n = Len(ks)]]
    /\ UNCHANGED <<cacheVars, insertLock, wr, remarked>>

Swapped(s, i, j) == [s EXCEPT ![i] = s[j], ![j] = s[i]]

(* A key that is not found changes places with the last one not looked at. *)
GetMiss(r) ==
    LET R == rd[r] IN
    /\ R.pc = "get"
    /\ R.idx <= R.n
    /\ elements[R.keys[R.idx]] = 0
    /\ rd' = [rd EXCEPT ![r].keys = Swapped(R.keys, R.idx, R.n), ![r].n = R.n - 1]
    /\ UNCHANGED <<cacheVars, insertLock, wr, remarked>>

(* The value of a key that is found; its mark is set in a step of its own    *)
(* when the load finds it clear.                                             *)
GetHit(r) ==
    LET R == rd[r]
        slot == elements[R.keys[R.idx]] IN
    /\ R.pc = "get"
    /\ R.idx <= R.n
    /\ slot # 0
    /\ IF storage[slot].used
       THEN rd' = [rd EXCEPT ![r].vals = Append(R.vals, storage[slot].value),
                             ![r].idx = R.idx + 1]
       ELSE rd' = [rd EXCEPT ![r].pc = "mark", ![r].slot = slot]
    /\ UNCHANGED <<cacheVars, insertLock, wr, remarked>>

GetMark(r) ==
    LET R == rd[r] IN
    /\ R.pc = "mark"
    /\ storage' = [storage EXCEPT ![R.slot].used = TRUE]
    /\ remarked' = remarked \cup {R.slot}
    /\ rd' = [rd EXCEPT ![r].pc = "get", ![r].idx = R.idx + 1, ![r].slot = 0,
                        ![r].vals = Append(R.vals, storage[R.slot].value)]
    /\ UNCHANGED <<elements, max, next, insertLock, wr>>

EndGet(r) ==
    /\ rd[r].pc = "get"
    /\ rd[r].idx > rd[r].n
    /\ rd' = [rd EXCEPT ![r] = IdleReader]
    /\ UNCHANGED <<cacheVars, insertLock, wr, remarked>>

(* unmark: present and marked, the mark is cleared in a second step. *)
BeginUnmark(r) ==
    /\ rd[r].pc = "idle"
    /\ RLockFree
    /\ \E k \in Keys :
          /\ elements[k] # 0
          /\ storage[elements[k]].used
          /\ rd' = [rd EXCEPT ![r].pc = "unmark", ![r].slot = elements[k]]
    /\ UNCHANGED <<cacheVars, insertLock, wr, remarked>>

EndUnmark(r) ==
    /\ rd[r].pc = "unmark"
    /\ storage' = [storage EXCEPT ![rd[r].slot].used = FALSE]
    /\ rd' = [rd EXCEPT ![r] = IdleReader]
    /\ UNCHANGED <<elements, max, next, insertLock, wr, remarked>>
-----------------------------------------------------------------------------
WriterStep(w) ==
    \/ InsertPresent(w) \/ InsertTouch(w) \/ InsertAbsent(w) \/ Append_(w)
    \/ Sweep(w) \/ Starve(w) \/ Replace(w) \/ EndInsert(w)
    \/ ExpandCopy(w) \/ ExpandSwap(w)

ReaderStep(r) ==
    GetMiss(r) \/ GetHit(r) \/ GetMark(r) \/ EndGet(r) \/ EndUnmark(r)

Next ==
    \/ \E w \in Writers : BeginInsert(w) \/ BeginExpand(w) \/ WriterStep(w)
    \/ \E r \in Readers : BeginGet(r) \/ BeginUnmark(r) \/ ReaderStep(r)

(* A call that has begun goes on; whether anyone calls is left open. *)
Fairness ==
    /\ \A w \in Writers : WF_vars(WriterStep(w))
    /\ \A r \in Readers : WF_vars(ReaderStep(r))

Spec == Init /\ [][Next]_vars /\ Fairness
-----------------------------------------------------------------------------
(* Properties.                                                               *)

(* What the cache holds for a key, as Get would return it. *)
Content ==
    [k \in Keys |-> IF elements[k] = 0 THEN Absent ELSE storage[elements[k]].value]

CacheLen == Len(storage)
CacheCap == max

(* Types; next never passes the end of storage, so that the two slices of    *)
(* evict are within bounds.                                                  *)
CacheTypeOK ==
    /\ elements \in [Keys -> 0..MaxCap]
    /\ storage \in Seq([key : Keys, value : Values, used : BOOLEAN])
    /\ max \in 0..MaxCap
    /\ next \in 0..Len(storage)
    /\ insertLock \in Writers \cup {NoWriter}
    /\ \A w \in Writers : (wr[w].pc # "idle") <=> (insertLock = w)

(* The map and the slots are two views of one set of entries: a key is in at *)
(* most one slot, the map leads to it, and no slot is out of the map's reach *)
(* (insert, evict and ExpandTo together).                                    *)
OneSlotPerKey ==
    /\ Len(storage) <= max
    /\ \A k \in Keys : elements[k] # 0 => /\ elements[k] \in Slots
                                          /\ storage[elements[k]].key = k
    /\ \A i \in Slots : elements[storage[i].key] = i

(* GetValues, at every point of its loop: the keys before idx are in the     *)
(* cache with the values collected for them, in the same places, and the     *)
(* keys from n on are not in it; the element whose mark is about to be set   *)
(* still belongs to the key that was looked up.                              *)
ValuesLineUp ==
    \A r \in Readers :
        LET R == rd[r] IN
        R.pc \in {"get", "mark"} =>
            /\ Len(R.vals) = R.idx - 1
            /\ \A j \in 1..(R.idx - 1) : Content[R.keys[j]] = R.vals[j]
            /\ \A j \in (R.n + 1)..Len(R.keys) : Content[R.keys[j]] = Absent
            /\ R.pc = "mark" => elements[R.keys[R.idx]] = R.slot

(* The value Insert hands back is the one readers get for the key, whoever   *)
(* inserted it first.                                                        *)
CallerGetsCanonicalValue ==
    \A w \in Writers :
        LET W == wr[w] IN
        W.pc = "insert" /\ W.pos > 1 =>
            Content[W.batch[W.pos - 1].key] = W.batch[W.pos - 1].value

(* evict gives up only when readers marked every single slot again while it  *)
(* was sweeping: "the cache is too small".                                   *)
GivesUpOnlyWhenStarved ==
    \A w \in Writers :
        wr[w].pc = "sweep" /\ wr[w].at >= SweepLength => Slots \subseteq remarked

(* Whoever holds insertLock lets go of it: sweeps are bounded, and readers   *)
(* that come later cannot keep a waiting writer out.                         *)
InsertLockIsReleased ==
    \A w \in Writers : insertLock = w ~> insertLock # w

(* The cache implements the forgetful map. *)
Map == INSTANCE ForgetfulMap WITH content <- Content, size <- CacheLen, capacity <- CacheCap
ImplementsForgetfulMap == Map!MapSpec
=============================================================================
