--------------------------- MODULE ClockCacheProofs ---------------------------
(***************************************************************************)
(* Theorems about ClockCache, for any keys, values, threads and capacities. *)
(* A writer works alone (insertLock), so that its step disturbs only what   *)
(* is known of itself; the readers' part is disturbed only by writers that  *)
(* wait for NoReaders.  What readers and the sweep change in storage are    *)
(* marks, and no fact but those of the sweep depends on marks.              *)
(***************************************************************************)
EXTENDS ClockCache, SequenceTheorems, TLAPS

Item == [key : Keys, value : Values]
Entry == [key : Keys, value : Values, used : BOOLEAN]

Inserting == {"insert", "touch", "append", "sweep", "replace"}
Expanding == {"copy", "swapin"}

WriterTypes ==
    wr \in [Writers -> [pc : {"idle"} \cup Inserting \cup Expanding, batch : Seq(Item),
                        pos : Nat, at : Nat, slot : Nat, copied : Seq(Entry),
                        newMax : 0..MaxCap]]

ReaderTypes ==
    rd \in [Readers -> [pc : {"idle", "get", "mark", "unmark"}, keys : Seq(Keys),
                        vals : Seq(Values), idx : Nat, n : Nat, slot : Nat]]

(* A writer is within its batch, and what it decided from holds until it acts. *)
Deciding(w) ==
    LET W == wr[w] IN
    /\ W.pc \in Inserting => W.pos \in 1..(Len(W.batch) + 1)
    /\ W.pc \in Inserting \ {"insert"} => W.pos <= Len(W.batch)
    /\ W.pc \in {"touch", "replace"} => W.slot \in Slots
    /\ W.pc \in {"append", "sweep", "replace"} => elements[Current(w).key] = 0
    /\ W.pc = "append" => Len(storage) < max
    /\ W.pc \in {"sweep", "replace"} => Len(storage) = max

(* The value a writer is about to hand back is the one that the cache holds.   *)
Answering(w) ==
    LET W == wr[w] IN
    /\ W.pc = "touch" => Content[Current(w).key] = Current(w).value
    /\ W.pc = "insert" /\ W.pos > 1 =>
           Content[W.batch[W.pos - 1].key] = W.batch[W.pos - 1].value

(* ExpandTo copies slot by slot, and writers wait for it.                      *)
Copying(w) ==
    LET W == wr[w] IN
    /\ W.pc \in Expanding =>
           /\ W.newMax > max
           /\ Len(W.copied) <= Len(storage)
           /\ \A i \in 1..Len(W.copied) : /\ W.copied[i].key = storage[i].key
                                          /\ W.copied[i].value = storage[i].value
    /\ W.pc = "swapin" => Len(W.copied) = Len(storage)

(* How many slots a sweep visits before it comes to this one.                  *)
Turn(s) == IF s > next THEN s - 1 - next ELSE s - 1 - next + Len(storage)

(* A slot that the sweep has passed is marked only if it was marked again, and *)
(* one that it has passed twice was marked again.                              *)
Sweeping(w) ==
    wr[w].pc = "sweep" =>
        \A s \in Slots : /\ Turn(s) < wr[w].at /\ storage[s].used => s \in remarked
                         /\ Turn(s) + Len(storage) < wr[w].at => s \in remarked

WriterInv(w) == Deciding(w) /\ Answering(w) /\ Copying(w) /\ Sweeping(w)

(* A reader stays within its keys, and its slot is one of storage.             *)
Looking(r) ==
    LET R == rd[r] IN
    /\ R.pc \in {"get", "mark"} => /\ R.n \in 0..Len(R.keys)
                                   /\ R.idx \in 1..(R.n + 1)
    /\ R.pc = "mark" => R.idx <= R.n
    /\ R.pc \in {"mark", "unmark"} => R.slot \in Slots

Collecting(r) ==
    LET R == rd[r] IN
    R.pc \in {"get", "mark"} =>
        /\ Len(R.vals) = R.idx - 1
        /\ \A j \in 1..(R.idx - 1) : Content[R.keys[j]] = R.vals[j]
        /\ \A j \in (R.n + 1)..Len(R.keys) : Content[R.keys[j]] = Absent
        /\ R.pc = "mark" => elements[R.keys[R.idx]] = R.slot

ReaderInv(r) == Looking(r) /\ Collecting(r)

CacheInv == CacheTypeOK /\ OneSlotPerKey

IInv ==
    /\ CacheInv
    /\ WriterTypes /\ ReaderTypes
    /\ \A w \in Writers : WriterInv(w)
    /\ \A r \in Readers : ReaderInv(r)
-----------------------------------------------------------------------------
(* Facts about the operators.                                                *)

(* The remainder of a number below three times the divisor.                  *)
LEMMA Remainder ==
  ASSUME NEW n \in Nat, n > 0, NEW a \in Nat, a < 3 * n
  PROVE  a % n = IF a < n THEN a ELSE IF a < 2 * n THEN a - n ELSE a - 2 * n
  BY SMT

(* The sweep comes to every slot once in a round, and its hand stays within  *)
(* storage.                                                                  *)
LEMMA SweepVisits ==
  ASSUME CacheTypeOK, NEW at \in Nat, at < SweepLength
  PROVE  /\ SweepLoc(at) + 1 \in Slots
         /\ HandAfter(SweepLoc(at)) \in 0..Len(storage)
         /\ \A s \in Slots : Turn(s) = at \/ Turn(s) + Len(storage) = at <=> s = SweepLoc(at) + 1
<1> DEFINE n == Len(storage)
           a == next + at
<1>1. n \in Nat /\ n > 0 /\ next \in 0..n /\ at < 2 * n
  BY SMT DEF CacheTypeOK, SweepLength, Rounds
<1>2. a \in Nat /\ a < 3 * n
  BY <1>1, SMT
<1>3. SweepLoc(at) = IF a < n THEN a ELSE IF a < 2 * n THEN a - n ELSE a - 2 * n
  BY <1>1, <1>2, Remainder DEF SweepLoc
<1> HIDE DEF n
<1> QED
  BY <1>1, <1>3, SMT DEF Slots, HandAfter, Turn, n, a

(* Every slot of storage is an entry.                                        *)
LEMMA StoredEntries ==
  ASSUME CacheTypeOK
  PROVE  /\ storage \in Seq(Entry) /\ Len(storage) \in Nat
         /\ \A i \in Slots : storage[i] \in Entry
<1>1. storage \in Seq(Entry)
  BY DEF CacheTypeOK, Entry
<1> QED
  BY <1>1, ElementOfSeq, LenProperties DEF Slots

(* Setting a mark leaves everything else of storage alone.                   *)
LEMMA MarkOne ==
  ASSUME storage \in Seq(Entry), NEW s \in Slots, NEW u \in BOOLEAN,
         storage' = [storage EXCEPT ![s].used = u]
  PROVE  /\ storage' \in Seq(Entry)
         /\ Len(storage') = Len(storage)
         /\ \A i \in Slots : /\ storage'[i].key = storage[i].key
                             /\ storage'[i].value = storage[i].value
                             /\ i # s => storage'[i] = storage[i]
         /\ storage'[s].used = u
<1>1. \A i \in Slots : storage[i] \in Entry
  BY ElementOfSeq DEF Slots
<1>2. storage' = [storage EXCEPT ![s] = [storage[s] EXCEPT !.used = u]]
  OBVIOUS
<1>3. [storage[s] EXCEPT !.used = u] \in Entry
  BY <1>1 DEF Entry
<1>4. storage' \in Seq(Entry) /\ Len(storage') = Len(storage)
  BY <1>2, <1>3, ExceptSeq DEF Slots
<1>5. DOMAIN storage = Slots
  BY LenProperties DEF Slots
<1> QED
  BY <1>1, <1>4, <1>5 DEF Entry
-----------------------------------------------------------------------------
(* Steps that change nothing but marks.                                      *)

SameEntries ==
    /\ elements' = elements /\ max' = max
    /\ storage' \in Seq(Entry)
    /\ Len(storage') = Len(storage)
    /\ \A i \in Slots : /\ storage'[i].key = storage[i].key
                        /\ storage'[i].value = storage[i].value

(* A step that sets or clears a mark keeps the entries.                      *)
LEMMA MarkSame ==
  ASSUME storage \in Seq(Entry), NEW s \in Slots, NEW u \in BOOLEAN,
         storage' = [storage EXCEPT ![s].used = u], UNCHANGED <<elements, max>>
  PROVE  SameEntries
  BY MarkOne, Zenon DEF SameEntries

(* So does a step that leaves the cache alone.                               *)
LEMMA NothingSame ==
  ASSUME storage \in Seq(Entry), UNCHANGED <<elements, storage, max>>
  PROVE  SameEntries
  BY DEF SameEntries

(* With the entries go the content and OneSlotPerKey.                        *)
LEMMA SameContent ==
  ASSUME CacheInv, SameEntries
  PROVE  OneSlotPerKey' /\ Content' = Content /\ Slots' = Slots
<1>1. Slots' = Slots
  BY DEF SameEntries, Slots
<1>2. \A k \in Keys : elements[k] # 0 => elements[k] \in Slots
  BY DEF CacheInv, OneSlotPerKey
<1>3. Content' = Content
  BY <1>2 DEF SameEntries, Content
<1>4. \A i \in Slots : storage[i].key \in Keys
  BY StoredEntries DEF CacheInv, Entry
<1>5. OneSlotPerKey'
  BY <1>1, <1>2, <1>4 DEF SameEntries, CacheInv, OneSlotPerKey
<1> QED
  BY <1>1, <1>3, <1>5

(* What is known of a reader depends on the entries, not on marks.           *)
LEMMA SameReader ==
  ASSUME CacheInv, SameEntries, NEW r \in Readers, ReaderInv(r), rd'[r] = rd[r]
  PROVE  ReaderInv(r)'
<1>1. Content' = Content /\ Slots' = Slots /\ elements' = elements
  BY SameContent DEF SameEntries
<1> QED
  BY <1>1 DEF ReaderInv, Looking, Collecting

(* So does what is known of a writer, its sweep apart.                       *)
LEMMA SameWriter ==
  ASSUME CacheInv, WriterTypes, SameEntries, NEW w \in Writers, WriterInv(w), wr'[w] = wr[w]
  PROVE  Deciding(w)' /\ Answering(w)' /\ Copying(w)'
<1>1. Content' = Content /\ Slots' = Slots /\ elements' = elements /\ max' = max
      /\ Len(storage') = Len(storage)
  BY SameContent DEF SameEntries
<1>2. Current(w)' = Current(w)
  BY DEF Current
<1>3. Deciding(w)' /\ Answering(w)'
  BY <1>1, <1>2 DEF WriterInv, Deciding, Answering
<1>4. Copying(w)'
  <2>1. wr[w].copied \in Seq(Entry)
    BY DEF WriterTypes
  <2>2. wr[w].pc \in Expanding => \A i \in 1..Len(wr[w].copied) : i \in Slots
    BY <2>1, SMT DEF WriterInv, Copying, Slots, CacheInv, CacheTypeOK
  <2> QED
    BY <1>1, <2>2 DEF WriterInv, Copying, SameEntries
<1> QED
  BY <1>3, <1>4

(* Of an idle writer nothing is claimed.                                     *)
LEMMA IdleWriterInv ==
  ASSUME NEW w \in Writers, wr'[w].pc = "idle"
  PROVE  WriterInv(w)'
  BY DEF WriterInv, Deciding, Answering, Copying, Sweeping, Inserting, Expanding

(* Nor of an idle reader.                                                    *)
LEMMA IdleReaderInv ==
  ASSUME NEW r \in Readers, rd'[r].pc \notin {"get", "mark", "unmark"}
  PROVE  ReaderInv(r)'
  BY DEF ReaderInv, Looking, Collecting

(* insertLock keeps writers apart.                                           *)
LEMMA Alone ==
  ASSUME CacheTypeOK, NEW w \in Writers, wr[w].pc # "idle"
  PROVE  \A v \in Writers \ {w} : wr[v].pc = "idle"
  BY DEF CacheTypeOK
-----------------------------------------------------------------------------
(* Readers.                                                                  *)

(* Marks are set by readers, that are noted in remarked, or cleared.         *)
LEMMA SweepingKept ==
  ASSUME CacheInv, SameEntries, next' = next, remarked \subseteq remarked',
         \A s \in Slots : storage'[s].used => storage[s].used \/ s \in remarked',
         NEW w \in Writers, Sweeping(w), wr'[w] = wr[w]
  PROVE  Sweeping(w)'
<1>1. Slots' = Slots /\ Len(storage') = Len(storage)
  BY SameContent DEF SameEntries
<1>2. \A s \in Slots : Turn(s)' = Turn(s)
  BY <1>1 DEF Turn
<1> QED
  BY <1>1, <1>2 DEF Sweeping

(* A reader that keeps the entries disturbs only what is known of itself.    *)
LEMMA ReaderFrame ==
  ASSUME IInv, SameEntries, UNCHANGED <<next, insertLock, wr>>, remarked \subseteq remarked',
         \A s \in Slots : storage'[s].used => storage[s].used \/ s \in remarked',
         NEW r \in Readers, \A q \in Readers \ {r} : rd'[q] = rd[q],
         ReaderTypes', ReaderInv(r)'
  PROVE  IInv'
<1>1. CacheInv'
  <2>1. CacheTypeOK'
    BY DEF IInv, CacheInv, CacheTypeOK, SameEntries, Entry
  <2> QED
    BY <2>1, SameContent DEF CacheInv, IInv
<1>2. WriterTypes'
  BY DEF IInv, WriterTypes
<1>3. ASSUME NEW w \in Writers PROVE WriterInv(w)'
  BY SameWriter, SweepingKept DEF IInv, WriterInv
<1>4. ASSUME NEW q \in Readers PROVE ReaderInv(q)'
  BY SameReader DEF IInv
<1> QED
  BY <1>1, <1>2, <1>3, <1>4 DEF IInv

(* The missing key goes behind n, where the absent ones are.                 *)
LEMMA GetMissInv ==
  ASSUME IInv, NEW r \in Readers, GetMiss(r)
  PROVE  ReaderTypes' /\ ReaderInv(r)'
<1> DEFINE R == rd[r]
           keys == Swapped(R.keys, R.idx, R.n)
<1>1. /\ R.keys \in Seq(Keys) /\ R.n \in Nat /\ R.idx \in Nat
      /\ R.pc = "get" /\ R.n <= Len(R.keys) /\ R.idx >= 1 /\ R.idx <= R.n
      /\ elements[R.keys[R.idx]] = 0
  BY SMT DEF IInv, ReaderTypes, ReaderInv, Looking, GetMiss
<1>2. /\ keys \in Seq(Keys) /\ Len(keys) = Len(R.keys)
      /\ \A j \in 1..Len(R.keys) : /\ j = R.n => keys[j] = R.keys[R.idx]
                                   /\ j # R.idx /\ j # R.n => keys[j] = R.keys[j]
  <2>1. R.keys[R.idx] \in Keys /\ R.keys[R.n] \in Keys
    BY <1>1, ElementOfSeq, SMT
  <2> HIDE DEF R
  <2> QED
    BY <1>1, <2>1, SMT DEF Swapped
<1>3. /\ rd' = [rd EXCEPT ![r] = [R EXCEPT !.keys = keys, !.n = R.n - 1]]
      /\ rd \in [Readers -> [pc : {"idle", "get", "mark", "unmark"}, keys : Seq(Keys),
                        vals : Seq(Values), idx : Nat, n : Nat, slot : Nat]]
  BY DEF GetMiss, IInv, ReaderTypes
<1>4. R.n - 1 \in Nat
  BY <1>1, SMT
<1>5. /\ rd'[r].pc = "get" /\ rd'[r].keys = keys /\ rd'[r].n = R.n - 1
      /\ rd'[r].idx = R.idx /\ rd'[r].vals = R.vals
  BY <1>1, <1>3
<1>6. ReaderTypes'
  BY <1>2, <1>3, <1>4, ZenonT(60) DEF ReaderTypes
<1>7. Looking(r)'
  BY <1>1, <1>2, <1>5, SMT DEF Looking
<1>8. Collecting(r)'
  <2>1. Content' = Content
    BY DEF GetMiss, cacheVars, Content
  <2>2. /\ Len(R.vals) = R.idx - 1
        /\ \A j \in 1..(R.idx - 1) : Content[R.keys[j]] = R.vals[j]
        /\ \A j \in (R.n + 1)..Len(R.keys) : Content[R.keys[j]] = Absent
    BY <1>1 DEF IInv, ReaderInv, Collecting
  <2>3. R.keys[R.idx] \in Keys
    BY <1>1, ElementOfSeq, SMT
  <2>4. Content[R.keys[R.idx]] = Absent
    BY <1>1, <2>3 DEF Content
  <2> HIDE DEF R, keys
  <2>5. ASSUME NEW j \in 1..(R.idx - 1) PROVE Content[keys[j]] = R.vals[j]
    <3>1. j \in 1..Len(R.keys) /\ j # R.idx /\ j # R.n
      BY <1>1, SMT
    <3> QED
      BY <1>2, <2>2, <3>1, Zenon
  <2>6. \A j \in R.n..Len(keys) : Content[keys[j]] = Absent
    BY <1>1, <1>2, <2>2, <2>4, SMT
  <2>7. (R.n - 1) + 1 = R.n
    BY <1>1, SMT
  <2> QED
    BY <1>5, <2>1, <2>2, <2>5, <2>6, <2>7 DEF Collecting
<1> QED
  BY <1>6, <1>7, <1>8 DEF ReaderInv

(* What Append does.                                                         *)
LEMMA AppendOne ==
  ASSUME NEW S, NEW s \in Seq(S), NEW e \in S
  PROVE  /\ Append(s, e) \in Seq(S) /\ Len(Append(s, e)) = Len(s) + 1
         /\ Append(s, e)[Len(s) + 1] = e
         /\ \A j \in 1..Len(s) : Append(s, e)[j] = s[j]
  BY AppendProperties, SMT

(* A key that is found takes the next place among the values.                *)
LEMMA OneMoreValue ==
  ASSUME IInv, SameEntries, NEW r \in Readers, rd[r].pc \in {"get", "mark"}, rd[r].idx <= rd[r].n,
         NEW slot \in Slots, elements[rd[r].keys[rd[r].idx]] = slot,
         rd'[r].pc = "get", rd'[r].keys = rd[r].keys, rd'[r].n = rd[r].n,
         rd'[r].idx = rd[r].idx + 1, rd'[r].vals = Append(rd[r].vals, storage[slot].value)
  PROVE  rd'[r].vals \in Seq(Values) /\ ReaderInv(r)'
<1> DEFINE R == rd[r]
           v == storage[slot].value
<1>1. /\ R.keys \in Seq(Keys) /\ R.vals \in Seq(Values) /\ R.n \in Nat /\ R.idx \in Nat
      /\ R.n <= Len(R.keys) /\ R.idx >= 1 /\ R.idx <= R.n
  BY SMT DEF IInv, ReaderTypes, ReaderInv, Looking
<1>2. /\ Len(R.vals) = R.idx - 1
      /\ \A j \in 1..(R.idx - 1) : Content[R.keys[j]] = R.vals[j]
      /\ \A j \in (R.n + 1)..Len(R.keys) : Content[R.keys[j]] = Absent
  BY DEF IInv, ReaderInv, Collecting
<1>3. v \in Values
  BY StoredEntries DEF IInv, CacheInv, Entry
<1>4. /\ rd'[r].vals \in Seq(Values) /\ Len(rd'[r].vals) = R.idx
      /\ rd'[r].vals[R.idx] = v
      /\ \A j \in 1..(R.idx - 1) : rd'[r].vals[j] = R.vals[j]
  <2>1. Len(R.vals) + 1 = R.idx
    BY <1>1, <1>2, SMT
  <2>2. rd'[r].vals = Append(R.vals, v)
    OBVIOUS
  <2> HIDE DEF v, R
  <2> QED
    BY <1>1, <1>2, <1>3, <2>1, <2>2, AppendOne
<1>5. R.keys[R.idx] \in Keys
  BY <1>1, ElementOfSeq, SMTT(60)
<1>6. slot # 0
  BY SMT DEF Slots
<1>7. Content[R.keys[R.idx]] = v
  BY <1>5, <1>6 DEF Content
<1>8. Content' = Content
  BY SameContent DEF IInv
<1>9. Looking(r)'
  BY <1>1, SMT DEF Looking
<1>10. ASSUME NEW j \in 1..R.idx PROVE Content[R.keys[j]] = rd'[r].vals[j]
  <2>1. CASE j = R.idx
    BY <1>4, <1>7, <2>1
  <2>2. CASE j # R.idx
    <3>1. j \in 1..(R.idx - 1)
      BY <1>1, <2>2, SMT
    <3> QED
      BY <1>2, <1>4, <3>1
  <2> QED
    BY <2>1, <2>2, Zenon
<1>11. (R.idx + 1) - 1 = R.idx
  BY <1>1, SMT
<1>12. Collecting(r)'
  BY <1>2, <1>4, <1>8, <1>10, <1>11 DEF Collecting
<1> QED
  BY <1>4, <1>9, <1>12 DEF ReaderInv

(* elements leads into storage.                                              *)
LEMMA FoundSlot ==
  ASSUME CacheInv, NEW k \in Keys, elements[k] # 0
  PROVE  elements[k] \in Slots
  BY Zenon DEF CacheInv, OneSlotPerKey

(* A key that is found, and whose mark is or is not set.                     *)
LEMMA GetHitInv ==
  ASSUME IInv, NEW r \in Readers, GetHit(r)
  PROVE  ReaderTypes' /\ ReaderInv(r)'
<1> DEFINE R == rd[r]
           slot == elements[R.keys[R.idx]]
<1>1. /\ R.keys \in Seq(Keys) /\ R.vals \in Seq(Values) /\ R.n \in Nat /\ R.idx \in Nat
      /\ R.pc = "get" /\ R.n <= Len(R.keys) /\ R.idx >= 1 /\ R.idx <= R.n
  <2>1. ReaderTypes /\ ReaderInv(r) /\ R.pc = "get" /\ R.idx <= R.n
    BY Zenon DEF IInv, GetHit
  <2>2. R.keys \in Seq(Keys) /\ R.vals \in Seq(Values) /\ R.n \in Nat /\ R.idx \in Nat
    BY <2>1, Zenon DEF ReaderTypes
  <2>3. R.n \in 0..Len(R.keys) /\ R.idx \in 1..(R.n + 1)
    BY <2>1, Zenon DEF ReaderInv, Looking
  <2> HIDE DEF R
  <2> QED BY <2>1, <2>2, <2>3
<1>2. R.keys[R.idx] \in Keys
  BY <1>1, ElementOfSeq, SMTT(60)
<1>3. slot \in Slots
  BY <1>2, FoundSlot, Zenon DEF IInv, GetHit
<1>4. SameEntries
  BY StoredEntries, NothingSame, Zenon DEF GetHit, cacheVars, IInv, CacheInv
<1>5. slot \in Nat /\ R.idx + 1 \in Nat
  BY <1>1, <1>3, SMTT(60) DEF Slots
<1>6. CASE storage[slot].used
  <2>1. rd' = [rd EXCEPT ![r] = [R EXCEPT !.vals = Append(R.vals, storage[slot].value),
                                          !.idx = R.idx + 1]]
    BY <1>6, Zenon DEF GetHit
  <2>2. /\ rd'[r].pc = "get" /\ rd'[r].keys = R.keys /\ rd'[r].n = R.n
        /\ rd'[r].idx = R.idx + 1 /\ rd'[r].vals = Append(R.vals, storage[slot].value)
    BY <1>1, <2>1, ZenonT(60) DEF IInv, ReaderTypes
  <2>3. rd'[r].vals \in Seq(Values) /\ ReaderInv(r)'
    BY <1>1, <1>3, <1>4, <2>2, OneMoreValue, ZenonT(60)
  <2>4. ReaderTypes'
    BY <1>5, <2>1, <2>2, <2>3, ZenonT(60) DEF IInv, ReaderTypes
  <2> QED
    BY <2>3, <2>4
<1>7. CASE ~storage[slot].used
  <2>1. rd' = [rd EXCEPT ![r] = [R EXCEPT !.pc = "mark", !.slot = slot]]
    BY <1>7, Zenon DEF GetHit
  <2>2. ReaderTypes'
    BY <1>5, <2>1, Zenon DEF IInv, ReaderTypes
  <2>3. /\ rd'[r].pc = "mark" /\ rd'[r].keys = R.keys /\ rd'[r].n = R.n
        /\ rd'[r].idx = R.idx /\ rd'[r].vals = R.vals /\ rd'[r].slot = slot
    BY <2>1 DEF IInv, ReaderTypes
  <2>4. Content' = Content /\ Slots' = Slots /\ elements' = elements
    BY <1>4, SameContent DEF IInv, SameEntries
  <2>5. Looking(r)'
    BY <1>1, <1>3, <2>3, <2>4 DEF Looking, IInv, ReaderInv
  <2>6. Collecting(r)'
    BY <1>1, <2>3, <2>4 DEF Collecting, IInv, ReaderInv
  <2> QED
    BY <2>2, <2>5, <2>6 DEF ReaderInv
<1> QED
  BY <1>6, <1>7, Zenon

(* The mark is set, and the value of the key is collected.                   *)
LEMMA GetMarkInv ==
  ASSUME IInv, NEW r \in Readers, GetMark(r)
  PROVE  SameEntries /\ ReaderTypes' /\ ReaderInv(r)'
<1> DEFINE R == rd[r]
<1>1. /\ R.keys \in Seq(Keys) /\ R.vals \in Seq(Values) /\ R.n \in Nat /\ R.idx \in Nat
      /\ R.pc = "mark" /\ R.idx <= R.n /\ R.slot \in Slots
      /\ elements[R.keys[R.idx]] = R.slot
  BY SMT DEF IInv, ReaderTypes, ReaderInv, Looking, Collecting, GetMark
<1>2. SameEntries
  BY <1>1, StoredEntries, MarkSame, Zenon DEF GetMark, IInv, CacheInv
<1>3. rd' = [rd EXCEPT ![r] = [R EXCEPT !.pc = "get", !.idx = R.idx + 1, !.slot = 0,
                                        !.vals = Append(R.vals, storage[R.slot].value)]]
  BY Zenon DEF GetMark
<1>4. /\ rd'[r].pc = "get" /\ rd'[r].keys = R.keys /\ rd'[r].n = R.n
      /\ rd'[r].idx = R.idx + 1 /\ rd'[r].vals = Append(R.vals, storage[R.slot].value)
  BY <1>3 DEF IInv, ReaderTypes
<1>5. rd'[r].vals \in Seq(Values) /\ ReaderInv(r)'
  BY <1>1, <1>2, <1>4, OneMoreValue, Zenon
<1>6. R.idx + 1 \in Nat
  BY <1>1, SMT
<1>7. ReaderTypes'
  BY <1>3, <1>4, <1>5, <1>6, ZenonT(60) DEF IInv, ReaderTypes
<1> QED
  BY <1>2, <1>5, <1>7

(* The state of an idle reader.                                              *)
LEMMA IdleReaderType ==
  IdleReader \in [pc : {"idle", "get", "mark", "unmark"}, keys : Seq(Keys),
                  vals : Seq(Values), idx : Nat, n : Nat, slot : Nat]
  BY EmptySeq DEF IdleReader

(* GetValues begins with every key before it.                                *)
LEMMA BeginGetInv ==
  ASSUME IInv, NEW r \in Readers, BeginGet(r)
  PROVE  ReaderTypes' /\ ReaderInv(r)'
<1>1. PICK ks \in GetBatches :
          rd' = [rd EXCEPT ![r] = [IdleReader EXCEPT !.pc = "get", !.keys = ks,
                                                     !.idx = 1, !.n = Len(ks)]]
  BY Zenon DEF BeginGet
<1>2. ks \in Seq(Keys) /\ Len(ks) \in Nat
  BY CacheAssumption, LenProperties
<1>3. ReaderTypes'
  BY <1>1, <1>2, EmptySeq, ZenonT(60) DEF IInv, ReaderTypes, IdleReader
<1>4. /\ rd'[r].pc = "get" /\ rd'[r].keys = ks /\ rd'[r].n = Len(ks)
      /\ rd'[r].idx = 1 /\ rd'[r].vals = <<>>
  BY <1>1 DEF IInv, ReaderTypes, IdleReader
<1>5. Looking(r)'
  BY <1>2, <1>4, SMT DEF Looking
<1>6. 1..(1 - 1) = {} /\ (Len(ks) + 1)..Len(ks) = {} /\ Len(<<>>) = 1 - 1
  BY <1>2, SMT
<1>7. Collecting(r)'
  BY <1>4, <1>6 DEF Collecting
<1> QED
  BY <1>3, <1>5, <1>7 DEF ReaderInv

(* unmark finds a slot of storage.                                           *)
LEMMA BeginUnmarkInv ==
  ASSUME IInv, NEW r \in Readers, BeginUnmark(r)
  PROVE  ReaderTypes' /\ ReaderInv(r)'
<1>1. PICK k \in Keys : /\ elements[k] # 0
                        /\ rd' = [rd EXCEPT ![r] = [rd[r] EXCEPT !.pc = "unmark",
                                                                 !.slot = elements[k]]]
  BY Zenon DEF BeginUnmark
<1>2. elements[k] \in Slots
  BY <1>1, FoundSlot DEF IInv
<1>3. elements[k] \in Nat
  BY <1>2, SMT DEF Slots
<1>4. ReaderTypes'
  BY <1>1, <1>3, ZenonT(60) DEF IInv, ReaderTypes
<1>5. rd'[r].pc = "unmark" /\ rd'[r].slot \in Slots
  BY <1>1, <1>2 DEF IInv, ReaderTypes
<1>6. Slots' = Slots
  BY DEF BeginUnmark, cacheVars, Slots
<1> QED
  BY <1>4, <1>5, <1>6 DEF ReaderInv, Looking, Collecting

(* Whatever a reader does preserves the invariant.                           *)
LEMMA ReaderStepInv ==
  ASSUME IInv, NEW r \in Readers, BeginGet(r) \/ BeginUnmark(r) \/ ReaderStep(r)
  PROVE  IInv'
<1> USE DEF cacheVars
<1>0. storage \in Seq(Entry)
  BY StoredEntries DEF IInv, CacheInv
<1>1. CASE GetMark(r)
  <2>1. rd[r].slot \in Slots
    BY <1>1 DEF GetMark, IInv, ReaderInv, Looking
  <2>2. \A s \in Slots : storage'[s].used => storage[s].used \/ s \in remarked'
    BY <1>0, <1>1, <2>1, MarkOne DEF GetMark
  <2>3. \A q \in Readers \ {r} : rd'[q] = rd[q]
    BY <1>1 DEF GetMark, IInv, ReaderTypes
  <2> QED
    BY <1>1, <2>2, <2>3, GetMarkInv, ReaderFrame, Zenon DEF GetMark
<1>2. CASE EndUnmark(r)
  <2>1. rd[r].slot \in Slots
    BY <1>2 DEF EndUnmark, IInv, ReaderInv, Looking
  <2>2. SameEntries
    BY <1>0, <1>2, <2>1, MarkSame, ZenonT(60) DEF EndUnmark
  <2>3. \A s \in Slots : storage'[s].used => storage[s].used
    BY <1>0, <1>2, <2>1, MarkOne DEF EndUnmark
  <2>4. ReaderTypes' /\ rd'[r].pc = "idle" /\ \A q \in Readers \ {r} : rd'[q] = rd[q]
    BY <1>2, IdleReaderType DEF EndUnmark, IInv, ReaderTypes, IdleReader
  <2> QED
    BY <1>2, <2>2, <2>3, <2>4, IdleReaderInv, ReaderFrame DEF EndUnmark
<1>3. CASE BeginGet(r) \/ BeginUnmark(r) \/ GetMiss(r) \/ GetHit(r) \/ EndGet(r)
  <2>1. UNCHANGED <<elements, storage, max, next, insertLock, wr, remarked>>
    BY <1>3, Zenon DEF BeginGet, BeginUnmark, GetMiss, GetHit, EndGet
  <2>2. \A q \in Readers \ {r} : rd'[q] = rd[q]
    BY <1>3, Zenon DEF BeginGet, BeginUnmark, GetMiss, GetHit, EndGet, IInv, ReaderTypes
  <2>3. EndGet(r) => ReaderTypes' /\ rd'[r].pc = "idle"
    BY IdleReaderType DEF EndGet, IInv, ReaderTypes, IdleReader
  <2>4. ReaderTypes' /\ ReaderInv(r)'
    BY <1>3, <2>3, BeginGetInv, BeginUnmarkInv, GetMissInv, GetHitInv, IdleReaderInv
  <2> QED
    BY <1>0, <2>1, <2>2, <2>4, NothingSame, ReaderFrame
<1> QED
  BY <1>1, <1>2, <1>3 DEF ReaderStep
-----------------------------------------------------------------------------
(* Writers.                                                                  *)

(* A writer works alone, and changes entries only when no reader is there.   *)
LEMMA WriterFrame ==
  ASSUME IInv, NEW w \in Writers, \A v \in Writers \ {w} : wr[v].pc = "idle" /\ wr'[v] = wr[v],
         rd' = rd, SameEntries \/ NoReaders, CacheInv', WriterTypes', WriterInv(w)'
  PROVE  IInv'
<1>1. ASSUME NEW v \in Writers PROVE WriterInv(v)'
  BY IdleWriterInv
<1>2. ASSUME NEW r \in Readers PROVE ReaderInv(r)'
  BY SameReader, IdleReaderInv DEF NoReaders, IInv
<1>3. ReaderTypes'
  BY DEF IInv, ReaderTypes
<1> QED
  BY <1>1, <1>2, <1>3 DEF IInv

(* The state of an idle writer.                                              *)
LEMMA IdleWriterType ==
  IdleWriter \in [pc : {"idle"} \cup Inserting \cup Expanding, batch : Seq(Item),
                  pos : Nat, at : Nat, slot : Nat, copied : Seq(Entry), newMax : 0..MaxCap]
<1>1. 0 \in Nat /\ 0 \in 0..MaxCap
  BY CacheAssumption, SMT
<1>2. <<>> \in Seq(Item) /\ <<>> \in Seq(Entry)
  BY EmptySeq
<1> QED
  BY <1>1, <1>2 DEF IdleWriter

(* The end of a call, and a call that begins: the cache stays as it is.      *)
LEMMA EndCallInv ==
  ASSUME IInv, NEW w \in Writers, EndInsert(w) \/ Starve(w)
  PROVE  IInv'
<1>1. /\ UNCHANGED <<elements, storage, max, next, rd>> /\ insertLock' = NoWriter
      /\ wr' = [wr EXCEPT ![w] = IdleWriter] /\ wr[w].pc # "idle"
  BY DEF EndInsert, Starve, cacheVars
<1>2. WriterTypes' /\ wr'[w].pc = "idle" /\ \A v \in Writers \ {w} : wr'[v] = wr[v]
  BY <1>1, IdleWriterType DEF IInv, WriterTypes, IdleWriter
<1>3. \A v \in Writers \ {w} : wr[v].pc = "idle"
  BY <1>1, Alone DEF IInv, CacheInv
<1>4. SameEntries
  BY <1>1, StoredEntries, NothingSame DEF IInv, CacheInv
<1>5. CacheTypeOK'
  BY <1>1, <1>2, <1>3, CacheAssumption DEF IInv, CacheInv, CacheTypeOK
<1> QED
  BY <1>1, <1>2, <1>3, <1>4, <1>5, SameContent, IdleWriterInv, WriterFrame DEF IInv, CacheInv

(* InsertBatch and ExpandTo begin when insertLock is free.                   *)
LEMMA BeginCallInv ==
  ASSUME IInv, NEW w \in Writers, BeginInsert(w) \/ BeginExpand(w)
  PROVE  IInv'
<1>1. /\ UNCHANGED <<elements, storage, max, next, rd>>
      /\ insertLock = NoWriter /\ insertLock' = w
  BY Zenon DEF BeginInsert, BeginExpand, cacheVars
<1>2. \A v \in Writers : wr[v].pc = "idle"
  BY <1>1, CacheAssumption DEF IInv, CacheInv, CacheTypeOK
<1>3. SameEntries
  BY <1>1, StoredEntries, NothingSame DEF IInv, CacheInv
<1>4. /\ WriterTypes' /\ wr'[w].pc # "idle" /\ \A v \in Writers \ {w} : wr'[v] = wr[v]
      /\ WriterInv(w)'
  <2>1. CASE BeginInsert(w)
    <3>1. PICK b \in InsertBatches :
            wr' = [wr EXCEPT ![w] = [IdleWriter EXCEPT !.pc = "insert", !.batch = b, !.pos = 1]]
      BY <2>1, Zenon DEF BeginInsert
    <3>2. b \in Seq(Item) /\ Len(b) \in Nat
      BY CacheAssumption, LenProperties, Zenon DEF Item
    <3>3. WriterTypes' /\ \A v \in Writers \ {w} : wr'[v] = wr[v]
      BY <3>1, <3>2, IdleWriterType, Zenon DEF IInv, WriterTypes, IdleWriter, Inserting
    <3>4. wr'[w].pc = "insert" /\ wr'[w].batch = b /\ wr'[w].pos = 1
      BY <3>1 DEF IInv, WriterTypes, IdleWriter
    <3>5. 1 \in 1..(Len(b) + 1) /\ ~(1 > 1)
      BY <3>2, SMT
    <3>6. WriterInv(w)'
      BY <3>4, <3>5 DEF WriterInv, Deciding, Answering, Copying, Sweeping, Inserting, Expanding
    <3> QED
      BY <3>3, <3>4, <3>6, Zenon
  <2>2. CASE BeginExpand(w)
    <3>1. PICK newMax \in 0..MaxCap : /\ newMax > max
             /\ wr' = [wr EXCEPT ![w] = [IdleWriter EXCEPT !.pc = "copy", !.newMax = newMax]]
      BY <2>2, Zenon DEF BeginExpand
    <3>2. WriterTypes' /\ \A v \in Writers \ {w} : wr'[v] = wr[v]
      BY <3>1, IdleWriterType, Zenon DEF IInv, WriterTypes, IdleWriter, Expanding
    <3>3. wr'[w].pc = "copy" /\ wr'[w].copied = <<>> /\ wr'[w].newMax = newMax
      BY <3>1 DEF IInv, WriterTypes, IdleWriter
    <3>4. Len(<<>>) <= Len(storage) /\ 1..Len(<<>>) = {}
      BY StoredEntries, SMT DEF IInv, CacheInv
    <3>5. WriterInv(w)'
      BY <1>1, <3>1, <3>3, <3>4
         DEF WriterInv, Deciding, Answering, Copying, Sweeping, Inserting, Expanding
    <3> QED
      BY <3>2, <3>3, <3>5, Zenon
  <2> QED
    BY <2>1, <2>2
<1>5. CacheTypeOK'
  BY <1>1, <1>2, <1>4 DEF IInv, CacheInv, CacheTypeOK
<1> QED
  BY <1>1, <1>2, <1>3, <1>4, <1>5, SameContent, WriterFrame, Zenon DEF IInv, CacheInv

(* What is known of a writer in the middle of a call.                        *)
LEMMA Working ==
  ASSUME IInv, NEW w \in Writers, wr[w].pc # "idle"
  PROVE  /\ wr[w].batch \in Seq(Item) /\ Len(wr[w].batch) \in Nat
         /\ wr[w].pos \in Nat /\ wr[w].at \in Nat /\ wr[w].slot \in Nat
         /\ wr[w].copied \in Seq(Entry) /\ wr[w].newMax \in 0..MaxCap
         /\ \A v \in Writers \ {w} : wr[v].pc = "idle"
         /\ insertLock = w
         /\ wr[w].pc \in Inserting /\ wr[w].pos <= Len(wr[w].batch) =>
                Current(w) \in Item /\ wr[w].pos \in 1..Len(wr[w].batch)
<1>1. wr[w].batch \in Seq(Item)
  BY DEF IInv, WriterTypes
<1>2. ASSUME wr[w].pc \in Inserting, wr[w].pos <= Len(wr[w].batch)
      PROVE  Current(w) \in Item /\ wr[w].pos \in 1..Len(wr[w].batch)
  <2>1. wr[w].pos \in 1..(Len(wr[w].batch) + 1)
    BY <1>2 DEF IInv, WriterInv, Deciding
  <2>2. wr[w].pos \in 1..Len(wr[w].batch)
    BY <1>1, <1>2, <2>1, LenProperties, SMT
  <2> QED
    BY <1>1, <2>2, ElementOfSeq DEF Current
<1>3. Len(wr[w].batch) \in Nat
  BY <1>1, LenProperties
<1> QED
  BY <1>1, <1>2, <1>3, Alone DEF IInv, WriterTypes, CacheInv, CacheTypeOK

(* Steps of a call that change no entry and end no call.                     *)
LEMMA WorkingFrame ==
  ASSUME IInv, NEW w \in Writers, wr[w].pc # "idle", SameEntries,
         UNCHANGED <<insertLock, rd>>, next' \in 0..Len(storage),
         WriterTypes', wr'[w].pc # "idle", \A v \in Writers \ {w} : wr'[v] = wr[v],
         WriterInv(w)'
  PROVE  IInv'
<1>1. CacheTypeOK'
  BY Working DEF IInv, CacheInv, CacheTypeOK, SameEntries, Entry
<1> QED
  BY <1>1, Working, SameContent, WriterFrame DEF IInv, CacheInv

(* A present key: the caller gets the value of its slot.                     *)
LEMMA InsertPresentInv ==
  ASSUME IInv, NEW w \in Writers, InsertPresent(w)
  PROVE  IInv'
<1> DEFINE W == wr[w]
           e == Current(w)
           slot == elements[e.key]
           v == storage[slot].value
           batch == [W.batch EXCEPT ![W.pos] = [e EXCEPT !.value = v]]
           used == storage[slot].used
<1>1. W.pc = "insert" /\ W.pos <= Len(W.batch) /\ slot # 0
  BY DEF InsertPresent
<1>2. /\ e \in Item /\ W.pos \in 1..Len(W.batch) /\ W.batch \in Seq(Item)
      /\ Len(W.batch) \in Nat /\ W.pos \in Nat
  BY <1>1, Working DEF Inserting
<1>3. slot \in Slots
  BY <1>1, <1>2, FoundSlot DEF IInv, Item
<1>4. v \in Values
  BY <1>3, StoredEntries DEF IInv, CacheInv, Entry
<1>5. /\ batch \in Seq(Item) /\ Len(batch) = Len(W.batch)
      /\ batch[W.pos].key = e.key /\ batch[W.pos].value = v
  <2>1. [e EXCEPT !.value = v] \in Item
    BY <1>2, <1>4 DEF Item
  <2>2. [e EXCEPT !.value = v].key = e.key /\ [e EXCEPT !.value = v].value = v
    BY <1>2 DEF Item
  <2>3. DOMAIN W.batch = 1..Len(W.batch)
    BY <1>2, LenProperties, Zenon
  <2> HIDE DEF e, v, W
  <2> QED
    BY <1>2, <2>1, <2>2, <2>3, ExceptSeq
<1>6. wr' = [wr EXCEPT ![w] = [W EXCEPT !.batch = batch, !.slot = slot,
                                        !.pos = IF used THEN W.pos ELSE W.pos + 1,
                                        !.pc = IF used THEN "touch" ELSE "insert"]]
  BY Zenon DEF InsertPresent, CanonicalValue, Current
<1>7. slot \in Nat /\ W.pos + 1 \in Nat /\ (W.pos + 1) - 1 = W.pos
      /\ W.pos \in 1..(Len(W.batch) + 1) /\ W.pos + 1 \in 1..(Len(W.batch) + 1)
  BY <1>2, <1>3, SMTT(60) DEF Slots
<1> HIDE DEF batch, used
<1>8. WriterTypes' /\ \A u \in Writers \ {w} : wr'[u] = wr[u]
  BY <1>5, <1>6, <1>7, ZenonT(60) DEF IInv, WriterTypes, Inserting
<1>9. /\ wr'[w].batch = batch /\ wr'[w].slot = slot
      /\ wr'[w].pos = IF used THEN W.pos ELSE W.pos + 1
      /\ wr'[w].pc = IF used THEN "touch" ELSE "insert"
  BY <1>6 DEF IInv, WriterTypes
<1>10. SameEntries /\ UNCHANGED <<insertLock, rd, next>>
  BY StoredEntries, NothingSame DEF IInv, CacheInv, InsertPresent, cacheVars
<1>11. Content' = Content /\ Slots' = Slots
  BY <1>10, SameContent DEF IInv
<1>12. Content[e.key] = v
  BY <1>1, <1>2 DEF Content, Item
<1>13. Deciding(w)'
  BY <1>1, <1>3, <1>5, <1>7, <1>9, <1>11 DEF Deciding, Inserting
<1>14. Answering(w)'
  BY <1>5, <1>7, <1>9, <1>11, <1>12, Zenon DEF Answering, Current
<1>15. Copying(w)' /\ Sweeping(w)'
  BY <1>9 DEF Copying, Sweeping, Expanding
<1>16. next' \in 0..Len(storage)
  BY <1>10 DEF IInv, CacheInv, CacheTypeOK
<1> QED
  BY <1>1, <1>8, <1>9, <1>10, <1>13, <1>14, <1>15, <1>16, WorkingFrame, Zenon DEF WriterInv

(* The mark of a present key is stored.                                      *)
LEMMA InsertTouchInv ==
  ASSUME IInv, NEW w \in Writers, InsertTouch(w)
  PROVE  IInv'
<1> DEFINE W == wr[w]
<1>1. /\ W.pc = "touch" /\ W.pos <= Len(W.batch) /\ W.slot \in Slots
      /\ Content[Current(w).key] = Current(w).value
  BY DEF InsertTouch, IInv, WriterInv, Deciding, Answering, Inserting
<1>2. W.pos \in 1..Len(W.batch) /\ Len(W.batch) \in Nat
  BY <1>1, Working DEF Inserting
<1>3. W.pos + 1 \in Nat /\ (W.pos + 1) - 1 = W.pos /\ W.pos + 1 \in 1..(Len(W.batch) + 1)
  BY <1>2, SMT
<1>4. wr' = [wr EXCEPT ![w] = [W EXCEPT !.pc = "insert", !.pos = W.pos + 1]]
  BY Zenon DEF InsertTouch
<1>5. WriterTypes' /\ \A u \in Writers \ {w} : wr'[u] = wr[u]
  BY <1>3, <1>4, ZenonT(60) DEF IInv, WriterTypes, Inserting
<1>6. wr'[w].batch = W.batch /\ wr'[w].pos = W.pos + 1 /\ wr'[w].pc = "insert"
  BY <1>4 DEF IInv, WriterTypes
<1>7. SameEntries /\ UNCHANGED <<insertLock, rd, next>>
  BY <1>1, StoredEntries, MarkSame, Zenon DEF IInv, CacheInv, InsertTouch
<1>8. Content' = Content
  BY <1>7, SameContent DEF IInv
<1>9. WriterInv(w)'
  BY <1>1, <1>3, <1>6, <1>8
     DEF WriterInv, Deciding, Answering, Copying, Sweeping, Inserting, Expanding, Current
<1>10. next' \in 0..Len(storage)
  BY <1>7 DEF IInv, CacheInv, CacheTypeOK
<1> QED
  BY <1>1, <1>5, <1>6, <1>7, <1>9, <1>10, WorkingFrame

(* The sweep begins with no slot passed.                                     *)
LEMMA InsertAbsentInv ==
  ASSUME IInv, NEW w \in Writers, InsertAbsent(w)
  PROVE  IInv'
<1> DEFINE W == wr[w]
<1>1. W.pc = "insert" /\ W.pos <= Len(W.batch) /\ elements[Current(w).key] = 0
  BY DEF InsertAbsent
<1>2. W.pos \in 1..(Len(W.batch) + 1)
  BY <1>1 DEF IInv, WriterInv, Deciding, Inserting
<1>3. SameEntries /\ UNCHANGED <<elements, storage, max, insertLock, rd, next>>
  BY StoredEntries, NothingSame DEF IInv, CacheInv, InsertAbsent, cacheVars
<1>4. Slots' = Slots /\ Len(storage') = Len(storage)
  BY <1>3, SameContent DEF IInv, SameEntries
<1>5. next' \in 0..Len(storage)
  BY <1>3 DEF IInv, CacheInv, CacheTypeOK
<1>6. CASE Full
  <2>1. wr' = [wr EXCEPT ![w] = [W EXCEPT !.pc = "sweep", !.at = 0]]
    BY <1>6, Zenon DEF InsertAbsent
  <2>2. WriterTypes' /\ \A u \in Writers \ {w} : wr'[u] = wr[u]
    BY <2>1, ZenonT(60) DEF IInv, WriterTypes, Inserting
  <2>3. /\ wr'[w].batch = W.batch /\ wr'[w].pos = W.pos /\ wr'[w].pc = "sweep"
        /\ wr'[w].at = 0
    BY <2>1 DEF IInv, WriterTypes
  <2>4. Len(storage) = max
    BY <1>6, StoredEntries, SMT DEF Full, IInv, CacheInv, OneSlotPerKey, CacheTypeOK
  <2>5. Deciding(w)' /\ Answering(w)' /\ Copying(w)'
    BY <1>1, <1>2, <1>3, <2>3, <2>4, Zenon
       DEF Deciding, Answering, Copying, Inserting, Expanding, Current
  <2>6. \A s \in Slots : ~(Turn(s)' < 0) /\ ~(Turn(s)' + Len(storage') < 0)
    BY <1>3, StoredEntries, SMT DEF Turn, Slots, IInv, CacheInv, CacheTypeOK
  <2>7. Sweeping(w)'
    BY <1>4, <2>3, <2>6 DEF Sweeping
  <2> QED
    BY <1>1, <1>3, <1>5, <2>2, <2>3, <2>5, <2>7, WorkingFrame DEF WriterInv
<1>7. CASE ~Full
  <2>1. wr' = [wr EXCEPT ![w] = [W EXCEPT !.pc = "append"]]
    BY <1>7 DEF InsertAbsent
  <2>2. WriterTypes' /\ \A u \in Writers \ {w} : wr'[u] = wr[u]
    BY <2>1, Zenon DEF IInv, WriterTypes, Inserting
  <2>3. wr'[w].batch = W.batch /\ wr'[w].pos = W.pos /\ wr'[w].pc = "append"
    BY <2>1 DEF IInv, WriterTypes
  <2>4. Len(storage) < max
    BY <1>7, StoredEntries, SMT DEF Full, IInv, CacheInv, CacheTypeOK
  <2>5. WriterInv(w)'
    BY <1>1, <1>2, <1>3, <2>3, <2>4
       DEF WriterInv, Deciding, Answering, Copying, Sweeping, Inserting, Expanding, Current
  <2> QED
    BY <1>1, <1>3, <1>5, <2>2, <2>3, <2>5, WorkingFrame
<1> QED
  BY <1>6, <1>7

(* One swap of evict: the slot is passed, or chosen with its mark clear.     *)
LEMMA SweepInv ==
  ASSUME IInv, NEW w \in Writers, Sweep(w)
  PROVE  IInv'
<1> DEFINE W == wr[w]
           at == W.at
           loc == SweepLoc(at)
           n == Len(storage)
<1>1. /\ W.pc = "sweep" /\ at < SweepLength /\ at \in Nat
      /\ storage' = [storage EXCEPT ![loc + 1].used = FALSE]
      /\ UNCHANGED <<elements, max, insertLock, rd, remarked>>
  BY Working DEF Sweep
<1>2. /\ loc + 1 \in Slots
      /\ HandAfter(loc) \in 0..n
      /\ \A s \in Slots : Turn(s) = at \/ Turn(s) + n = at <=> s = loc + 1
  BY <1>1, SweepVisits DEF IInv, CacheInv
<1>3. storage \in Seq(Entry) /\ n \in Nat
  BY StoredEntries DEF IInv, CacheInv
<1> HIDE DEF loc
<1>4. SameEntries
  BY <1>1, <1>2, <1>3, MarkSame, Zenon
<1>5. Slots' = Slots /\ Len(storage') = n
  BY <1>4, SameContent DEF IInv, SameEntries
<1>6. /\ W.pos \in 1..(Len(W.batch) + 1) /\ W.pos <= Len(W.batch)
      /\ elements[Current(w).key] = 0 /\ Len(storage) = max
  BY <1>1 DEF IInv, WriterInv, Deciding, Inserting
<1>7. CASE storage[loc + 1].used
  <2>1. wr' = [wr EXCEPT ![w] = [W EXCEPT !.at = at + 1]] /\ next' = next
    BY <1>7 DEF Sweep, SweepStep, loc
  <2>2. at + 1 \in Nat
    BY <1>1, SMT
  <2>3. WriterTypes' /\ \A u \in Writers \ {w} : wr'[u] = wr[u]
    BY <2>1, <2>2, Zenon DEF IInv, WriterTypes
  <2>4. /\ wr'[w].batch = W.batch /\ wr'[w].pos = W.pos /\ wr'[w].pc = "sweep"
        /\ wr'[w].at = at + 1
    BY <1>1, <2>1 DEF IInv, WriterTypes
  <2>5. Deciding(w)' /\ Answering(w)' /\ Copying(w)'
    BY <1>1, <1>4, <1>6, <2>4
       DEF Deciding, Answering, Copying, Inserting, Expanding, Current, SameEntries
  <2>6. ASSUME NEW s \in Slots
        PROVE  /\ Turn(s) < at + 1 /\ storage'[s].used => s \in remarked
               /\ Turn(s) + n < at + 1 => s \in remarked
    <3>1. /\ Turn(s) < at /\ storage[s].used => s \in remarked
          /\ Turn(s) + n < at => s \in remarked
      BY <1>1 DEF IInv, WriterInv, Sweeping
    <3>2. Turn(s) \in Int /\ Turn(s) + n \in Int /\ n > 0
      BY <1>3, SMTT(60) DEF Turn, Slots, IInv, CacheInv, CacheTypeOK
    <3>3. CASE s = loc + 1
      <4>1. ~storage'[s].used
        BY <1>1, <1>2, <1>3, <3>3, MarkOne, Zenon
      <4>2. Turn(s) + n < at + 1 => Turn(s) < at
        BY <1>1, <1>3, <3>2, SMT
      <4> QED
        BY <1>7, <3>1, <3>3, <4>1, <4>2
    <3>4. CASE s # loc + 1
      <4>1. Turn(s) # at /\ Turn(s) + n # at
        BY <1>2, <3>4
      <4>2. /\ Turn(s) < at + 1 => Turn(s) < at
            /\ Turn(s) + n < at + 1 => Turn(s) + n < at
        BY <1>1, <3>2, <4>1, SMT
      <4>3. storage'[s] = storage[s]
        BY <1>1, <1>2, <1>3, <3>4, MarkOne
      <4> QED
        BY <3>1, <4>2, <4>3
    <3> QED
      BY <3>3, <3>4
  <2>7. \A s \in Slots : Turn(s)' = Turn(s)
    BY <1>5, <2>1 DEF Turn
  <2>8. Sweeping(w)'
    BY <1>1, <1>5, <2>4, <2>6, <2>7 DEF Sweeping
  <2>9. next' \in 0..Len(storage)
    BY <2>1 DEF IInv, CacheInv, CacheTypeOK
  <2> QED
    BY <1>1, <1>4, <2>3, <2>4, <2>5, <2>8, <2>9, WorkingFrame DEF WriterInv
<1>8. CASE ~storage[loc + 1].used
  <2>1. wr' = [wr EXCEPT ![w] = [W EXCEPT !.pc = "replace", !.slot = loc + 1]]
        /\ next' = HandAfter(loc)
    BY <1>8, Zenon DEF Sweep, loc
  <2>2. loc + 1 \in Nat
    BY <1>2, SMT DEF Slots
  <2>3. WriterTypes' /\ \A u \in Writers \ {w} : wr'[u] = wr[u]
    BY <2>1, <2>2, ZenonT(60) DEF IInv, WriterTypes, Inserting
  <2>4. /\ wr'[w].batch = W.batch /\ wr'[w].pos = W.pos /\ wr'[w].pc = "replace"
        /\ wr'[w].slot = loc + 1
    BY <2>1 DEF IInv, WriterTypes
  <2>5. WriterInv(w)'
    BY <1>1, <1>2, <1>4, <1>5, <1>6, <2>4
       DEF WriterInv, Deciding, Answering, Copying, Sweeping, Inserting, Expanding, Current,
           SameEntries
  <2>6. next' \in 0..Len(storage)
    BY <1>2, <2>1
  <2> QED
    BY <1>1, <1>4, <2>3, <2>4, <2>5, <2>6, WorkingFrame
<1> QED
  BY <1>7, <1>8

(* ExpandTo copies one more slot, or has copied all.                         *)
LEMMA ExpandCopyInv ==
  ASSUME IInv, NEW w \in Writers, ExpandCopy(w)
  PROVE  IInv'
<1> DEFINE W == wr[w]
           n == Len(W.copied)
<1>1. /\ W.pc = "copy" /\ W.newMax > max /\ n <= Len(storage)
      /\ \A i \in 1..n : W.copied[i].key = storage[i].key /\ W.copied[i].value = storage[i].value
  BY DEF ExpandCopy, IInv, WriterInv, Copying, Expanding
<1>2. W.copied \in Seq(Entry) /\ n \in Nat /\ Len(storage) \in Nat
  BY <1>1, Working, LenProperties, StoredEntries DEF IInv, CacheInv
<1>3. SameEntries /\ UNCHANGED <<elements, storage, max, insertLock, rd, next>>
  BY StoredEntries, NothingSame DEF IInv, CacheInv, ExpandCopy, cacheVars
<1>4. next' \in 0..Len(storage)
  BY <1>3 DEF IInv, CacheInv, CacheTypeOK
<1>5. CASE n < Len(storage)
  <2> DEFINE copied == Append(W.copied, storage[n + 1])
  <2>1. wr' = [wr EXCEPT ![w] = [W EXCEPT !.copied = copied]]
    BY <1>5 DEF ExpandCopy
  <2>2. n + 1 \in Slots /\ n + 1 <= Len(storage)
    BY <1>2, <1>5, SMT DEF Slots
  <2>3. /\ copied \in Seq(Entry) /\ Len(copied) = n + 1 /\ copied[n + 1] = storage[n + 1]
        /\ \A i \in 1..n : copied[i] = W.copied[i]
    BY <1>2, <2>2, AppendOne, StoredEntries DEF IInv, CacheInv
  <2> HIDE DEF copied
  <2>4. WriterTypes' /\ \A u \in Writers \ {w} : wr'[u] = wr[u]
    BY <2>1, <2>3, Zenon DEF IInv, WriterTypes
  <2>5. wr'[w].pc = "copy" /\ wr'[w].copied = copied /\ wr'[w].newMax = W.newMax
    BY <1>1, <2>1 DEF IInv, WriterTypes
  <2>6. \A i \in 1..(n + 1) : i = n + 1 \/ i \in 1..n
    BY <1>2, SMT
  <2>7. \A i \in 1..(n + 1) : copied[i].key = storage[i].key /\ copied[i].value = storage[i].value
    BY <1>1, <2>3, <2>6, Zenon
  <2>8. WriterInv(w)'
    BY <1>1, <1>3, <2>2, <2>3, <2>5, <2>7, Zenon
       DEF WriterInv, Deciding, Answering, Copying, Sweeping, Inserting, Expanding
  <2> QED
    BY <1>1, <1>3, <1>4, <2>4, <2>5, <2>8, WorkingFrame
<1>6. CASE ~(n < Len(storage))
  <2>1. wr' = [wr EXCEPT ![w] = [W EXCEPT !.pc = "swapin"]]
    BY <1>6 DEF ExpandCopy
  <2>2. n = Len(storage)
    BY <1>1, <1>2, <1>6, SMT
  <2>3. WriterTypes' /\ \A u \in Writers \ {w} : wr'[u] = wr[u]
    BY <2>1, Zenon DEF IInv, WriterTypes, Expanding
  <2>4. wr'[w].pc = "swapin" /\ wr'[w].copied = W.copied /\ wr'[w].newMax = W.newMax
    BY <2>1 DEF IInv, WriterTypes
  <2>5. WriterInv(w)'
    BY <1>1, <1>3, <2>2, <2>4
       DEF WriterInv, Deciding, Answering, Copying, Sweeping, Inserting, Expanding
  <2> QED
    BY <1>1, <1>3, <1>4, <2>3, <2>4, <2>5, WorkingFrame
<1> QED
  BY <1>5, <1>6
-----------------------------------------------------------------------------
(* The three steps that change entries, and what they do to the content.     *)

(* A key that was absent gets a slot of its own.                             *)
LEMMA AppendChanges ==
  ASSUME IInv, NEW w \in Writers, Append_(w)
  PROVE  /\ CacheInv' /\ Current(w) \in Item /\ Content[Current(w).key] = Absent
         /\ Len(storage) < max /\ Len(storage') = Len(storage) + 1 /\ max' = max
         /\ Content' = [Content EXCEPT ![Current(w).key] = Current(w).value]
<1> DEFINE W == wr[w]
           e == Current(w)
           n == Len(storage)
           new == Elem(e.key, e.value, FALSE)
<1>1. /\ W.pc = "append" /\ W.pos <= Len(W.batch) /\ elements[e.key] = 0 /\ n < max
  BY DEF Append_, IInv, WriterInv, Deciding, Inserting
<1>2. e \in Item /\ insertLock = w /\ \A v \in Writers \ {w} : wr[v].pc = "idle"
  BY <1>1, Working DEF Inserting
<1>3. /\ storage \in Seq(Entry) /\ n \in Nat
      /\ \A i \in Slots : storage[i] \in Entry
  BY StoredEntries DEF IInv, CacheInv
<1>4. /\ new \in Entry /\ new.key = e.key /\ new.value = e.value
      /\ e.key \in Keys /\ e.value \in Values
  BY <1>2 DEF Elem, Entry, Item
<1>5. /\ storage' \in Seq(Entry) /\ Len(storage') = n + 1 /\ storage'[n + 1] = new
      /\ \A i \in Slots : storage'[i] = storage[i]
  <2>1. storage' = Append(storage, new)
    BY DEF Append_
  <2> HIDE DEF new
  <2> QED
    BY <1>3, <1>4, <2>1, AppendOne DEF Slots
<1>6. /\ elements' = [elements EXCEPT ![e.key] = n + 1]
      /\ wr' = [wr EXCEPT ![w] = [W EXCEPT !.pc = "insert", !.pos = W.pos + 1]]
      /\ UNCHANGED <<max, next, insertLock, rd>>
  BY Zenon DEF Append_
<1>7. elements \in [Keys -> 0..MaxCap] /\ max \in 0..MaxCap /\ MaxCap \in Nat /\ next \in 0..n
  BY CacheAssumption DEF IInv, CacheInv, CacheTypeOK
<1>8. /\ n + 1 \in 0..MaxCap /\ n + 1 <= max /\ next \in 0..(n + 1) /\ n + 1 # 0
      /\ \A i \in 1..(n + 1) : i = n + 1 \/ i \in Slots
      /\ n + 1 \in 1..(n + 1) /\ \A i \in Slots : i \in 1..(n + 1) /\ i # 0
  BY <1>1, <1>3, <1>7, SMT DEF Slots
<1>9. \A k \in Keys : /\ k # e.key => elements'[k] = elements[k]
                      /\ elements'[e.key] = n + 1
  BY <1>4, <1>6, <1>7
<1>10. \A i \in Slots : /\ elements[storage[i].key] = i
                        /\ storage[i].key # e.key /\ storage[i].key \in Keys
  BY <1>1, <1>3, <1>8 DEF IInv, CacheInv, OneSlotPerKey, Entry
<1>11. \A k \in Keys : elements[k] # 0 => elements[k] \in Slots /\ storage[elements[k]].key = k
  BY DEF IInv, CacheInv, OneSlotPerKey
<1> HIDE DEF new, n, e
<1>12. CacheTypeOK'
  <2>1. elements' \in [Keys -> 0..MaxCap]
    BY <1>6, <1>7, <1>8, Zenon
  <2>2. \A v \in Writers : (wr'[v].pc # "idle") <=> (insertLock' = v)
    BY <1>2, <1>6 DEF IInv, WriterTypes
  <2> QED
    BY <1>2, <1>5, <1>6, <1>7, <1>8, <2>1, <2>2 DEF CacheTypeOK, Entry
<1>13. OneSlotPerKey'
  <2>1. Slots' = 1..(n + 1)
    BY <1>5 DEF Slots
  <2>2. \A k \in Keys : elements'[k] # 0 => /\ elements'[k] \in Slots'
                                            /\ storage'[elements'[k]].key = k
    BY <1>4, <1>5, <1>8, <1>9, <1>11, <2>1
  <2>3. \A i \in Slots' : elements'[storage'[i].key] = i
    BY <1>4, <1>5, <1>8, <1>9, <1>10, <2>1
  <2> QED
    BY <1>5, <1>6, <1>8, <2>2, <2>3 DEF OneSlotPerKey
<1>14. Content' = [Content EXCEPT ![e.key] = e.value]
  <2>1. Content'[e.key] = e.value
    BY <1>4, <1>5, <1>8, <1>9 DEF Content
  <2>2. \A k \in Keys : k # e.key => Content'[k] = Content[k]
    BY <1>5, <1>9, <1>11 DEF Content
  <2> QED
    BY <1>4, <2>1, <2>2, Zenon DEF Content
<1>15. Content[e.key] = Absent
  BY <1>1, <1>4 DEF Content, e
<1> QED
  BY <1>1, <1>2, <1>5, <1>6, <1>12, <1>13, <1>14, <1>15 DEF CacheInv, e, n

(* A key that was absent gets the slot of another one, in a full cache.      *)
LEMMA ReplaceChanges ==
  ASSUME IInv, NEW w \in Writers, Replace(w)
  PROVE  /\ CacheInv' /\ Current(w) \in Item /\ Content[Current(w).key] = Absent
         /\ Len(storage) = max /\ Len(storage') = Len(storage) /\ max' = max
         /\ \E victim \in Keys :
               /\ Content[victim] # Absent /\ victim # Current(w).key
               /\ Content' = [Content EXCEPT ![Current(w).key] = Current(w).value,
                                             ![victim] = Absent]
<1> DEFINE W == wr[w]
           e == Current(w)
           slot == W.slot
           new == Elem(e.key, e.value, FALSE)
           victim == storage[slot].key
<1>1. /\ W.pc = "replace" /\ W.pos <= Len(W.batch) /\ elements[e.key] = 0
      /\ slot \in Slots /\ Len(storage) = max
  BY DEF Replace, IInv, WriterInv, Deciding, Inserting
<1>2. e \in Item /\ insertLock = w /\ \A v \in Writers \ {w} : wr[v].pc = "idle"
  BY <1>1, Working DEF Inserting
<1>3. /\ storage \in Seq(Entry) /\ \A i \in Slots : storage[i] \in Entry
      /\ \A i \in Slots : i # 0
  BY StoredEntries, SMT DEF IInv, CacheInv, Slots
<1>4. /\ new \in Entry /\ new.key = e.key /\ new.value = e.value
      /\ e.key \in Keys /\ e.value \in Values
  BY <1>2 DEF Elem, Entry, Item
<1>5. /\ storage' \in Seq(Entry) /\ Len(storage') = Len(storage) /\ storage'[slot] = new
      /\ \A i \in Slots : i # slot => storage'[i] = storage[i]
  <2>1. storage' = [storage EXCEPT ![slot] = new]
    BY DEF Replace
  <2>2. DOMAIN storage = Slots
    BY <1>3, LenProperties DEF Slots
  <2> HIDE DEF new, slot
  <2> QED
    BY <1>1, <1>3, <1>4, <2>1, <2>2, ExceptSeq DEF Slots
<1>6. /\ elements' = [elements EXCEPT ![victim] = 0, ![e.key] = slot]
      /\ wr' = [wr EXCEPT ![w] = [W EXCEPT !.pc = "insert", !.pos = W.pos + 1]]
      /\ UNCHANGED <<max, next, insertLock, rd>>
  BY Zenon DEF Replace, Moved
<1>7. /\ elements \in [Keys -> 0..MaxCap]
      /\ \A k \in Keys : elements[k] # 0 => elements[k] \in Slots /\ storage[elements[k]].key = k
      /\ \A i \in Slots : elements[storage[i].key] = i
      /\ Len(storage) <= max
  BY DEF IInv, CacheInv, CacheTypeOK, OneSlotPerKey
<1>8. /\ victim \in Keys /\ elements[victim] = slot /\ victim # e.key
      /\ storage[slot].value \in Values
  BY <1>1, <1>3, <1>7 DEF Entry
<1> HIDE DEF new, e, slot, victim
<1>9. \A k \in Keys : /\ k # e.key /\ k # victim => elements'[k] = elements[k]
                      /\ elements'[e.key] = slot /\ elements'[victim] = 0
  BY <1>4, <1>6, <1>7, <1>8
<1>10. Slots' = Slots
  BY <1>5 DEF Slots
<1>11. \A k \in Keys : k # victim => elements[k] # slot
  BY <1>1, <1>3, <1>7 DEF victim
<1>12. \A i \in Slots : i # slot => storage[i].key # e.key /\ storage[i].key # victim
                                    /\ storage[i].key \in Keys
  BY <1>1, <1>3, <1>7, <1>8 DEF Entry, e
<1>13. CacheTypeOK'
  <2>1. elements' \in [Keys -> 0..MaxCap]
    <3>1. slot \in 0..MaxCap /\ 0 \in 0..MaxCap
      BY <1>7, <1>8, CacheAssumption, SMT
    <3> QED
      BY <1>6, <1>7, <3>1, Zenon
  <2>2. \A v \in Writers : (wr'[v].pc # "idle") <=> (insertLock' = v)
    BY <1>2, <1>6 DEF IInv, WriterTypes
  <2> QED
    BY <1>2, <1>5, <1>6, <2>1, <2>2, Zenon DEF IInv, CacheInv, CacheTypeOK, Entry
<1>14. OneSlotPerKey'
  <2>1. ASSUME NEW k \in Keys, elements'[k] # 0
        PROVE  elements'[k] \in Slots' /\ storage'[elements'[k]].key = k
    <3>1. CASE k = e.key
      BY <1>1, <1>4, <1>5, <1>9, <1>10, <3>1 DEF slot
    <3>2. CASE k # e.key
      BY <1>5, <1>7, <1>9, <1>10, <1>11, <2>1, <3>2
    <3> QED
      BY <3>1, <3>2
  <2>2. ASSUME NEW i \in Slots PROVE elements'[storage'[i].key] = i
    <3>1. CASE i = slot
      BY <1>4, <1>5, <1>9, <3>1
    <3>2. CASE i # slot
      BY <1>5, <1>7, <1>9, <1>12, <3>2
    <3> QED
      BY <3>1, <3>2
  <2> QED
    BY <1>5, <1>6, <1>7, <1>10, <2>1, <2>2, Zenon DEF OneSlotPerKey
<1>15. Content' = [Content EXCEPT ![e.key] = e.value, ![victim] = Absent]
  <2>1. Content'[e.key] = e.value /\ Content'[victim] = Absent
    BY <1>1, <1>3, <1>4, <1>5, <1>8, <1>9 DEF Content, slot
  <2>2. ASSUME NEW k \in Keys, k # e.key, k # victim PROVE Content'[k] = Content[k]
    BY <1>5, <1>7, <1>9, <1>11, <2>2 DEF Content
  <2> QED
    BY <1>4, <1>8, <2>1, <2>2, Zenon DEF Content
<1>16. Content[e.key] = Absent /\ Content[victim] # Absent
  BY <1>1, <1>3, <1>4, <1>8, CacheAssumption DEF Content, e, slot
<1> QED
  BY <1>1, <1>2, <1>5, <1>6, <1>8, <1>13, <1>14, <1>15, <1>16, Zenon DEF CacheInv, e

(* The writer goes on with the next entry of its batch.                      *)
LEMMA NextEntry ==
  ASSUME WriterTypes, NEW w \in Writers, wr[w].pos + 1 \in Nat,
         wr' = [wr EXCEPT ![w] = [wr[w] EXCEPT !.pc = "insert", !.pos = wr[w].pos + 1]]
  PROVE  WriterTypes' /\ \A u \in Writers \ {w} : wr'[u] = wr[u]
  BY ZenonT(60) DEF WriterTypes, Inserting

(* The entry of Current(w) is in the cache, and the writer goes on behind it. *)
LEMMA Inserted ==
  ASSUME IInv, NEW w \in Writers, wr[w].pc \in {"append", "replace"}, CacheInv', NoReaders,
         wr' = [wr EXCEPT ![w] = [wr[w] EXCEPT !.pc = "insert", !.pos = wr[w].pos + 1]], rd' = rd,
         Content'[Current(w).key] = Current(w).value
  PROVE  IInv'
<1> DEFINE W == wr[w]
<1>1. W.pc # "idle" /\ W.pc \in Inserting /\ W.pos <= Len(W.batch)
  BY DEF IInv, WriterInv, Deciding, Inserting
<1>2. /\ W.pos \in 1..Len(W.batch) /\ Len(W.batch) \in Nat
      /\ \A v \in Writers \ {w} : wr[v].pc = "idle"
  BY <1>1, Working
<1>3. W.pos + 1 \in Nat /\ (W.pos + 1) - 1 = W.pos /\ W.pos + 1 \in 1..(Len(W.batch) + 1)
  BY <1>2, SMT
<1>4. wr' = [wr EXCEPT ![w] = [W EXCEPT !.pc = "insert", !.pos = W.pos + 1]]
  OBVIOUS
<1>5. WriterTypes' /\ \A u \in Writers \ {w} : wr'[u] = wr[u]
  BY <1>3, NextEntry, Zenon DEF IInv
<1>6. wr'[w].batch = W.batch /\ wr'[w].pos = W.pos + 1 /\ wr'[w].pc = "insert"
  BY <1>4 DEF IInv, WriterTypes
<1>7. WriterInv(w)'
  BY <1>3, <1>6
     DEF WriterInv, Deciding, Answering, Copying, Sweeping, Inserting, Expanding, Current
<1> QED
  BY <1>2, <1>5, <1>7, WriterFrame

(* newElements leads to the same slots as elements did.                      *)
LEMMA ExpandSwapChanges ==
  ASSUME IInv, NEW w \in Writers, ExpandSwap(w)
  PROVE  /\ IInv' /\ Content' = Content /\ Len(storage') = Len(storage)
         /\ max' \in 0..MaxCap /\ max' > max
<1> DEFINE W == wr[w]
<1>1. /\ W.pc = "swapin" /\ W.newMax > max /\ Len(W.copied) = Len(storage)
      /\ \A i \in 1..Len(W.copied) : /\ W.copied[i].key = storage[i].key
                                     /\ W.copied[i].value = storage[i].value
  BY DEF ExpandSwap, IInv, WriterInv, Copying, Expanding
<1>2. /\ W.copied \in Seq(Entry) /\ W.newMax \in 0..MaxCap
      /\ \A v \in Writers \ {w} : wr[v].pc = "idle"
  BY <1>1, Working
<1>3. /\ elements' = Indexed(W.copied) /\ storage' = W.copied /\ max' = W.newMax
      /\ wr' = [wr EXCEPT ![w] = IdleWriter] /\ insertLock' = NoWriter
      /\ UNCHANGED <<next, rd>> /\ NoReaders
  BY Zenon DEF ExpandSwap
<1>4. /\ \A k \in Keys : elements[k] # 0 => elements[k] \in Slots /\ storage[elements[k]].key = k
      /\ \A i \in Slots : elements[storage[i].key] = i /\ i # 0
      /\ elements \in [Keys -> 0..MaxCap] /\ Len(storage) <= max /\ Len(storage) \in Nat
      /\ max \in 0..MaxCap
  <2>1. CacheTypeOK /\ OneSlotPerKey
    BY Zenon DEF IInv, CacheInv
  <2>2. /\ elements \in [Keys -> 0..MaxCap] /\ Len(storage) <= max /\ Len(storage) \in Nat
        /\ max \in 0..MaxCap
    BY <2>1, SMTT(60) DEF CacheTypeOK, OneSlotPerKey
  <2>3. \A i \in Slots : i # 0
    BY <2>2 DEF Slots
  <2> QED BY <2>1, <2>2, <2>3, Zenon DEF OneSlotPerKey
<1>5. 1..Len(W.copied) = Slots
  BY <1>1, Zenon DEF Slots
<1>6. elements' = elements
  <2>1. ASSUME NEW k \in Keys PROVE Indexed(W.copied)[k] = elements[k]
    <3>1. CASE \E i \in Slots : storage[i].key = k
      <4>1. \A i \in Slots : W.copied[i].key = k <=> i = elements[k]
        BY <1>1, <1>4, <1>5, <3>1
      <4>2. elements[k] \in Slots
        BY <1>4, <3>1
      <4>3. (CHOOSE i \in Slots : W.copied[i].key = k) = elements[k]
        BY <4>1, <4>2
      <4> QED
        BY <1>5, <4>1, <4>2, <4>3 DEF Indexed
    <3>2. CASE ~\E i \in Slots : storage[i].key = k
      <4>1. elements[k] = 0
        BY <1>4, <3>2
      <4> QED
        BY <1>1, <1>5, <3>2, <4>1 DEF Indexed
    <3> QED
      BY <3>1, <3>2
  <2> QED
    BY <1>3, <1>4, <2>1, Zenon DEF Indexed
<1>7. Slots' = Slots /\ Len(storage') = Len(storage)
  BY <1>1, <1>3 DEF Slots
<1>8. Content' = Content
  BY <1>1, <1>3, <1>4, <1>5, <1>6, SMTT(60) DEF Content
<1>9. Len(storage') <= max'
  <2>1. Len(storage) <= W.newMax
    BY <1>1, <1>2, <1>4
  <2> QED BY <1>3, <1>7, <2>1, Zenon
<1>10. OneSlotPerKey'
  BY <1>1, <1>3, <1>4, <1>5, <1>6, <1>7, <1>9, Zenon DEF OneSlotPerKey
<1>11. WriterTypes' /\ wr'[w].pc = "idle" /\ \A v \in Writers \ {w} : wr'[v] = wr[v]
  BY <1>3, IdleWriterType DEF IInv, WriterTypes, IdleWriter
<1>12. CacheTypeOK'
  BY <1>2, <1>3, <1>4, <1>6, <1>7, <1>11, CacheAssumption DEF IInv, CacheInv, CacheTypeOK, Entry
<1>13. IInv'
  BY <1>2, <1>3, <1>10, <1>11, <1>12, IdleWriterInv, WriterFrame DEF CacheInv
<1> QED
  BY <1>1, <1>2, <1>3, <1>7, <1>8, <1>13, Zenon
-----------------------------------------------------------------------------
(* The inductive invariant holds at first, is kept by every step, and so always holds. *)
LEMMA InvInit == Init => IInv
<1> SUFFICES ASSUME Init PROVE IInv
  OBVIOUS
<1>1. /\ elements = [k \in Keys |-> 0] /\ storage = <<>> /\ max \in 0..MaxCap /\ next = 0
      /\ insertLock = NoWriter /\ wr = [w \in Writers |-> IdleWriter]
      /\ rd = [r \in Readers |-> IdleReader]
  BY DEF Init
<1>2. /\ 0 \in 0..MaxCap /\ 0 \in 0..Len(<<>>) /\ 1..Len(<<>>) = {} /\ Len(<<>>) <= max
  BY <1>1, CacheAssumption, SMT
<1>3. CacheTypeOK
  BY <1>1, <1>2, EmptySeq, CacheAssumption DEF CacheTypeOK, IdleWriter
<1>4. OneSlotPerKey
  BY <1>1, <1>2 DEF OneSlotPerKey, Slots
<1>5. WriterTypes /\ ReaderTypes
  BY <1>1, IdleWriterType, IdleReaderType, Zenon DEF WriterTypes, ReaderTypes
<1>6. ASSUME NEW w \in Writers PROVE WriterInv(w)
  BY <1>1 DEF WriterInv, Deciding, Answering, Copying, Sweeping, Inserting, Expanding, IdleWriter
<1>7. ASSUME NEW r \in Readers PROVE ReaderInv(r)
  BY <1>1 DEF ReaderInv, Looking, Collecting, IdleReader
<1> QED
  BY <1>3, <1>4, <1>5, <1>6, <1>7 DEF IInv, CacheInv

(* Whatever a writer does preserves the invariant.                           *)
LEMMA WriterStepInv ==
  ASSUME IInv, NEW w \in Writers, BeginInsert(w) \/ BeginExpand(w) \/ WriterStep(w)
  PROVE  IInv'
<1>1. CASE Append_(w)
  <2>1. Content'[Current(w).key] = Current(w).value
    BY <1>1, AppendChanges, Zenon DEF Content, Item
  <2>2. /\ wr[w].pc \in {"append", "replace"} /\ NoReaders /\ rd' = rd
        /\ wr' = [wr EXCEPT ![w] = [wr[w] EXCEPT !.pc = "insert", !.pos = wr[w].pos + 1]]
    BY <1>1, ZenonT(60) DEF Append_
  <2> QED
    BY <1>1, <2>1, <2>2, AppendChanges, Inserted, ZenonT(60)
<1>2. CASE Replace(w)
  <2>1. Content'[Current(w).key] = Current(w).value
    BY <1>2, ReplaceChanges, Zenon DEF Content, Item
  <2>2. /\ wr[w].pc \in {"append", "replace"} /\ NoReaders /\ rd' = rd
        /\ wr' = [wr EXCEPT ![w] = [wr[w] EXCEPT !.pc = "insert", !.pos = wr[w].pos + 1]]
    BY <1>2, Zenon DEF Replace
  <2> QED
    BY <1>2, <2>1, <2>2, ReplaceChanges, Inserted, Zenon
<1> QED
  BY <1>1, <1>2, BeginCallInv, EndCallInv, InsertPresentInv, InsertTouchInv, InsertAbsentInv,
     SweepInv, ExpandCopyInv, ExpandSwapChanges, Zenon DEF WriterStep

(* A step that changes nothing preserves the invariant.                      *)
LEMMA InvStutters ==
  ASSUME IInv, UNCHANGED vars
  PROVE  IInv'
<1>1. Content' = Content /\ Slots' = Slots
  BY DEF vars, Content, Slots
<1>2. CacheInv' /\ WriterTypes' /\ ReaderTypes'
  BY Zenon DEF IInv, vars, CacheInv, CacheTypeOK, OneSlotPerKey, Slots, WriterTypes, ReaderTypes
<1>3. ASSUME NEW w \in Writers PROVE WriterInv(w)'
  BY <1>1, ZenonT(60)
     DEF IInv, vars, WriterInv, Deciding, Answering, Copying, Sweeping, Turn, Current
<1>4. ASSUME NEW r \in Readers PROVE ReaderInv(r)'
  BY <1>1 DEF IInv, vars, ReaderInv, Looking, Collecting
<1> QED
  BY <1>2, <1>3, <1>4 DEF IInv

(* Every step preserves the invariant.                                       *)
LEMMA InvStep == IInv /\ [Next]_vars => IInv'
  BY ReaderStepInv, WriterStepInv, InvStutters DEF Next

(* The invariant always holds.                                               *)
LEMMA InvHolds == Spec => []IInv
  BY InvInit, InvStep, PTL DEF Spec
-----------------------------------------------------------------------------
(* Every variable keeps its type, one writer at a time works, and the hand   *)
(* of the sweep never leaves storage (evict).                                *)
THEOREM CacheTypes == Spec => []CacheTypeOK
<1>1. IInv => CacheTypeOK
  BY DEF IInv, CacheInv
<1> QED
  BY <1>1, InvHolds, PTL

(* The map and the slots are two views of one set of entries, with any       *)
(* number of threads that insert, expand and look up (insert, evict,         *)
(* ExpandTo).                                                                *)
THEOREM MapAndSlotsAgree == Spec => []OneSlotPerKey
<1>1. IInv => OneSlotPerKey
  BY DEF IInv, CacheInv
<1> QED
  BY <1>1, InvHolds, PTL

(* GetValues fills the first places with the values of the keys it moved     *)
(* there, and the keys behind them are absent.                               *)
THEOREM BatchesLineUp == Spec => []ValuesLineUp
<1>1. IInv => ValuesLineUp
  BY Zenon DEF IInv, ReaderInv, Collecting, ValuesLineUp
<1> QED
  BY <1>1, InvHolds, PTL

(* Insert and InsertBatch answer with the value that readers get.            *)
THEOREM AnswersAreCanonical == Spec => []CallerGetsCanonicalValue
<1>1. IInv => CallerGetsCanonicalValue
  BY DEF IInv, WriterInv, Answering, CallerGetsCanonicalValue
<1> QED
  BY <1>1, InvHolds, PTL

(* evict fails only when readers marked every slot again during its sweep.   *)
THEOREM EvictFailsOnlyWhenStarved == Spec => []GivesUpOnlyWhenStarved
<1>1. IInv => GivesUpOnlyWhenStarved
  <2> SUFFICES ASSUME IInv, NEW w \in Writers, wr[w].pc = "sweep", wr[w].at >= SweepLength,
                      NEW s \in Slots
               PROVE  s \in remarked
    BY DEF GivesUpOnlyWhenStarved
  <2>1. wr[w].at \in Nat
    BY Working
  <2>2. Turn(s) + Len(storage) < wr[w].at
    BY <2>1, StoredEntries, SMT
       DEF Turn, Slots, SweepLength, Rounds, IInv, CacheInv, CacheTypeOK
  <2> QED
    BY <2>2 DEF IInv, WriterInv, Sweeping
<1> QED
  BY <1>1, InvHolds, PTL

(* The cache implements the forgetful map: a value never changes while its   *)
(* key is held, and only a full cache forgets.                               *)
THEOREM CacheIsAForgetfulMap == Spec => ImplementsForgetfulMap
<1>1. Init => Map!MapInit
  <2> SUFFICES ASSUME Init PROVE Map!MapInit
    OBVIOUS
  <2>1. max \in Nat /\ Len(<<>>) = 0
    BY CacheAssumption, SMT DEF Init
  <2>2. Content = [k \in Keys |-> Absent]
    BY DEF Init, Content
  <2> QED
    BY <2>1, <2>2 DEF Init, Map!MapInit, CacheLen, CacheCap
<1>2. IInv /\ [Next]_vars => [Map!MapNext]_Map!mapVars
  <2> SUFFICES ASSUME IInv, [Next]_vars PROVE [Map!MapNext]_Map!mapVars
    OBVIOUS
  <2> USE DEF CacheLen, CacheCap
  <2>0. max \in Nat /\ Len(storage) \in Nat
    BY StoredEntries, CacheAssumption, SMT DEF IInv, CacheInv, CacheTypeOK
  <2>1. CASE SameEntries
    BY <2>1, SameContent DEF IInv, Map!mapVars, SameEntries
  <2>2. ASSUME NEW w \in Writers, Append_(w) PROVE Map!MapNext
    <3>1. Map!Add(Current(w).key, Current(w).value)
      BY <2>2, AppendChanges DEF Map!Add
    <3> QED
      BY <2>2, <3>1, AppendChanges DEF Map!MapNext, Item
  <2>3. ASSUME NEW w \in Writers, Replace(w) PROVE Map!MapNext
    <3>1. PICK victim \in Keys :
             /\ Content[victim] # Absent
             /\ Content' = [Content EXCEPT ![Current(w).key] = Current(w).value,
                                           ![victim] = Absent]
      BY <2>3, ReplaceChanges
    <3>2. Map!Displace(Current(w).key, Current(w).value, victim)
      BY <2>3, <3>1, ReplaceChanges DEF Map!Displace
    <3> QED
      BY <2>3, <3>2, ReplaceChanges DEF Map!MapNext, Item
  <2>4. ASSUME NEW w \in Writers, ExpandSwap(w) PROVE Map!MapNext
    <3>1. max' \in Nat
      BY <2>4, ExpandSwapChanges, CacheAssumption, SMTT(60)
    <3> QED
      BY <2>4, <3>1, ExpandSwapChanges DEF Map!MapNext, Map!Grow
  <2>5. ASSUME NEW w \in Writers, BeginInsert(w) \/ BeginExpand(w) \/ WriterStep(w),
               ~(Append_(w) \/ Replace(w) \/ ExpandSwap(w))
        PROVE  SameEntries
    <3> USE DEF cacheVars
    <3>1. storage \in Seq(Entry)
      BY StoredEntries DEF IInv, CacheInv
    <3>2. CASE InsertTouch(w)
      <4>1. wr[w].slot \in Slots
        BY <3>2 DEF InsertTouch, IInv, WriterInv, Deciding
      <4> QED
        BY <3>1, <3>2, <4>1, MarkSame, Zenon DEF InsertTouch
    <3>3. CASE Sweep(w)
      <4>1. SweepLoc(wr[w].at) + 1 \in Slots
        BY <3>3, Working, SweepVisits DEF Sweep, IInv, CacheInv
      <4> QED
        BY <3>1, <3>3, <4>1, MarkSame, ZenonT(60) DEF Sweep
    <3>4. CASE UNCHANGED <<elements, storage, max>>
      BY <3>1, <3>4, NothingSame
    <3> QED
      BY <2>5, <3>2, <3>3, <3>4, Zenon
         DEF WriterStep, BeginInsert, BeginExpand, InsertPresent, InsertAbsent, Starve,
             EndInsert, ExpandCopy
  <2>6. ASSUME NEW r \in Readers, BeginGet(r) \/ BeginUnmark(r) \/ ReaderStep(r)
        PROVE  SameEntries
    <3> USE DEF cacheVars
    <3>1. storage \in Seq(Entry)
      BY StoredEntries DEF IInv, CacheInv
    <3>2. CASE GetMark(r)
      BY <3>2, GetMarkInv
    <3>3. CASE EndUnmark(r)
      <4>1. rd[r].slot \in Slots
        BY <3>3 DEF EndUnmark, IInv, ReaderInv, Looking
      <4> QED
        BY <3>1, <3>3, <4>1, MarkSame, Zenon DEF EndUnmark
    <3>4. CASE UNCHANGED <<elements, storage, max>>
      BY <3>1, <3>4, NothingSame
    <3> QED
      BY <2>6, <3>2, <3>3, <3>4, Zenon
         DEF ReaderStep, BeginGet, BeginUnmark, GetMiss, GetHit, EndGet
  <2>7. CASE UNCHANGED vars
    BY <2>7, StoredEntries, NothingSame, <2>1 DEF vars, IInv, CacheInv
  <2> QED
    BY <2>1, <2>2, <2>3, <2>4, <2>5, <2>6, <2>7 DEF Next
<1> QED
  BY <1>1, <1>2, InvHolds, PTL DEF Spec, ImplementsForgetfulMap, Map!MapSpec
=============================================================================
