-------------------------- MODULE IdempotencyStore --------------------------
(***************************************************************************)
(* Idempotency keys, kernel/idempotency.ts: the in-flight reservations and *)
(* the completed entries a key claim consults, as parameterised actions    *)
(* the Kernel module composes.  An entry's result envelope and journal ts  *)
(* are those of the call that owns it, so the entry names that call.  What *)
(* the clock decides is whether an entry is past its TTL: entries carry    *)
(* their age, capped at Ttl.                                               *)
(***************************************************************************)
EXTENDS Naturals, Sequences

CONSTANTS
  Calls,     \* the calls that may own a key
  Keys,      \* idempotency keys
  Identities,\* what a key stands for: operation, arguments and if_rev
  Ttl,       \* ttlMs, in clock ticks
  MaxEntries,\* max: completed entries kept
  Free       \* no reservation

ASSUME StoreAssumption ==
  /\ Ttl \in Nat \ {0}
  /\ MaxEntries \in Nat \ {0}
  /\ Free \notin [owner : Calls, identity : Identities]

VARIABLES
  reserved,  \* this.reservations: per key, who claimed it and as what
  entries    \* this.entries in Map order: the least recently used first

svars == <<reserved, entries>>

Reservations == [owner : Calls, identity : Identities]
Entries == [key : Keys, owner : Calls, identity : Identities, age : 0..Ttl]

StoreTypeOK ==
  /\ reserved \in [Keys -> Reservations \union {Free}]
  /\ entries \in Seq(Entries)

StoreInit ==
  /\ reserved = [k \in Keys |-> Free]
  /\ entries = <<>>

Places(k) == {i \in 1..Len(entries) : entries[i].key = k}

EntriesOf(k) == {entries[i] : i \in Places(k)}

\* The completed entry for a key, while its TTL runs.
LiveEntries(k) == {e \in EntriesOf(k) : e.age < Ttl}

\* this.entries.delete(k): a map has a key at one place at most.
Without(k) ==
  IF Places(k) = {} THEN entries
  ELSE LET i == CHOOSE i \in Places(k) : TRUE
       IN  SubSeq(entries, 1, i - 1) \o SubSeq(entries, i + 1, Len(entries))

\* Seeded fault: a hit is taken out and not put back.
LookedOnce(k) == Without(k)
\* get(): an expired entry is dropped, a live one becomes the most recently
\* used, and a refresh does not rejuvenate it.
Looked(k) ==
  IF LiveEntries(k) = {} THEN Without(k)
  ELSE Append(Without(k), CHOOSE e \in LiveEntries(k) : TRUE)

\* Seeded fault: whoever presents a reserved key waits, whatever it asks.
WaitsForAnything(k, identity) == reserved[k] # Free /\ identity \in Identities
\* The four answers to a key claim.
MustWait(k, identity) == reserved[k] # Free /\ reserved[k].identity = identity
Replays(k, identity) ==
  reserved[k] = Free /\ \E e \in LiveEntries(k) : e.identity = identity
Mismatches(k, identity) ==
  \/ reserved[k] # Free /\ reserved[k].identity # identity
  \/ reserved[k] = Free /\ \E e \in LiveEntries(k) : e.identity # identity
\* Seeded fault: only completed keys are looked up.
OwnsUnreserved(k) == LiveEntries(k) = {}
Owns(k) == reserved[k] = Free /\ LiveEntries(k) = {}

\* What every answer but "wait" does to the completed entries: the lookup.
LookUp(k) == entries' = IF reserved[k] = Free THEN Looked(k) ELSE entries

\* claim() answering "owner": the lookup and the reservation are one step.
Reserve(k, c, identity) ==
  /\ LookUp(k)
  /\ reserved' = [reserved EXCEPT ![k] = [owner |-> c, identity |-> identity]]

\* set(): the entry becomes the newest, and the oldest are evicted.
Stored(e) ==
  LET all == Append(Without(e.key), e)
  IN  IF Len(all) > MaxEntries THEN SubSeq(all, Len(all) - MaxEntries + 1, Len(all)) ELSE all

\* settle(): the key is released, and stored if the call returned; a settle
\* for a key that is no longer this call's changes nothing.
SettleKey(k, c, returned) ==
  \/ /\ reserved[k] # Free /\ reserved[k].owner = c
     /\ reserved' = [reserved EXCEPT ![k] = Free]
     /\ entries' = IF returned
                   THEN Stored([key |-> k, owner |-> c,
                                identity |-> reserved[k].identity, age |-> 0])
                   ELSE entries
  \/ /\ reserved[k] = Free \/ reserved[k].owner # c
     /\ UNCHANGED svars

\* A tick of the clock every entry's storedAt is measured against.
Older(e) == [e EXCEPT !.age = IF @ < Ttl THEN @ + 1 ELSE Ttl]
Aged == [i \in 1..Len(entries) |-> Older(entries[i])]
=============================================================================
