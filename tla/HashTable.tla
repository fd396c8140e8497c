----------------------------- MODULE HashTable -----------------------------
(***************************************************************************)
(* The hash table of bsd_hash/hash.c.  A chain is the sequence of entries  *)
(* on its SLIST (QueueMacros models the macros), newest first.  Keys are   *)
(* octet strings, of a length that the caller gives or, for length 0, up   *)
(* to the first zero octet.  Octets have OctetSize values, not 256, so     *)
(* that the end-around carry of the hash function happens.                 *)
(***************************************************************************)
EXTENDS Naturals, Sequences, SequencesExt

CONSTANTS
  OctetSize,     \* 256
  KeyBuffers,    \* what callers pass as key: sequences of octets ending in 0
  HData, HNull,
  Sizes,         \* what callers pass as nel
  MIN_BUCKETS, MAX_BUCKETS,
  MaxEntries     \* bound on the entries a table gets

\* A carry that is brought back in gets smaller; a key is a C string.
ASSUME OctetsAssumption == OctetSize \in Nat /\ OctetSize >= 2
ASSUME KeysAssumption ==
  \A buf \in KeyBuffers : buf \in Seq(0..(OctetSize - 1)) /\ buf # <<>> /\ buf[Len(buf)] = 0
ASSUME SizesAssumption == Sizes \subseteq Nat /\ MIN_BUCKETS \in Nat \ {0} /\ MAX_BUCKETS \in Nat \ {0}

VARIABLES
  htable,     \* the chains, or HNull
  added       \* the entries added and not deleted, newest first

hashVars == <<htable, added>>

-----------------------------------------------------------------------------
\* The ISC hash: octets are added with the carry brought back in.
hash(key, size) ==
  LET carry[a \in Nat] ==
        IF a > OctetSize - 1 THEN carry[(a % OctetSize) + (a \div OctetSize)] ELSE a
      accum[i \in 0..Len(key)] == IF i = 0 THEN 0 ELSE carry[accum[i - 1] + key[i]]
  IN  accum[Len(key)] % size

strlen(buf) == (CHOOSE i \in 1..Len(buf) : buf[i] = 0 /\ \A j \in 1..(i - 1) : buf[j] # 0) - 1
\* The octets a call with this buffer and length is about.
KeyOf(buf, len) == SubSeq(buf, 1, IF len = 0 THEN strlen(buf) ELSE len)

\* The size of the table: capped at both ends, and the power of two above a
\* number that is not one.
TableSize(nel) ==
  LET capped == IF nel < MIN_BUCKETS THEN MIN_BUCKETS
                ELSE IF nel > MAX_BUCKETS THEN MAX_BUCKETS ELSE nel
      bits[n \in Nat] == IF n = 0 THEN 0 ELSE 1 + bits[n \div 2]
      shifted[p \in Nat] == IF p = 0 THEN 1 ELSE 2 * shifted[p - 1]
  IN  IF \E p \in 0..bits[capped] : capped = shifted[p] THEN capped ELSE shifted[bits[capped]]

Buckets == Len(htable)
Bucket(key) == (hash(key, Buckets) % Buckets) + 1
Matches(key) == {i \in 1..Len(htable[Bucket(key)]) : htable[Bucket(key)][i].key = key}
FirstMatch(key) == CHOOSE i \in Matches(key) : \A j \in Matches(key) : i <= j

-----------------------------------------------------------------------------
HashInit == htable = HNull /\ added = << >>

\* new_hash_table refuses a second table; malloc may fail.
new_hash_table(nel) ==
  /\ htable = HNull
  /\ \/ htable' = [i \in 1..TableSize(nel) |-> << >>]
     \/ htable' = HNull
  /\ added' = << >>

\* The entries are not freed, but nothing refers to them any more.
free_hash_table == htable' = HNull /\ added' = << >>

add_hash_entry_Tail(buf, len, data) ==
  LET key == KeyOf(buf, len)
  IN  /\ htable # HNull
      /\ htable' = [htable EXCEPT ![Bucket(key)] = Append(@, [key |-> key, data |-> data])]

\* The entry goes to the front of its chain, whether or not the key is there.
add_hash_entry(buf, len, data) ==
  LET key == KeyOf(buf, len)
  IN  /\ htable # HNull
      /\ htable' = [htable EXCEPT ![Bucket(key)] = <<[key |-> key, data |-> data]>> \o @]

\* The first entry with the key is unlinked.
delete_hash_entry(buf, len) ==
  LET key == KeyOf(buf, len)
  IN  /\ htable # HNull
      /\ htable' = IF Matches(key) = {} THEN htable
                   ELSE [htable EXCEPT ![Bucket(key)] = RemoveAt(@, FirstMatch(key))]

hash_lookup(buf, len) ==
  LET key == KeyOf(buf, len)
  IN  IF Matches(key) = {} THEN HNull ELSE htable[Bucket(key)][FirstMatch(key)].data

-----------------------------------------------------------------------------
Lengths(buf) == 0..Len(buf)
AddedFor(key) == {i \in 1..Len(added) : added[i].key = key}
Newest(key) == CHOOSE i \in AddedFor(key) : \A j \in AddedFor(key) : i <= j

HashAdd(buf, len, data) ==
  /\ Len(added) < MaxEntries
  /\ add_hash_entry(buf, len, data)
  /\ added' = <<[key |-> KeyOf(buf, len), data |-> data]>> \o added

HashDelete(buf, len) ==
  /\ delete_hash_entry(buf, len)
  /\ LET key == KeyOf(buf, len)
     IN  added' = IF AddedFor(key) = {} THEN added ELSE RemoveAt(added, Newest(key))

HashNext ==
  \/ \E nel \in Sizes : new_hash_table(nel)
  \/ htable # HNull /\ free_hash_table
  \/ \E buf \in KeyBuffers : \E len \in Lengths(buf) :
       HashDelete(buf, len) \/ \E data \in HData : HashAdd(buf, len, data)
HashSpec == HashInit /\ [][HashNext]_hashVars

-----------------------------------------------------------------------------
\* A lookup finds what was added last for that very key, octet for octet and
\* length for length, and not yet deleted: keys that share a chain, a key that
\* is a prefix of another, a key named by length or by its terminator, and a
\* key added twice, whose deletion uncovers the older data.
LookupFindsNewest ==
  htable # HNull =>
    \A buf \in KeyBuffers : \A len \in Lengths(buf) :
      LET key == KeyOf(buf, len)
      IN  hash_lookup(buf, len) = IF AddedFor(key) = {} THEN HNull ELSE added[Newest(key)].data
=============================================================================
