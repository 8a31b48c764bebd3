----------------------------- MODULE Containers -----------------------------
(***************************************************************************)
(* The containers of linked_list.c and hash.c, as far as the programs      *)
(* depend on how they work: a list is searched from its head and only the  *)
(* first match is taken out; a hash is an array of lists, to which a key   *)
(* is added whether or not it is there, and of which the first match       *)
(* answers.                                                                *)
(***************************************************************************)
EXTENDS Integers, Sequences, FiniteSetsExt

\* Linked_List_remove_value: what follows the first match moves up.
RemoveValue(list, v) ==
  LET Before(i) == \A j \in 1 .. i : list[j] # v
  IN  IF Before(Len(list)) THEN list
      ELSE [i \in 1 .. Len(list) - 1 |-> IF Before(i) THEN list[i] ELSE list[i + 1]]

-----------------------------------------------------------------------------

NULL == "NULL"

HashCreate(capacity) ==
  [capacity |-> capacity, items |-> [i \in 0 .. capacity - 1 |-> <<>>]]

simple_hash(hash, key) == key % hash.capacity

Matches(hash, key) ==
  LET bucket == hash.items[simple_hash(hash, key)]
  IN  {i \in DOMAIN bucket : bucket[i].key = key}

HashAddKey(hash, key, value) ==
  [hash EXCEPT !.items[simple_hash(hash, key)] =
     Append(@, [key |-> key, value |-> value])]

HashGetValue(hash, key) ==
  IF Matches(hash, key) = {} THEN NULL
  ELSE hash.items[simple_hash(hash, key)][Min(Matches(hash, key))].value

\* Hash_set_value, or a change of what the pointer in the hash points at.
HashSetValue(hash, key, value) ==
  IF Matches(hash, key) = {} THEN hash
  ELSE [hash EXCEPT !.items[simple_hash(hash, key)]
                            [Min(Matches(hash, key))].value = value]

\* What a walk over all the lists does to each value.
HashMap(hash, Op(_, _)) ==
  LET Pair(p) == [key |-> p.key, value |-> Op(p.key, p.value)]
  IN  [hash EXCEPT !.items =
         [b \in DOMAIN hash.items |->
            [i \in DOMAIN hash.items[b] |-> Pair(hash.items[b][i])]]]
=============================================================================
