----------------------------- MODULE HashTable -----------------------------
(***************************************************************************)
(* The linear hash of ma_hash.c, which holds the connection attributes,    *)
(* the user data and the complex types.  All links live in one array of as *)
(* many slots as there are records; a key whose home slot is taken by a    *)
(* stranger moves the stranger, and the table grows and shrinks one slot   *)
(* at a time.  A slot is [data, next]; slots and links count from 0.       *)
(***************************************************************************)
EXTENDS Integers, Sequences, FiniteSets, SequencesExt, Functions

CONSTANTS HashKeys,     \* a function: the hash number of each key
          HashRecords   \* a function: the key of each record
VARIABLES hash,         \* blength, records, data
          hashed        \* the records inserted and not deleted

NoLink == -1

(* hash_mask: fold a number into the slots in use                          *)
HashMask(nr, buffmax, maxlength) ==
  IF nr % buffmax < maxlength THEN nr % buffmax ELSE nr % (buffmax \div 2)
RecHashnr(r) == HashKeys[HashRecords[r]]
HashRecMask(d, pos, buffmax, maxlength) == HashMask(RecHashnr(d[pos].data), buffmax, maxlength)

Slot(r, n) == [data |-> r, next |-> n]
PutSlot(d, i, s) == (i :> s) @@ d

(* movelink: whoever pointed to find now points to newlink                 *)
RECURSIVE MoveLink(_, _, _, _)
MoveLink(d, find, link, newlink) ==
  IF d[link].next = find THEN [d EXCEPT ![link].next = newlink]
  ELSE MoveLink(d, find, d[link].next, newlink)

(***************************************************************************)
(* hash_insert: first the family of the slot that splits is divided into   *)
(* the keys that stay (low) and the keys that move to the new slot (high). *)
(* A half that lost its link is patched when its next member is found, or  *)
(* at the end of the chain.                                                *)
(***************************************************************************)
Half(pos, rec, used, found) == [pos |-> pos, rec |-> rec, used |-> used, found |-> found]
NoHalf == Half(0, 0, FALSE, FALSE)
(* The half takes its next member, which is already in slot pos, and the   *)
(* other half's last link now leads astray until it is written again.      *)
NextOf(d, half, pos) ==
  IF half.used THEN d ELSE PutSlot(d, half.pos, Slot(half.rec, pos))
Astray(half) == [half EXCEPT !.used = FALSE]
(* The first member of a half goes to the free slot, unless it stays.      *)
RECURSIVE SplitFrom(_, _, _, _, _, _)
SplitFrom(d, pos, halfbuff, low, high, empty) ==
  LET r == d[pos].data
      stays == halfbuff = 0 \/ (RecHashnr(r) \div halfbuff) % 2 = 0
      here == Half(pos, r, TRUE, TRUE)
      moved == Half(empty, r, FALSE, TRUE)
      s == CASE stays /\ ~low.found /\ high.found -> [d |-> d, low |-> moved, high |-> Astray(high), empty |-> pos]
             [] stays /\ ~low.found /\ ~high.found -> [d |-> d, low |-> here, high |-> high, empty |-> empty]
             [] stays /\ low.found -> [d |-> NextOf(d, low, pos), low |-> here, empty |-> empty,
                                       high |-> IF low.used THEN high ELSE Astray(high)]
             [] ~stays /\ ~high.found -> [d |-> d, low |-> Astray(low), high |-> moved, empty |-> pos]
             [] OTHER -> [d |-> NextOf(d, high, pos), high |-> here, empty |-> empty,
                          low |-> IF high.used THEN low ELSE Astray(low)]
  IN IF d[pos].next # NoLink THEN SplitFrom(s.d, d[pos].next, halfbuff, s.low, s.high, s.empty) ELSE s
(* A half whose last link leads astray ends there.                         *)
CloseHalf(d, half) ==
  IF half.found /\ ~half.used THEN PutSlot(d, half.pos, Slot(half.rec, NoLink)) ELSE d
SplitSlot(h) ==
  LET halfbuff == h.blength \div 2
      first == h.records - halfbuff
      s == SplitFrom(h.data, first, halfbuff, NoHalf, NoHalf, h.records)
  IN IF first = h.records \/ HashRecMask(h.data, first, h.blength, h.records) # first
     THEN [d |-> h.data, empty |-> h.records]
     ELSE [d |-> CloseHalf(CloseHalf(s.d, s.low), s.high), empty |-> s.empty]

(* Then the record goes to its home slot, and who was there to the empty.  *)
HashInsert_Unlinked(h, r) ==
  LET s == SplitSlot(h)
      home == HashMask(RecHashnr(r), h.blength, h.records + 1)
      freed == IF home = s.empty THEN s.d ELSE PutSlot(s.d, s.empty, s.d[home])
  IN [blength |-> IF h.records + 1 = h.blength THEN 2 * h.blength ELSE h.blength,
      records |-> h.records + 1, data |-> PutSlot(freed, home, Slot(r, NoLink))]
HashPlace(h, r, s) ==
  LET home == HashMask(RecHashnr(r), h.blength, h.records + 1)
      freed == PutSlot(s.d, s.empty, s.d[home])
      owner == HashRecMask(s.d, home, h.blength, h.records + 1)
      d == CASE home = s.empty -> PutSlot(s.d, home, Slot(r, NoLink))
             [] home # s.empty /\ owner = home -> [freed EXCEPT ![home] = Slot(r, s.empty)]
             [] OTHER -> MoveLink([freed EXCEPT ![home] = Slot(r, NoLink)], home, owner, s.empty)
  IN [blength |-> IF h.records + 1 = h.blength THEN 2 * h.blength ELSE h.blength,
      records |-> h.records + 1, data |-> d]
HashInsert(h, r) == HashPlace(h, r, SplitSlot(h))

(***************************************************************************)
(* hash_delete: unlink the record, then fill the hole with the last slot   *)
(***************************************************************************)
RECURSIVE FindRecord(_, _, _, _)
FindRecord(d, r, pos, before) ==
  IF d[pos].data = r THEN [pos |-> pos, before |-> before]
  ELSE FindRecord(d, r, d[pos].next, pos)
FillHole(d, empty, last, blength, newblength) ==
  LET lastnr == RecHashnr(d[last].data)
      pos == HashMask(lastnr, newblength, last)
      posnr == RecHashnr(d[pos].data)
      home == HashMask(posnr, newblength, last)
      was == HashMask(lastnr, blength, last + 1)
      family == was = HashMask(posnr, blength, last + 1)
      filled == [d EXCEPT ![empty] = d[last]]
  IN CASE empty = last -> d
       [] empty # last /\ pos = empty -> filled
       [] empty # last /\ pos # empty /\ pos # home ->
            MoveLink([d EXCEPT ![empty] = d[pos], ![pos] = d[last]], pos, home, empty)
       [] empty # last /\ pos # empty /\ pos = home /\ family /\ was # last ->
            MoveLink(filled, last, pos, empty)
       [] OTHER ->
            [MoveLink(filled, IF family THEN pos ELSE NoLink, empty, d[pos].next) EXCEPT ![pos].next = empty]
HashDelete(h, r) ==
  LET f == FindRecord(h.data, r, HashMask(RecHashnr(r), h.blength, h.records), NoLink)
      last == h.records - 1
      blength == IF last < h.blength \div 2 THEN h.blength \div 2 ELSE h.blength
      next == h.data[f.pos].next
      d == CASE f.before # NoLink -> [h.data EXCEPT ![f.before].next = next]
             [] f.before = NoLink /\ next # NoLink -> [h.data EXCEPT ![f.pos] = h.data[next]]
             [] OTHER -> h.data
      empty == IF f.before = NoLink /\ next # NoLink THEN next ELSE f.pos
  IN [blength |-> blength, records |-> last,
      data |-> Restrict(FillHole(d, empty, last, h.blength, blength), 0..last - 1)]

(***************************************************************************)
(* hash_search and hash_next: the records of a key, in chain order         *)
(***************************************************************************)
RECURSIVE ChainFrom(_, _)
ChainFrom(d, pos) == IF pos = NoLink THEN <<>> ELSE <<pos>> \o ChainFrom(d, d[pos].next)
(* A slot held by a stranger is not the start of the key's chain.          *)
HashSearch(h, key) ==
  IF h.records = 0 THEN <<>>
  ELSE LET idx == HashMask(HashKeys[key], h.blength, h.records)
           own == HashRecords[h.data[idx].data] = key \/ HashRecMask(h.data, idx, h.blength, h.records) = idx
       IN IF own THEN SelectSeq([i \in DOMAIN ChainFrom(h.data, idx) |-> h.data[ChainFrom(h.data, idx)[i]].data],
                                LAMBDA r : HashRecords[r] = key)
          ELSE <<>>

HashInit == hash = [blength |-> 1, records |-> 0, data |-> <<>>] /\ hashed = {}
HashNext ==
  \/ \E r \in DOMAIN HashRecords \ hashed : hash' = HashInsert(hash, r) /\ hashed' = hashed \cup {r}
  \/ \E r \in hashed : hash' = HashDelete(hash, r) /\ hashed' = hashed \ {r}

(* The slots 0..records-1, which hash_element and hash_free walk, hold     *)
(* each record once that was inserted and not deleted: splitting a chain   *)
(* and filling a hole lose none and double none.                           *)
HashElements ==
  /\ DOMAIN hash.data = 0..hash.records - 1
  /\ Cardinality(hashed) = hash.records
  /\ {hash.data[i].data : i \in DOMAIN hash.data} = hashed

(* hash_search and the hash_next calls after it return every record of the *)
(* key, each once, and no other, whatever chains were split and merged     *)
(* before.                                                                 *)
HashFinds ==
  \A key \in DOMAIN HashKeys :
    LET found == HashSearch(hash, key)
    IN IsInjective(found) /\ Range(found) = {r \in hashed : HashRecords[r] = key}
=============================================================================
