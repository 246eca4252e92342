---------------------------- MODULE GroupListing ----------------------------
(***************************************************************************)
(* The member slice of a group in the in-memory store.  A listing, or the  *)
(* answer to an update, copies the group under the lock, but a Go slice is *)
(* a reference: the JSON encoder reads the members after the lock is gone, *)
(* while DeleteUser compacts the same array in place (removeID).  Encoder  *)
(* and removeID are a data race; the builds for 64 bits read and write an  *)
(* int64 whole, so each access of one element is a step here.              *)
(*                                                                         *)
(* One group is modelled: groups share no array.  The arrays are numbered  *)
(* in the order they are made.                                             *)
(***************************************************************************)
EXTENDS Integers, Sequences, FiniteSets

CONSTANTS
  Readers,        \* goroutines that answer requests with the group
  MemberLists,    \* user_ids a request can carry
  MaxArrays       \* bound: arrays ever made

VARIABLES
  arrays,    \* the arrays made so far, as sequences of user ids
  group,     \* the slice of the group: [array, len]
  removal,   \* DeleteUser under way: [id, from, to], or NoRemoval; was is history:
             \*   the members it began with
  readers    \* per reader: its slice and what it sent of it so far; history: the
             \*   members it took, and whether the removal of one of them cut in

vars == <<arrays, group, removal, readers>>

Ids       == UNION {{list[i] : i \in DOMAIN list} : list \in MemberLists}
NoRemoval == [id |-> 0, from |-> 0, to |-> 0, was |-> <<>>]
NoSlice   == [array |-> 0, len |-> 0]
Resting   == [slice |-> NoSlice, taken |-> <<>>, out |-> <<>>, disturbed |-> FALSE]

ASSUME MembersAssumption == MemberLists \subseteq Seq(Nat \ {0})

Unlocked       == removal = NoRemoval
Members(slice) == IF slice.len = 0 THEN <<>> ELSE SubSeq(arrays[slice.array], 1, slice.len)
Reading(r)     == Len(readers[r].out) < readers[r].slice.len

Holding(slice, members) == [slice |-> slice, taken |-> members, out |-> <<>>, disturbed |-> FALSE]

(* ListGroups under the read lock; the handler then encodes what it got.    *)
ListGroups(r) ==
  /\ Unlocked /\ ~Reading(r)
  /\ readers' = [readers EXCEPT ![r] = Holding(group, Members(group))]
  /\ UNCHANGED <<arrays, group, removal>>

(* Faulty UpdateGroup: the new members go where the old ones were.          *)
UpdateInPlace(r) ==
  /\ Unlocked /\ ~Reading(r) /\ Len(arrays) < MaxArrays
  /\ \E list \in MemberLists :
       LET slice == [array |-> group.array, len |-> Len(list)]
       IN  /\ arrays' = [arrays EXCEPT ![group.array] =
                           list \o SubSeq(@, Len(list) + 1, Len(@))]
           /\ group' = slice
           /\ readers' = [readers EXCEPT ![r] = Holding(slice, list)]
  /\ UNCHANGED removal

(* UpdateGroup keeps the slice the request was decoded into, and answers    *)
(* with the group.                                                         *)
UpdateGroup(r) ==
  /\ Unlocked /\ ~Reading(r) /\ Len(arrays) < MaxArrays
  /\ \E list \in MemberLists :
       LET slice == [array |-> Len(arrays) + 1, len |-> Len(list)]
       IN  /\ arrays' = Append(arrays, list)
           /\ group' = slice
           /\ readers' = [readers EXCEPT ![r] = Holding(slice, list)]
  /\ UNCHANGED removal

(* The encoder sends the next element of the slice as it finds it.          *)
EncodeNext(r) ==
  /\ Reading(r)
  /\ readers' = [readers EXCEPT ![r].out = Append(@, arrays[readers[r].slice.array][Len(@) + 1])]
  /\ UNCHANGED <<arrays, group, removal>>

----------------------------------------------------------------------------
(* DeleteUser, which holds the lock until its removeID is through.          *)

Disturbed(id) ==
  [r \in Readers |->
     IF /\ Reading(r) /\ readers[r].slice.array = group.array
        /\ \E i \in 1..group.len : Members(group)[i] = id
     THEN [readers[r] EXCEPT !.disturbed = TRUE] ELSE readers[r]]

DeleteUser(id) ==
  /\ Unlocked
  /\ removal' = [id |-> id, from |-> 1, to |-> 1, was |-> Members(group)]
  /\ readers' = Disturbed(id)
  /\ UNCHANGED <<arrays, group>>

(* Faulty RemoveNext: what the compaction leaves behind is cleared.         *)
RemoveNextClearing ==
  /\ ~Unlocked /\ removal.from <= group.len
  /\ LET array == arrays[group.array]
         item  == array[removal.from]
     IN  IF item = removal.id
           THEN /\ removal' = [removal EXCEPT !.from = @ + 1]
                /\ UNCHANGED arrays
           ELSE /\ arrays' = [arrays EXCEPT ![group.array] =
                                [array EXCEPT ![removal.from] = 0, ![removal.to] = item]]
                /\ removal' = [removal EXCEPT !.from = @ + 1, !.to = @ + 1]
  /\ UNCHANGED <<group, readers>>

RemoveNext ==
  /\ ~Unlocked /\ removal.from <= group.len
  /\ LET item == arrays[group.array][removal.from]
     IN  IF item = removal.id
           THEN /\ removal' = [removal EXCEPT !.from = @ + 1]
                /\ UNCHANGED arrays
           ELSE /\ arrays' = [arrays EXCEPT ![group.array][removal.to] = item]
                /\ removal' = [removal EXCEPT !.from = @ + 1, !.to = @ + 1]
  /\ UNCHANGED <<group, readers>>

(* Faulty RemoveEnd: what removeID returns is not put into the group.       *)
RemoveEndForgets ==
  /\ ~Unlocked /\ removal.from > group.len
  /\ removal' = NoRemoval
  /\ UNCHANGED <<arrays, group, readers>>

RemoveEnd ==
  /\ ~Unlocked /\ removal.from > group.len
  /\ group' = [group EXCEPT !.len = removal.to - 1]
  /\ removal' = NoRemoval
  /\ UNCHANGED <<arrays, readers>>

----------------------------------------------------------------------------
Init ==
  /\ arrays \in {<<list>> : list \in MemberLists}
  /\ group = [array |-> 1, len |-> Len(arrays[1])]
  /\ removal = NoRemoval
  /\ readers = [r \in Readers |-> Resting]

Next ==
  \/ \E r \in Readers : ListGroups(r) \/ UpdateGroup(r) \/ EncodeNext(r)
  \/ \E id \in Ids : DeleteUser(id)
  \/ RemoveNext \/ RemoveEnd

Spec == Init /\ [][Next]_vars

----------------------------------------------------------------------------
(* Properties.                                                             *)

(* However deletions cut into the encoding of a group, an answer names only   *)
(* users that were members when it was taken: it may miss one and name       *)
(* another twice, but names no stranger.                                    *)
NoStranger ==
  \A r \in Readers : \A i \in DOMAIN readers[r].out :
    \E j \in DOMAIN readers[r].taken : readers[r].out[i] = readers[r].taken[j]

(* Only the deletion of a member can disturb an answer, and only while the    *)
(* group still has the slice it reads: updates leave what was taken alone.   *)
ExactUnlessDisturbed ==
  \A r \in Readers : ~readers[r].disturbed =>
    readers[r].out = SubSeq(readers[r].taken, 1, Len(readers[r].out))

(* How many of the first n elements of a list are not id.                    *)
Kept(list, id, n) == Cardinality({i \in 1..n : list[i] # id})

(* The compaction in place is exact: the group keeps the others, each as many *)
(* places from the start as others precede it, and nothing else.             *)
RemovalExact ==
  [][ ~Unlocked /\ removal' = NoRemoval =>
        LET was  == removal.was
            left == Members(group)'
        IN  /\ Len(left) = Kept(was, removal.id, Len(was))
            /\ \A i \in DOMAIN was : was[i] # removal.id => left[Kept(was, removal.id, i)] = was[i] ]_vars
=============================================================================
