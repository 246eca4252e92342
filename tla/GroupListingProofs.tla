------------------------- MODULE GroupListingProofs -------------------------
(***************************************************************************)
(* Proofs about GroupListing, for every value of its constants: any lists  *)
(* of members, any number of readers and of arrays.                        *)
(***************************************************************************)
EXTENDS GroupListing, FiniteSetTheorems, SequenceTheorems, TLAPS

Elem == Nat \ {0}
Has(list, id) == \E i \in DOMAIN list : list[i] = id

----------------------------------------------------------------------------
(* Types.                                                                  *)

Slice   == [array : Nat, len : Nat]
Removal == [id : Nat, from : Nat, to : Nat, was : Seq(Elem)]
Reader  == [slice : Slice, taken : Seq(Elem), out : Seq(Elem), disturbed : BOOLEAN]

(* Slices lie in arrays that were made; a removal has not passed the end of   *)
(* the group, and writes where it has read; the sender of an answer is within *)
(* what it took.  Two slices of one array share its elements: that of the     *)
(* group is never the longer one.                                           *)
ReaderOK(reader) ==
  /\ reader.slice.len = Len(reader.taken) /\ Len(reader.out) <= reader.slice.len
  /\ reader.slice.array \in 0..Len(arrays)
  /\ reader.slice.array = 0 => reader.slice.len = 0
  /\ reader.slice.array # 0 => reader.slice.len <= Len(arrays[reader.slice.array])
  /\ reader.slice.array = group.array => group.len <= reader.slice.len

TypeOK ==
  /\ arrays \in Seq(Seq(Elem))
  /\ group \in Slice
  /\ group.array \in 1..Len(arrays) /\ group.len <= Len(arrays[group.array])
  /\ removal \in Removal
  /\ removal.id = 0 => removal = NoRemoval
  /\ removal.id # 0 =>
       /\ Len(removal.was) = group.len
       /\ 1 <= removal.to /\ removal.to <= removal.from /\ removal.from <= group.len + 1
  /\ readers \in [Readers -> Reader]
  /\ \A r \in Readers : ReaderOK(readers[r])

(* What the type says of one reader.                                         *)
LEMMA ReaderFacts ==
  ASSUME TypeOK, NEW q \in Readers
  PROVE  /\ readers[q] \in Reader /\ ReaderOK(readers[q])
         /\ readers[q].slice.len \in Nat /\ Len(readers[q].out) \in Nat /\ Len(arrays) \in Nat
<1>1. readers[q] \in Reader /\ ReaderOK(readers[q])
  BY DEF TypeOK
<1>2. readers[q].slice \in Slice /\ readers[q].out \in Seq(Elem)
  BY <1>1 DEF Reader
<1>3. Len(readers[q].out) \in Nat
  BY <1>2
<1>4. Len(arrays) \in Nat
  BY DEF TypeOK
<1> QED BY <1>1, <1>2, <1>3, <1>4 DEF Slice

(* Writing one element of one array.                                        *)
LEMMA WriteFacts ==
  ASSUME TypeOK, NEW k \in Nat, 1 <= k, k <= group.len, NEW item \in Elem,
         arrays' = [arrays EXCEPT ![group.array][k] = item]
  PROVE  /\ arrays' \in Seq(Seq(Elem)) /\ Len(arrays') = Len(arrays)
         /\ \A a \in 1..Len(arrays) : Len(arrays'[a]) = Len(arrays[a])
         /\ \A a \in 1..Len(arrays) : \A i \in 1..Len(arrays[a]) :
              arrays'[a][i] = IF a = group.array /\ i = k THEN item ELSE arrays[a][i]
<1> DEFINE old == arrays[group.array]
           new == [old EXCEPT ![k] = item]
<1>1. old \in Seq(Elem) /\ k \in 1..Len(old) /\ group.array \in 1..Len(arrays)
  BY DEF TypeOK, Slice
<1>2. new \in Seq(Elem) /\ Len(new) = Len(old) /\ \A i \in 1..Len(old) : new[i] = IF i = k THEN item ELSE old[i]
  BY <1>1, ExceptSeq
<1>3. arrays' = [arrays EXCEPT ![group.array] = new] /\ arrays \in Seq(Seq(Elem))
  BY DEF TypeOK
<1> HIDE DEF new
<1>4. arrays' \in Seq(Seq(Elem)) /\ Len(arrays') = Len(arrays)
      /\ \A a \in 1..Len(arrays) : arrays'[a] = IF a = group.array THEN new ELSE arrays[a]
  BY <1>1, <1>2, <1>3, ExceptSeq
<1> QED BY <1>1, <1>2, <1>4

(* The elements of a slice, without the function SubSeq is.                  *)
LEMMA MembersFacts ==
  ASSUME NEW slice \in Slice, arrays \in Seq(Seq(Elem)), slice.array \in 1..Len(arrays),
         slice.len <= Len(arrays[slice.array])
  PROVE  /\ Members(slice) \in Seq(Elem) /\ Len(Members(slice)) = slice.len
         /\ \A i \in 1..slice.len : Members(slice)[i] = arrays[slice.array][i]
<1> DEFINE list == arrays[slice.array]
<1>1. list \in Seq(Elem) /\ slice.len \in Nat
  BY DEF Slice
<1>2. CASE slice.len = 0
  BY <1>2, EmptySeq DEF Members
<1>3. CASE slice.len # 0
  <2>1. \A i \in 1..slice.len : list[i] \in Elem
    BY <1>1, ElementOfSeq
  <2> HIDE DEF list
  <2>2. /\ SubSeq(list, 1, slice.len) \in Seq(Elem)
        /\ Len(SubSeq(list, 1, slice.len)) = slice.len
        /\ \A i \in 1..slice.len : SubSeq(list, 1, slice.len)[i] = list[i]
    BY <1>1, <1>3, <2>1, SubSeqProperties
  <2> QED BY <1>3, <2>2 DEF Members, list
<1> QED BY <1>2, <1>3

LEMMA GroupMembers ==
  ASSUME TypeOK
  PROVE  /\ Members(group) \in Seq(Elem) /\ Len(Members(group)) = group.len
         /\ \A i \in 1..group.len : Members(group)[i] = arrays[group.array][i]
BY MembersFacts DEF TypeOK

LEMMA InitType == Init => TypeOK
<1> SUFFICES ASSUME Init PROVE TypeOK
  OBVIOUS
<1>1. PICK list \in MemberLists : arrays = <<list>>
  BY DEF Init
<1>2. list \in Seq(Elem)
  BY MembersAssumption DEF Elem
<1>3. arrays \in Seq(Seq(Elem)) /\ Len(arrays) = 1 /\ arrays[1] = list
  BY <1>1, <1>2
<1>4. group \in Slice /\ group.array \in 1..Len(arrays) /\ group.len <= Len(arrays[group.array])
  BY <1>2, <1>3 DEF Init, Slice
<1>5. removal \in Removal /\ removal.id = 0
  BY EmptySeq DEF Init, NoRemoval, Removal
<1>6. Resting \in Reader
  BY EmptySeq DEF Resting, NoSlice, Reader, Slice
<1>7. readers \in [Readers -> Reader] /\ \A r \in Readers : readers[r] = Resting
  BY <1>6 DEF Init
<1>8. group.array = 1
  BY DEF Init
<1> QED BY <1>3, <1>4, <1>5, <1>7, <1>8, EmptySeq DEF TypeOK, ReaderOK, Init, Resting, NoSlice

(* A reader that begins with the slice of the group.                         *)
LEMMA HoldingType ==
  ASSUME NEW slice \in Slice, NEW members \in Seq(Elem), slice.len = Len(members)
  PROVE  /\ Holding(slice, members) \in Reader
         /\ Holding(slice, members).slice = slice /\ Holding(slice, members).taken = members
         /\ Holding(slice, members).out = <<>> /\ Holding(slice, members).disturbed = FALSE
BY EmptySeq DEF Holding, Reader

LEMMA ListGroupsType ==
  ASSUME TypeOK, NEW r \in Readers, ListGroups(r)
  PROVE  TypeOK'
<1>1. group \in Slice
  BY DEF TypeOK
<1>2. LET h == Holding(group, Members(group))
      IN  h \in Reader /\ h.slice = group /\ h.taken = Members(group) /\ h.out = <<>>
  BY <1>1, GroupMembers, HoldingType
<1>3. readers' \in [Readers -> Reader]
  BY <1>2 DEF TypeOK, ListGroups
<1>4. ASSUME NEW q \in Readers
      PROVE  ReaderOK(readers'[q])
  <2>1. CASE q = r
    <3>1. readers'[q] = Holding(group, Members(group))
      BY <2>1 DEF ListGroups, TypeOK
    <3>2. /\ readers'[q].slice = group /\ readers'[q].taken = Members(group) /\ readers'[q].out = <<>>
      BY <1>2, <3>1
    <3> QED BY <3>2, GroupMembers, EmptySeq DEF TypeOK, ReaderOK, Slice
  <2>2. CASE q # r
    BY <2>2 DEF ListGroups, TypeOK
  <2> QED BY <2>1, <2>2
<1> QED BY <1>3, <1>4 DEF TypeOK, ReaderOK, ListGroups

LEMMA UpdateGroupType ==
  ASSUME TypeOK, NEW r \in Readers, UpdateGroup(r)
  PROVE  TypeOK'
<1>1. PICK list \in MemberLists :
        /\ arrays' = Append(arrays, list)
        /\ group' = [array |-> Len(arrays) + 1, len |-> Len(list)]
        /\ readers' = [readers EXCEPT ![r] = Holding([array |-> Len(arrays) + 1, len |-> Len(list)], list)]
  BY DEF UpdateGroup
<1>2. list \in Seq(Elem) /\ Len(list) \in Nat /\ Len(arrays) \in Nat /\ arrays \in Seq(Seq(Elem))
  BY MembersAssumption DEF Elem, TypeOK
<1>3. /\ arrays' \in Seq(Seq(Elem)) /\ Len(arrays') = Len(arrays) + 1 /\ arrays'[Len(arrays) + 1] = list
      /\ \A a \in 1..Len(arrays) : arrays'[a] = arrays[a]
  BY <1>1, <1>2, AppendProperties
<1>4. group' \in Slice /\ group'.array = Len(arrays) + 1 /\ group'.len = Len(list)
  BY <1>1, <1>2 DEF Slice
<1>5. group'.array \in 1..Len(arrays') /\ group'.len <= Len(arrays'[group'.array])
  BY <1>2, <1>3, <1>4
<1>6. LET h == Holding(group', list)
      IN  /\ h \in Reader /\ h.slice = group' /\ h.taken = list /\ h.out = <<>>
          /\ readers' = [readers EXCEPT ![r] = h]
  BY <1>1, <1>2, <1>4, HoldingType
<1>7. readers' \in [Readers -> Reader]
  BY <1>6 DEF TypeOK
<1>8. removal' = removal /\ removal.id = 0
  BY DEF UpdateGroup, Unlocked, NoRemoval
<1>9. ASSUME NEW q \in Readers
      PROVE  ReaderOK(readers[q])'
  <2>1. CASE q = r
    <3>1. readers'[q] = Holding(group', list)
      BY <1>6, <2>1 DEF TypeOK
    <3>2. /\ readers'[q].slice = group' /\ readers'[q].taken = list /\ readers'[q].out = <<>>
      BY <1>6, <3>1
    <3> QED BY <1>2, <1>3, <1>4, <1>5, <3>2, EmptySeq DEF ReaderOK
  <2>2. CASE q # r
    <3>1. readers'[q] = readers[q]
      BY <1>1, <2>2 DEF TypeOK
    <3>2. readers[q].slice.array \in 0..Len(arrays) /\ ReaderOK(readers[q])
      BY DEF TypeOK, ReaderOK
    <3>3. readers[q].slice.array \in Nat /\ readers[q].slice.array <= Len(arrays)
      BY <1>2, <3>2
    <3>4. readers[q].slice.array # group'.array
      BY <1>2, <1>4, <3>3
    <3>5. readers[q].slice.array # 0 => arrays'[readers[q].slice.array] = arrays[readers[q].slice.array]
      BY <1>2, <1>3, <3>3
    <3> QED BY <1>2, <1>3, <3>1, <3>2, <3>4, <3>5 DEF ReaderOK
  <2> QED BY <2>1, <2>2
<1> QED BY <1>3, <1>4, <1>5, <1>7, <1>8, <1>9 DEF TypeOK

LEMMA EncodeNextType ==
  ASSUME TypeOK, NEW r \in Readers, EncodeNext(r)
  PROVE  TypeOK'
<1> DEFINE reader == readers[r]
           item   == arrays[reader.slice.array][Len(reader.out) + 1]
<1>1. reader \in Reader /\ ReaderOK(reader) /\ Len(reader.out) < reader.slice.len
  BY DEF TypeOK, EncodeNext, Reading
<1>2. reader.out \in Seq(Elem) /\ Len(reader.out) \in Nat /\ reader.slice.len \in Nat
  BY <1>1 DEF Reader, Slice
<1>3. item \in Elem
  <2>1. reader.slice.array \in 1..Len(arrays) /\ reader.slice.len <= Len(arrays[reader.slice.array])
    BY <1>1, <1>2 DEF ReaderOK
  <2>2. arrays[reader.slice.array] \in Seq(Elem)
    BY <2>1 DEF TypeOK
  <2> QED BY <1>1, <1>2, <2>1, <2>2, ElementOfSeq
<1> DEFINE new == [reader EXCEPT !.out = Append(@, item)]
<1>4. readers' = [readers EXCEPT ![r] = new]
  BY DEF EncodeNext
<1> HIDE DEF item
<1>5. Append(reader.out, item) \in Seq(Elem) /\ Len(Append(reader.out, item)) = Len(reader.out) + 1
  BY <1>2, <1>3
<1>6. new \in Reader /\ new.slice = reader.slice /\ new.taken = reader.taken
      /\ new.out = Append(reader.out, item)
  BY <1>1, <1>5 DEF Reader
<1> HIDE DEF new
<1>7. ReaderOK(new)
  BY <1>1, <1>2, <1>5, <1>6 DEF ReaderOK
<1>8. readers' \in [Readers -> Reader] /\ \A q \in Readers : ReaderOK(readers'[q])
  BY <1>4, <1>6, <1>7 DEF TypeOK
<1> QED BY <1>8 DEF TypeOK, ReaderOK, EncodeNext

(* A deletion that begins changes no reader but for the mark.                *)
LEMMA DisturbedFacts ==
  ASSUME TypeOK, NEW id
  PROVE  /\ Disturbed(id) \in [Readers -> Reader]
         /\ \A r \in Readers :
              /\ Disturbed(id)[r].slice = readers[r].slice /\ Disturbed(id)[r].taken = readers[r].taken
              /\ Disturbed(id)[r].out = readers[r].out
              /\ readers[r].disturbed => Disturbed(id)[r].disturbed
              /\ ~Disturbed(id)[r].disturbed /\ Reading(r) /\ readers[r].slice.array = group.array
                   => ~Has(Members(group), id)
<1>1. ASSUME NEW r \in Readers
      PROVE  LET new == [readers[r] EXCEPT !.disturbed = TRUE]
             IN  /\ new \in Reader /\ new.slice = readers[r].slice /\ new.taken = readers[r].taken
                 /\ new.out = readers[r].out /\ new.disturbed
                 /\ readers[r] \in Reader
  BY DEF TypeOK, Reader
<1>2. Has(Members(group), id) <=> \E i \in 1..group.len : Members(group)[i] = id
  BY GroupMembers DEF Has
<1> QED BY <1>1, <1>2 DEF Disturbed

LEMMA DeleteUserType ==
  ASSUME TypeOK, NEW id \in Ids, DeleteUser(id)
  PROVE  TypeOK'
<1>1. id \in Elem
  <2>1. PICK list \in MemberLists : \E i \in DOMAIN list : id = list[i]
    BY DEF Ids
  <2> QED BY <2>1, MembersAssumption, ElementOfSeq DEF Elem
<1>2. removal' = [id |-> id, from |-> 1, to |-> 1, was |-> Members(group)]
  BY DEF DeleteUser
<1>3. removal' \in Removal /\ removal'.id = id /\ removal'.from = 1 /\ removal'.to = 1
      /\ removal'.was = Members(group)
  BY <1>1, <1>2, GroupMembers DEF Removal, Elem
<1>4. group.len \in Nat
  BY DEF TypeOK, Slice
<1>5. readers' \in [Readers -> Reader] /\ \A q \in Readers : ReaderOK(readers'[q])
  BY DisturbedFacts DEF DeleteUser, TypeOK, ReaderOK
<1> QED BY <1>1, <1>3, <1>4, <1>5, GroupMembers DEF TypeOK, DeleteUser, ReaderOK, Elem

(* A step of a removal, in terms of the array it works on.                   *)
LEMMA RemoveNextFacts ==
  ASSUME TypeOK, RemoveNext
  PROVE  /\ removal.id # 0 /\ removal.from \in 1..group.len /\ removal.to \in 1..removal.from
         /\ group' = group /\ readers' = readers
         /\ removal' \in Removal /\ removal'.id = removal.id /\ removal'.was = removal.was
         /\ removal'.from = removal.from + 1
         /\ LET item == arrays[group.array][removal.from]
            IN  /\ item \in Elem
                /\ \/ item = removal.id /\ arrays' = arrays /\ removal'.to = removal.to
                   \/ /\ item # removal.id /\ removal'.to = removal.to + 1
                      /\ arrays' = [arrays EXCEPT ![group.array][removal.to] = item]
<1> DEFINE item == arrays[group.array][removal.from]
<1>1. removal \in Removal /\ group \in Slice
  BY DEF TypeOK
<1>2. removal.id # 0 /\ removal.from <= group.len
  BY DEF TypeOK, RemoveNext, Unlocked
<1>3. removal.from \in 1..group.len /\ removal.to \in 1..removal.from
  BY <1>1, <1>2 DEF TypeOK, Removal, Slice
<1>4. item \in Elem
  <2>1. arrays[group.array] \in Seq(Elem) /\ removal.from \in 1..Len(arrays[group.array])
    BY <1>1, <1>3 DEF TypeOK, Slice
  <2> QED BY <2>1, ElementOfSeq
<1> HIDE DEF item
<1>5. CASE item = removal.id
  <2>1. removal' = [removal EXCEPT !.from = @ + 1] /\ arrays' = arrays
    BY <1>5 DEF RemoveNext, item
  <2> QED BY <1>1, <1>2, <1>3, <1>4, <1>5, <2>1 DEF Removal, RemoveNext, item
<1>6. CASE item # removal.id
  <2>1. /\ removal' = [removal EXCEPT !.from = @ + 1, !.to = @ + 1]
        /\ arrays' = [arrays EXCEPT ![group.array][removal.to] = item]
    BY <1>6 DEF RemoveNext, item
  <2>2. /\ removal' \in Removal /\ removal'.id = removal.id /\ removal'.was = removal.was
        /\ removal'.from = removal.from + 1 /\ removal'.to = removal.to + 1
    <3>1. removal.from + 1 \in Nat /\ removal.to + 1 \in Nat
      BY <1>1 DEF Removal
    <3>2. removal' = [id |-> removal.id, from |-> removal.from + 1, to |-> removal.to + 1, was |-> removal.was]
      BY <1>1, <2>1 DEF Removal
    <3> QED BY <1>1, <3>1, <3>2 DEF Removal
  <2>3. group' = group /\ readers' = readers
    BY DEF RemoveNext
  <2> QED BY <1>2, <1>3, <1>4, <1>6, <2>1, <2>2, <2>3 DEF item
<1> QED BY <1>5, <1>6

LEMMA RemoveNextType ==
  ASSUME TypeOK, RemoveNext
  PROVE  TypeOK'
<1> DEFINE item == arrays[group.array][removal.from]
<1>1. group.len \in Nat /\ removal.from \in Nat /\ removal.to \in Nat
  BY DEF TypeOK, Slice, Removal
<1>2. /\ removal.id # 0 /\ removal.from \in 1..group.len /\ removal.to \in 1..removal.from
      /\ group' = group /\ readers' = readers
      /\ removal' \in Removal /\ removal'.id = removal.id /\ removal'.was = removal.was
      /\ removal'.from = removal.from + 1 /\ item \in Elem
      /\ removal'.to = removal.to \/ removal'.to = removal.to + 1
      /\ \/ arrays' = arrays
         \/ arrays' = [arrays EXCEPT ![group.array][removal.to] = item]
  BY RemoveNextFacts
<1>3. /\ arrays' \in Seq(Seq(Elem)) /\ Len(arrays') = Len(arrays)
      /\ \A a \in 1..Len(arrays) : Len(arrays'[a]) = Len(arrays[a])
  <2>1. CASE arrays' = arrays
    BY <2>1 DEF TypeOK
  <2>2. CASE arrays' = [arrays EXCEPT ![group.array][removal.to] = item]
    <3> HIDE DEF item
    <3>1. 1 <= removal.to /\ removal.to <= group.len
      BY <1>1, <1>2
    <3> QED BY <1>1, <1>2, <2>2, <3>1, WriteFacts
  <2> QED BY <1>2, <2>1, <2>2
<1>4. Len(arrays) \in Nat
  BY DEF TypeOK
<1>5. ASSUME NEW r \in Readers
      PROVE  ReaderOK(readers[r])'
  <2>1. ReaderOK(readers[r]) /\ readers'[r] = readers[r] /\ group' = group
    BY <1>2 DEF TypeOK
  <2>2. readers[r].slice.array # 0 =>
          Len(arrays'[readers[r].slice.array]) = Len(arrays[readers[r].slice.array])
    BY <1>3, <1>4, <2>1 DEF ReaderOK
  <2> QED BY <1>3, <2>1, <2>2 DEF ReaderOK
<1>6. group'.array \in 1..Len(arrays') /\ group'.len <= Len(arrays'[group'.array])
  BY <1>2, <1>3 DEF TypeOK
<1> QED BY <1>1, <1>2, <1>3, <1>5, <1>6 DEF TypeOK

LEMMA RemoveEndType ==
  ASSUME TypeOK, RemoveEnd
  PROVE  TypeOK'
<1>1. removal.id # 0 /\ removal.from = group.len + 1 /\ removal.to \in 1..removal.from
  BY DEF TypeOK, RemoveEnd, Unlocked, Removal, Slice
<1>2. group' \in Slice /\ group'.array = group.array /\ group'.len = removal.to - 1
      /\ group'.len <= group.len
  BY <1>1 DEF TypeOK, RemoveEnd, Slice
<1>3. removal' = NoRemoval /\ NoRemoval \in Removal /\ NoRemoval.id = 0
  BY EmptySeq DEF RemoveEnd, NoRemoval, Removal
<1>4. arrays' = arrays /\ readers' = readers
  BY DEF RemoveEnd
<1>5. group.len \in Nat /\ group'.len \in Nat /\ Len(arrays[group.array]) \in Nat
  BY <1>2 DEF TypeOK, Slice
<1>6. \A r \in Readers : ReaderOK(readers[r])'
  BY <1>2, <1>4, <1>5 DEF TypeOK, ReaderOK, Reader, Slice
<1>7. group'.array \in 1..Len(arrays') /\ group'.len <= Len(arrays'[group'.array])
  BY <1>2, <1>4, <1>5 DEF TypeOK
<1> QED BY <1>2, <1>3, <1>4, <1>6, <1>7 DEF TypeOK

LEMMA StepType ==
  ASSUME TypeOK, [Next]_vars
  PROVE  TypeOK'
<1>1. CASE UNCHANGED vars
  BY <1>1 DEF vars, TypeOK, ReaderOK
<1>2. CASE Next
  BY <1>2, ListGroupsType, UpdateGroupType, EncodeNextType, DeleteUserType, RemoveNextType, RemoveEndType
     DEF Next
<1> QED BY <1>1, <1>2

LEMMA TypeCorrect == Spec => []TypeOK
<1>1. TypeOK /\ [Next]_vars => TypeOK'
  BY StepType
<1> QED BY <1>1, InitType, PTL DEF Spec

----------------------------------------------------------------------------
(* No answer names a stranger.                                             *)

(* What a reader sent, and what its slice holds now, was in the group when it *)
(* took it: compaction moves elements of the group only to places before      *)
(* them, which every slice of that array has.                               *)
StrangerInv ==
  \A r \in Readers :
    LET reader == readers[r]
    IN  /\ \A i \in 1..Len(reader.out) : Has(reader.taken, reader.out[i])
        /\ \A i \in 1..reader.slice.len : Has(reader.taken, arrays[reader.slice.array][i])

LEMMA StrangerStep ==
  ASSUME TypeOK, StrangerInv, [Next]_vars
  PROVE  StrangerInv'
<1> DEFINE Fine(reader, as) ==
             /\ \A i \in 1..Len(reader.out) : Has(reader.taken, reader.out[i])
             /\ \A i \in 1..reader.slice.len : Has(reader.taken, as[reader.slice.array][i])
<1>0. \A r \in Readers : Fine(readers[r], arrays)
  BY DEF StrangerInv
<1>1. ASSUME \A r \in Readers : Fine(readers'[r], arrays')
      PROVE  StrangerInv'
  BY <1>1 DEF StrangerInv
<1>2. CASE UNCHANGED vars
  BY <1>2 DEF vars, StrangerInv
<1>3. ASSUME NEW r \in Readers, ListGroups(r)
      PROVE  StrangerInv'
  <2>1. group \in Slice
    BY DEF TypeOK
  <2>2. LET h == Holding(group, Members(group))
        IN  h.slice = group /\ h.taken = Members(group) /\ h.out = <<>>
    BY <2>1, GroupMembers, HoldingType
  <2>3. Fine(Holding(group, Members(group)), arrays)
    BY <2>2, GroupMembers, EmptySeq DEF Has
  <2> HIDE DEF Fine
  <2>4. \A q \in Readers : Fine(readers'[q], arrays')
    BY <1>0, <1>3, <2>3 DEF ListGroups, TypeOK
  <2> QED BY <1>1, <2>4
<1>4. ASSUME NEW r \in Readers, UpdateGroup(r)
      PROVE  StrangerInv'
  <2>1. PICK list \in MemberLists :
          /\ arrays' = Append(arrays, list)
          /\ readers' = [readers EXCEPT ![r] = Holding([array |-> Len(arrays) + 1, len |-> Len(list)], list)]
    BY <1>4 DEF UpdateGroup
  <2> DEFINE slice == [array |-> Len(arrays) + 1, len |-> Len(list)]
  <2>2. list \in Seq(Elem) /\ Len(arrays) \in Nat /\ slice \in Slice /\ slice.len = Len(list)
        /\ slice.array = Len(arrays) + 1
    BY MembersAssumption DEF Elem, TypeOK, Slice
  <2>3. arrays'[Len(arrays) + 1] = list /\ \A a \in 1..Len(arrays) : arrays'[a] = arrays[a]
    BY <2>1, <2>2, AppendProperties DEF TypeOK
  <2> HIDE DEF slice
  <2>4. LET h == Holding(slice, list)
        IN  h.slice = slice /\ h.taken = list /\ h.out = <<>>
    BY <2>2, HoldingType
  <2>5. Fine(Holding(slice, list), arrays')
    BY <2>2, <2>3, <2>4, EmptySeq DEF Has
  <2>6. ASSUME NEW q \in Readers PROVE Fine(readers[q], arrays')
    <3>1. ReaderOK(readers[q]) /\ readers[q].slice.len \in Nat
      BY DEF TypeOK, Reader, Slice
    <3>2. CASE readers[q].slice.array = 0
      BY <1>0, <3>1, <3>2 DEF ReaderOK
    <3>3. CASE readers[q].slice.array # 0
      <4>1. arrays'[readers[q].slice.array] = arrays[readers[q].slice.array]
        BY <2>2, <2>3, <3>1, <3>3 DEF ReaderOK
      <4> QED BY <1>0, <4>1
    <3> QED BY <3>2, <3>3
  <2> HIDE DEF Fine
  <2>7. \A q \in Readers : Fine(readers'[q], arrays')
    BY <2>1, <2>5, <2>6 DEF TypeOK, slice
  <2> QED BY <1>1, <2>7
<1>5. ASSUME NEW r \in Readers, EncodeNext(r)
      PROVE  StrangerInv'
  <2> DEFINE reader == readers[r]
             item   == arrays[reader.slice.array][Len(reader.out) + 1]
             new    == [reader EXCEPT !.out = Append(@, item)]
  <2>1. reader \in Reader /\ Len(reader.out) < reader.slice.len
    BY <1>5 DEF TypeOK, EncodeNext, Reading
  <2>2. reader.out \in Seq(Elem) /\ Len(reader.out) \in Nat /\ reader.slice.len \in Nat
    BY <2>1 DEF Reader, Slice
  <2>3. Has(reader.taken, item)
    BY <1>0, <2>1, <2>2
  <2>4. readers' = [readers EXCEPT ![r] = new] /\ arrays' = arrays
    BY <1>5 DEF EncodeNext
  <2> HIDE DEF item
  <2>5. new.slice = reader.slice /\ new.taken = reader.taken /\ new.out = Append(reader.out, item)
    BY <2>1 DEF Reader
  <2>6. Len(new.out) = Len(reader.out) + 1 /\ new.out[Len(reader.out) + 1] = item
        /\ \A i \in 1..Len(reader.out) : new.out[i] = reader.out[i]
    BY <2>2, <2>5
  <2> HIDE DEF new
  <2>7. Fine(new, arrays)
    BY <1>0, <2>2, <2>3, <2>5, <2>6
  <2> HIDE DEF Fine
  <2>8. \A q \in Readers : Fine(readers'[q], arrays')
    BY <1>0, <2>4, <2>7 DEF TypeOK
  <2> QED BY <1>1, <2>8
<1>6. ASSUME NEW id \in Ids, DeleteUser(id)
      PROVE  StrangerInv'
  <2>1. \A q \in Readers : Fine(readers'[q], arrays')
    BY <1>0, <1>6, DisturbedFacts DEF DeleteUser
  <2> QED BY <1>1, <2>1
<1>7. CASE RemoveNext
  <2> DEFINE item == arrays[group.array][removal.from]
  <2>1. /\ removal.from \in 1..group.len /\ removal.to \in 1..removal.from
        /\ readers' = readers /\ item \in Elem
        /\ arrays' = arrays \/ arrays' = [arrays EXCEPT ![group.array][removal.to] = item]
    BY <1>7, RemoveNextFacts
  <2>2. group.len \in Nat /\ 1 <= removal.to /\ removal.to <= group.len /\ removal.to \in Nat
    BY <2>1 DEF TypeOK, Slice, Removal
  <2>3. ASSUME NEW q \in Readers, NEW i \in 1..readers[q].slice.len
        PROVE  Has(readers[q].taken, arrays'[readers[q].slice.array][i])
    <3> DEFINE a == readers[q].slice.array
    <3>1. ReaderOK(readers[q]) /\ readers[q].slice.len \in Nat /\ Len(arrays) \in Nat
      BY DEF TypeOK, Reader, Slice
    <3>2. a \in 1..Len(arrays) /\ i \in 1..Len(arrays[a])
      BY <3>1 DEF ReaderOK, TypeOK
    <3>3. Has(readers[q].taken, arrays[a][i])
      BY <1>0
    <3>4. CASE arrays' = arrays
      BY <3>3, <3>4
    <3>5. CASE arrays' = [arrays EXCEPT ![group.array][removal.to] = item]
      <4>1. arrays'[a][i] = IF a = group.array /\ i = removal.to THEN item ELSE arrays[a][i]
        <5> HIDE DEF item
        <5> QED BY <2>1, <2>2, <3>2, <3>5, WriteFacts
      <4>2. a = group.array => Has(readers[q].taken, item)
        <5> SUFFICES ASSUME a = group.array PROVE Has(readers[q].taken, item)
          OBVIOUS
        <5>1. group.len <= readers[q].slice.len
          BY <3>1 DEF ReaderOK
        <5>2. removal.from \in 1..readers[q].slice.len
          BY <2>1, <2>2, <3>1, <5>1
        <5> QED BY <1>0, <5>2
      <4> QED BY <3>3, <4>1, <4>2
    <3> QED BY <2>1, <3>4, <3>5
  <2>4. \A q \in Readers : Fine(readers'[q], arrays')
    BY <1>0, <2>1, <2>3
  <2> QED BY <1>1, <2>4
<1>8. CASE RemoveEnd
  BY <1>8 DEF RemoveEnd, StrangerInv
<1> QED BY <1>2, <1>3, <1>4, <1>5, <1>6, <1>7, <1>8 DEF Next

(* However deletions cut into the encoding of a group, an answer names only   *)
(* users that were members when it was taken.                               *)
THEOREM NeverAStranger == Spec => []NoStranger
<1>1. Init => StrangerInv
  BY EmptySeq DEF Init, StrangerInv, Resting, NoSlice
<1>2. TypeOK /\ StrangerInv /\ [Next]_vars => StrangerInv'
  BY StrangerStep
<1>3. TypeOK /\ StrangerInv => NoStranger
  <2> SUFFICES ASSUME TypeOK, StrangerInv, NEW r \in Readers, NEW i \in DOMAIN readers[r].out
               PROVE  \E j \in DOMAIN readers[r].taken : readers[r].out[i] = readers[r].taken[j]
    BY DEF NoStranger
  <2>1. i \in 1..Len(readers[r].out)
    BY DEF TypeOK, Reader
  <2>2. Has(readers[r].taken, readers[r].out[i])
    BY <2>1 DEF StrangerInv
  <2> QED BY <2>2 DEF Has
<1> QED BY <1>1, <1>2, <1>3, TypeCorrect, PTL DEF Spec

----------------------------------------------------------------------------
(* The compaction is exact.                                                *)

LEMMA KeptFacts ==
  ASSUME NEW list \in Seq(Elem), NEW id, NEW n \in 0..Len(list)
  PROVE  /\ Kept(list, id, n) \in Nat
         /\ Kept(list, id, 0) = 0
         /\ n < Len(list) => Kept(list, id, n + 1) = IF list[n + 1] # id THEN Kept(list, id, n) + 1
                                                     ELSE Kept(list, id, n)
         /\ \A m \in 0..n : Kept(list, id, m) <= Kept(list, id, n)
         /\ \A m \in 1..n : list[m] # id => 1 <= Kept(list, id, m)
<1> DEFINE places(m) == {i \in 1..m : list[i] # id}
<1>1. \A m \in 0..Len(list) : IsFiniteSet(places(m)) /\ Kept(list, id, m) = Cardinality(places(m))
  <2> SUFFICES ASSUME NEW m \in 0..Len(list) PROVE IsFiniteSet(places(m))
    BY DEF Kept
  <2>1. IsFiniteSet(1..m) /\ places(m) \subseteq 1..m
    BY FS_Interval
  <2> QED BY <2>1, FS_Subset
<1>2. Kept(list, id, n) \in Nat
  BY <1>1, FS_CardinalityType
<1>3. Kept(list, id, 0) = 0
  <2>1. places(0) = {}
    OBVIOUS
  <2> QED BY <2>1, FS_EmptySet DEF Kept
<1>4. ASSUME n < Len(list)
      PROVE  Kept(list, id, n + 1) = IF list[n + 1] # id THEN Kept(list, id, n) + 1 ELSE Kept(list, id, n)
  <2>1. places(n + 1) = IF list[n + 1] # id THEN places(n) \cup {n + 1} ELSE places(n)
    OBVIOUS
  <2>2. n + 1 \notin places(n)
    OBVIOUS
  <2> HIDE DEF places
  <2>3. Cardinality(places(n) \cup {n + 1}) = Cardinality(places(n)) + 1
    BY <1>1, <2>2, FS_AddElement
  <2>4. n + 1 \in 0..Len(list)
    BY <1>4
  <2> QED BY <1>1, <2>1, <2>3, <2>4
<1>5. ASSUME NEW m \in 0..n
      PROVE  Kept(list, id, m) <= Kept(list, id, n)
  <2>1. places(m) \subseteq places(n)
    OBVIOUS
  <2>2. m \in 0..Len(list)
    OBVIOUS
  <2> HIDE DEF places
  <2> QED BY <1>1, <2>1, <2>2, FS_Subset
<1>6. ASSUME NEW m \in 1..n, list[m] # id
      PROVE  1 <= Kept(list, id, m)
  <2>1. {m} \subseteq places(m) /\ m \in 0..Len(list)
    BY <1>6
  <2> HIDE DEF places
  <2>2. Cardinality({m}) = 1 /\ IsFiniteSet(places(m))
    BY <1>1, <2>1, FS_Singleton
  <2>3. Cardinality({m}) <= Cardinality(places(m))
    BY <2>1, <2>2, FS_Subset
  <2> QED BY <1>1, <2>1, <2>2, <2>3
<1> QED BY <1>2, <1>3, <1>4, <1>5, <1>6

(* While a removal is under way, what it has not read is as it was, and what   *)
(* it kept of the rest is packed at the front of the array.                  *)
RemovalInv ==
  removal.id # 0 =>
    LET now == arrays[group.array]
        was == removal.was
    IN  /\ \A i \in removal.from..group.len : now[i] = was[i]
        /\ removal.to - 1 = Kept(was, removal.id, removal.from - 1)
        /\ \A i \in 1..(removal.from - 1) : was[i] # removal.id => now[Kept(was, removal.id, i)] = was[i]
        /\ ~Has(was, removal.id) => removal.to = removal.from

LEMMA RemovalStep ==
  ASSUME TypeOK, RemovalInv, [Next]_vars
  PROVE  RemovalInv'
<1>1. CASE UNCHANGED <<arrays, group, removal>>
  BY <1>1 DEF RemovalInv
<1>2. ASSUME NEW r \in Readers, ListGroups(r) \/ EncodeNext(r)
      PROVE  RemovalInv'
  BY <1>1, <1>2 DEF ListGroups, EncodeNext
<1>3. ASSUME NEW r \in Readers, UpdateGroup(r)
      PROVE  RemovalInv'
  BY <1>3 DEF UpdateGroup, Unlocked, NoRemoval, RemovalInv
<1>4. ASSUME NEW id \in Ids, DeleteUser(id)
      PROVE  RemovalInv'
  <2>1. /\ removal'.id = id /\ removal'.from = 1 /\ removal'.to = 1 /\ removal'.was = Members(group)
        /\ arrays' = arrays /\ group' = group
    BY <1>4 DEF DeleteUser
  <2>2. Kept(Members(group), id, 0) = 0
    BY GroupMembers, KeptFacts
  <2> QED BY <2>1, <2>2, GroupMembers DEF RemovalInv
<1>5. CASE RemoveNext
  <2> DEFINE n    == removal.from
             was  == removal.was
             old  == arrays[group.array]
             item == old[n]
             k(i) == Kept(was, removal.id, i)
  <2>1. /\ removal.id # 0 /\ removal.id \in Nat /\ n \in 1..group.len /\ removal.to \in 1..n
        /\ group' = group
        /\ removal'.id = removal.id /\ removal'.was = was /\ removal'.from = n + 1
        /\ item \in Elem
    BY <1>5, RemoveNextFacts DEF TypeOK, Removal
  <2>2. /\ was \in Seq(Elem) /\ Len(was) = group.len /\ group.len \in Nat /\ n - 1 \in 0..Len(was)
    BY <2>1 DEF TypeOK, Removal, Slice
  <2>3. /\ \A i \in n..group.len : old[i] = was[i]
        /\ removal.to - 1 = k(n - 1)
        /\ \A i \in 1..(n - 1) : was[i] # removal.id => old[k(i)] = was[i]
        /\ ~Has(was, removal.id) => removal.to = n
    BY <2>1 DEF RemovalInv
  <2>4. item = was[n] /\ n \in DOMAIN was
    BY <2>1, <2>2, <2>3
  <2>5. k(n) = IF was[n] # removal.id THEN k(n - 1) + 1 ELSE k(n - 1)
    <3>1. \A i \in 0..Len(was) : i < Len(was) => k(i + 1) = IF was[i + 1] # removal.id THEN k(i) + 1 ELSE k(i)
      BY <2>2, KeptFacts
    <3>2. (n - 1) + 1 = n /\ n - 1 < Len(was)
      BY <2>1, <2>2
    <3> HIDE DEF k
    <3>3. k((n - 1) + 1) = IF was[(n - 1) + 1] # removal.id THEN k(n - 1) + 1 ELSE k(n - 1)
      BY <2>2, <3>1, <3>2
    <3> QED BY <3>2, <3>3
  <2>6. CASE item = removal.id
    <3>1. arrays' = arrays /\ removal'.to = removal.to
      BY <1>5, <2>6, RemoveNextFacts
    <3>2. Has(was, removal.id)
      BY <2>4, <2>6 DEF Has
    <3>3. removal'.to - 1 = k(n)
      BY <2>3, <2>4, <2>5, <2>6, <3>1
    <3>4. \A i \in 1..n : was[i] # removal.id => old[k(i)] = was[i]
      BY <2>1, <2>3, <2>4, <2>6
    <3> QED BY <2>1, <2>2, <2>3, <3>1, <3>2, <3>3, <3>4 DEF RemovalInv
  <2>7. CASE item # removal.id
    <3>1. /\ removal'.to = removal.to + 1
          /\ arrays' = [arrays EXCEPT ![group.array][removal.to] = item]
      BY <1>5, <2>7, RemoveNextFacts
    <3> HIDE DEF item
    <3> DEFINE new == arrays'[group.array]
    <3>2. \A i \in 1..group.len : new[i] = IF i = removal.to THEN item ELSE old[i]
      <4>1. removal.to \in Nat /\ 1 <= removal.to /\ removal.to <= group.len
        BY <2>1, <2>2
      <4>2. group.array \in 1..Len(arrays) /\ Len(old) \in Nat /\ group.len <= Len(old)
        BY DEF TypeOK
      <4> QED BY <2>1, <2>2, <3>1, <4>1, <4>2, WriteFacts
    <3> HIDE DEF new
    <3>3. \A i \in (n + 1)..group.len : new[i] = was[i]
      BY <2>1, <2>2, <2>3, <3>2
    <3>4. removal'.to - 1 = k(n) /\ k(n) = removal.to
      BY <2>1, <2>3, <2>4, <2>5, <2>7, <3>1
    <3>5. ASSUME NEW i \in 1..n, was[i] # removal.id
          PROVE  new[k(i)] = was[i]
      <4>1. CASE i = n
        BY <2>1, <2>2, <2>4, <3>2, <3>4, <4>1
      <4>2. CASE i # n
        <5>1. i \in 1..(n - 1)
          BY <2>1, <4>2
        <5>2. 1 <= k(i) /\ k(i) <= k(n - 1) /\ k(i) \in Nat
          <6>1. i \in 0..(n - 1) /\ i \in 0..Len(was)
            BY <2>2, <5>1
          <6> QED BY <2>2, <3>5, <5>1, <6>1, KeptFacts
        <5>3. k(i) # removal.to /\ k(i) \in 1..group.len
          BY <2>1, <2>2, <2>3, <5>2
        <5> QED BY <2>3, <3>2, <3>5, <5>1, <5>3
      <4> QED BY <4>1, <4>2
    <3>6. ~Has(was, removal.id) => removal'.to = n + 1
      BY <2>1, <2>3, <3>1
    <3> QED BY <2>1, <3>3, <3>4, <3>5, <3>6 DEF RemovalInv, new
  <2> QED BY <2>6, <2>7
<1>6. CASE RemoveEnd
  BY <1>6 DEF RemoveEnd, NoRemoval, RemovalInv
<1> QED BY <1>1, <1>2, <1>3, <1>4, <1>5, <1>6 DEF Next, vars

LEMMA RemovalInvariant == Spec => []RemovalInv
<1>1. Init => RemovalInv
  BY DEF Init, NoRemoval, RemovalInv
<1>2. TypeOK /\ RemovalInv /\ [Next]_vars => RemovalInv'
  BY RemovalStep
<1> QED BY <1>1, <1>2, TypeCorrect, PTL DEF Spec

(* When a removal is through, the group has exactly the others, in order and   *)
(* as often as they were in it.                                             *)
THEOREM RemovalAlwaysExact == Spec => RemovalExact
<1> DEFINE Exact ==
      LET was  == removal.was
          left == Members(group)'
      IN  /\ Len(left) = Kept(was, removal.id, Len(was))
          /\ \A i \in DOMAIN was : was[i] # removal.id => left[Kept(was, removal.id, i)] = was[i]
<1>1. ASSUME TypeOK, TypeOK', RemovalInv, [Next]_vars, ~Unlocked, removal' = NoRemoval
      PROVE  Exact
  <2>1. removal.id # 0
    BY <1>1 DEF TypeOK, Unlocked
  <2>2. RemoveEnd
    BY <1>1, <2>1, RemoveNextFacts DEF Next, vars, Unlocked, NoRemoval, ListGroups, UpdateGroup, EncodeNext, DeleteUser
  <2>3. /\ removal.from > group.len /\ group' = [group EXCEPT !.len = removal.to - 1] /\ arrays' = arrays
    BY <2>2 DEF RemoveEnd
  <2> DEFINE was == removal.was
             k(i) == Kept(was, removal.id, i)
  <2>4. /\ was \in Seq(Elem) /\ Len(was) = group.len /\ group.len \in Nat /\ removal.from = group.len + 1
        /\ removal.to \in 1..(group.len + 1)
    BY <1>1, <2>1, <2>3 DEF TypeOK, Removal, Slice
  <2>5. /\ removal.to - 1 = k(Len(was))
        /\ \A i \in 1..Len(was) : was[i] # removal.id => arrays[group.array][k(i)] = was[i]
    <3>1. removal.from - 1 = Len(was)
      BY <2>4
    <3> QED BY <1>1, <2>1, <3>1 DEF RemovalInv
  <2>6. group'.len = k(Len(was)) /\ group'.array = group.array
    BY <1>1, <2>3, <2>5 DEF TypeOK, Slice
  <2>7. /\ Len(Members(group)') = group'.len
        /\ \A i \in 1..group'.len : Members(group)'[i] = arrays[group.array][i]
    <3>1. group' \in Slice /\ arrays \in Seq(Seq(Elem)) /\ group'.array \in 1..Len(arrays)
          /\ group'.len <= Len(arrays[group'.array])
      BY <1>1, <2>3 DEF TypeOK
    <3>2. Members(group)' = Members(group')
      BY <2>3 DEF Members
    <3> QED BY <2>6, <3>1, <3>2, MembersFacts
  <2>8. ASSUME NEW i \in DOMAIN was, was[i] # removal.id
        PROVE  Members(group)'[k(i)] = was[i]
    <3>1. i \in 1..Len(was) /\ Len(was) \in 0..Len(was)
      BY <2>4
    <3>2. 1 <= k(i) /\ k(i) <= k(Len(was))
      BY <2>4, <2>8, <3>1, KeptFacts
    <3>3. k(i) \in 1..group'.len
      <4>1. k(i) \in Nat /\ k(Len(was)) \in Nat
        BY <2>4, <3>1, KeptFacts
      <4> QED BY <2>6, <3>2, <4>1
    <3> QED BY <2>5, <2>7, <2>8, <3>1, <3>3
  <2> QED BY <2>6, <2>7, <2>8
<1>2. TypeOK /\ TypeOK' /\ RemovalInv /\ [Next]_vars => [~Unlocked /\ removal' = NoRemoval => Exact]_vars
  BY <1>1
<1> QED BY <1>2, RemovalInvariant, TypeCorrect, PTL DEF Spec, RemovalExact

----------------------------------------------------------------------------
(* Only a removal disturbs an answer.                                      *)

(* An answer not disturbed is exact so far and will be: its slice still holds  *)
(* the rest, and a removal under way in its array removes nothing.           *)
ExactInv ==
  \A r \in Readers :
    LET reader == readers[r]
    IN  ~reader.disturbed =>
          /\ \A i \in 1..Len(reader.out) : reader.out[i] = reader.taken[i]
          /\ Reading(r) =>
               /\ \A i \in (Len(reader.out) + 1)..reader.slice.len :
                    arrays[reader.slice.array][i] = reader.taken[i]
               /\ removal.id # 0 /\ reader.slice.array = group.array => ~Has(removal.was, removal.id)

LEMMA ExactStep ==
  ASSUME TypeOK, TypeOK', RemovalInv, ExactInv, [Next]_vars
  PROVE  ExactInv'
<1> DEFINE Sent(reader) == \A i \in 1..Len(reader.out) : reader.out[i] = reader.taken[i]
           Rest(reader, as) ==
             \A i \in (Len(reader.out) + 1)..reader.slice.len : as[reader.slice.array][i] = reader.taken[i]
           Spared(reader, rem, gr) ==
             rem.id # 0 /\ reader.slice.array = gr.array => ~Has(rem.was, rem.id)
           Fine(reader, as, rem, gr) ==
             ~reader.disturbed =>
               /\ Sent(reader)
               /\ Len(reader.out) < reader.slice.len => Rest(reader, as) /\ Spared(reader, rem, gr)
<1>0. \A r \in Readers : Fine(readers[r], arrays, removal, group)
  BY DEF ExactInv, Reading
<1>1. ASSUME \A r \in Readers : Fine(readers'[r], arrays', removal', group')
      PROVE  ExactInv'
  BY <1>1 DEF ExactInv, Reading
<1>2. CASE UNCHANGED vars
  BY <1>2 DEF vars, ExactInv, Reading
<1>3. ASSUME NEW r \in Readers, ListGroups(r)
      PROVE  ExactInv'
  <2>1. group \in Slice
    BY DEF TypeOK
  <2>2. LET h == Holding(group, Members(group))
        IN  h.slice = group /\ h.taken = Members(group) /\ h.out = <<>>
    BY <2>1, GroupMembers, HoldingType
  <2>3. removal.id = 0
    BY <1>3 DEF ListGroups, Unlocked, NoRemoval
  <2>4. Fine(Holding(group, Members(group)), arrays, removal, group)
    BY <2>2, <2>3, GroupMembers, EmptySeq
  <2> HIDE DEF Fine
  <2>5. \A q \in Readers : Fine(readers'[q], arrays', removal', group')
    BY <1>0, <1>3, <2>4 DEF ListGroups, TypeOK
  <2> QED BY <1>1, <2>5
<1>4. ASSUME NEW r \in Readers, UpdateGroup(r)
      PROVE  ExactInv'
  <2>1. PICK list \in MemberLists :
          /\ arrays' = Append(arrays, list)
          /\ group' = [array |-> Len(arrays) + 1, len |-> Len(list)]
          /\ readers' = [readers EXCEPT ![r] = Holding([array |-> Len(arrays) + 1, len |-> Len(list)], list)]
    BY <1>4 DEF UpdateGroup
  <2> DEFINE slice == [array |-> Len(arrays) + 1, len |-> Len(list)]
  <2>2. list \in Seq(Elem) /\ Len(arrays) \in Nat /\ slice \in Slice /\ slice.len = Len(list)
        /\ slice.array = Len(arrays) + 1
    BY MembersAssumption DEF Elem, TypeOK, Slice
  <2>3. arrays'[Len(arrays) + 1] = list /\ \A a \in 1..Len(arrays) : arrays'[a] = arrays[a]
    BY <2>1, <2>2, AppendProperties DEF TypeOK
  <2>4. removal'.id = 0
    BY <1>4 DEF UpdateGroup, Unlocked, NoRemoval
  <2> HIDE DEF slice
  <2>5. LET h == Holding(slice, list)
        IN  h.slice = slice /\ h.taken = list /\ h.out = <<>>
    BY <2>2, HoldingType
  <2>6. Fine(Holding(slice, list), arrays', removal', group')
    BY <2>2, <2>3, <2>4, <2>5, EmptySeq
  <2>7. ASSUME NEW q \in Readers PROVE Fine(readers[q], arrays', removal', group')
    <3>1. ReaderOK(readers[q]) /\ readers[q].slice.len \in Nat /\ Len(readers[q].out) \in Nat
      BY ReaderFacts
    <3>2. CASE readers[q].slice.array = 0
      BY <1>0, <3>1, <3>2 DEF ReaderOK
    <3>3. CASE readers[q].slice.array # 0
      <4>1. arrays'[readers[q].slice.array] = arrays[readers[q].slice.array]
        BY <2>2, <2>3, <3>1, <3>3 DEF ReaderOK
      <4> QED BY <1>0, <2>4, <4>1
    <3> QED BY <3>2, <3>3
  <2> HIDE DEF Fine
  <2>8. \A q \in Readers : Fine(readers'[q], arrays', removal', group')
    BY <2>1, <2>6, <2>7 DEF TypeOK, slice
  <2> QED BY <1>1, <2>8
<1>5. ASSUME NEW r \in Readers, EncodeNext(r)
      PROVE  ExactInv'
  <2> DEFINE reader == readers[r]
             item   == arrays[reader.slice.array][Len(reader.out) + 1]
             new    == [reader EXCEPT !.out = Append(@, item)]
  <2>1. reader \in Reader /\ Len(reader.out) < reader.slice.len
    BY <1>5 DEF TypeOK, EncodeNext, Reading
  <2>2. reader.out \in Seq(Elem) /\ Len(reader.out) \in Nat /\ reader.slice.len \in Nat
    BY <2>1 DEF Reader, Slice
  <2>3. ~reader.disturbed => item = reader.taken[Len(reader.out) + 1]
    BY <1>0, <2>1, <2>2
  <2>4. readers' = [readers EXCEPT ![r] = new] /\ arrays' = arrays /\ removal' = removal /\ group' = group
    BY <1>5 DEF EncodeNext
  <2> HIDE DEF item
  <2>5. new.slice = reader.slice /\ new.taken = reader.taken /\ new.out = Append(reader.out, item)
        /\ new.disturbed = reader.disturbed
    BY <2>1 DEF Reader
  <2>6. Len(new.out) = Len(reader.out) + 1 /\ new.out[Len(reader.out) + 1] = item
        /\ \A i \in 1..Len(reader.out) : new.out[i] = reader.out[i]
    BY <2>2, <2>5
  <2> HIDE DEF new
  <2>7. Fine(new, arrays, removal, group)
    <3> SUFFICES ASSUME ~reader.disturbed PROVE Fine(new, arrays, removal, group)
      BY <2>5
    <3>1. Sent(new)
      BY <1>0, <2>2, <2>3, <2>5, <2>6
    <3>2. Rest(new, arrays) /\ Spared(new, removal, group)
      BY <1>0, <2>1, <2>2, <2>5, <2>6
    <3> QED BY <3>1, <3>2
  <2> HIDE DEF Fine
  <2>8. \A q \in Readers : Fine(readers'[q], arrays', removal', group')
    BY <1>0, <2>4, <2>7 DEF TypeOK
  <2> QED BY <1>1, <2>8
<1>6. ASSUME NEW id \in Ids, DeleteUser(id)
      PROVE  ExactInv'
  <2>1. /\ removal'.id = id /\ removal'.was = Members(group) /\ arrays' = arrays /\ group' = group
        /\ readers' = Disturbed(id)
    BY <1>6 DEF DeleteUser
  <2>2. ASSUME NEW q \in Readers
        PROVE  Fine(readers'[q], arrays', removal', group')
    BY <1>0, <2>1, DisturbedFacts DEF Reading
  <2> QED BY <1>1, <2>2
<1>7. CASE RemoveNext
  <2> DEFINE item == arrays[group.array][removal.from]
  <2>1. /\ removal.id # 0 /\ removal.from \in 1..group.len /\ removal.to \in 1..removal.from
        /\ readers' = readers /\ item \in Elem /\ group' = group
        /\ removal'.id = removal.id /\ removal'.was = removal.was
        /\ \/ arrays' = arrays
           \/ arrays' = [arrays EXCEPT ![group.array][removal.to] = item]
    BY <1>7, RemoveNextFacts
  <2>2. group.len \in Nat /\ 1 <= removal.to /\ removal.to <= group.len /\ removal.to \in Nat
    BY <2>1 DEF TypeOK, Slice, Removal
  <2>3. ASSUME NEW q \in Readers
        PROVE  Fine(readers[q], arrays', removal', group')
    <3> DEFINE reader == readers[q]
               a == reader.slice.array
    <3> SUFFICES ASSUME ~reader.disturbed, Len(reader.out) < reader.slice.len
                 PROVE  Rest(reader, arrays')
      BY <1>0, <2>1
    <3>1. Rest(reader, arrays) /\ Spared(reader, removal, group)
      BY <1>0
    <3>2. ReaderOK(reader) /\ reader.slice.len \in Nat /\ Len(reader.out) \in Nat /\ Len(arrays) \in Nat
      BY ReaderFacts
    <3>3. a \in 1..Len(arrays) /\ reader.slice.len <= Len(arrays[a])
      BY <3>2 DEF ReaderOK
    <3>4. CASE arrays' = arrays
      BY <3>1, <3>4
    <3>5. CASE arrays' = [arrays EXCEPT ![group.array][removal.to] = item]
      <4>1. ASSUME NEW i \in (Len(reader.out) + 1)..reader.slice.len
            PROVE  arrays'[a][i] = arrays[a][i]
        <5>1. i \in 1..Len(arrays[a])
          <6>1. Len(arrays[a]) \in Nat
            BY <3>3 DEF TypeOK
          <6> QED BY <3>2, <3>3, <6>1
        <5>2. arrays'[a][i] = IF a = group.array /\ i = removal.to THEN item ELSE arrays[a][i]
          <6> HIDE DEF item
          <6> QED BY <2>1, <2>2, <3>3, <3>5, <5>1, WriteFacts
        <5>3. a = group.array => removal.to = removal.from
          BY <2>1, <3>1 DEF RemovalInv
        <5> QED BY <5>2, <5>3
      <4> QED BY <3>1, <4>1
    <3> QED BY <2>1, <3>4, <3>5
  <2> HIDE DEF Fine
  <2>4. \A q \in Readers : Fine(readers'[q], arrays', removal', group')
    BY <2>1, <2>3
  <2> QED BY <1>1, <2>4
<1>8. CASE RemoveEnd
  <2>1. readers' = readers /\ arrays' = arrays /\ removal'.id = 0
    BY <1>8 DEF RemoveEnd, NoRemoval
  <2>2. \A q \in Readers : Fine(readers'[q], arrays', removal', group')
    BY <1>0, <2>1
  <2> QED BY <1>1, <2>2
<1> QED BY <1>2, <1>3, <1>4, <1>5, <1>6, <1>7, <1>8 DEF Next

(* Updates leave what was taken alone, and so does a deletion that removes no  *)
(* member: only one that does, of a member the answer still has to name in    *)
(* the slice the group still has, can spoil it.                              *)
THEOREM AlwaysExactUnlessDisturbed == Spec => []ExactUnlessDisturbed
<1>1. Init => ExactInv
  BY EmptySeq DEF Init, ExactInv, Resting, NoSlice, Reading
<1>2. TypeOK /\ TypeOK' /\ RemovalInv /\ ExactInv /\ [Next]_vars => ExactInv'
  BY ExactStep
<1>3. TypeOK /\ ExactInv => ExactUnlessDisturbed
  <2> SUFFICES ASSUME TypeOK, ExactInv, NEW r \in Readers, ~readers[r].disturbed
               PROVE  readers[r].out = SubSeq(readers[r].taken, 1, Len(readers[r].out))
    BY DEF ExactUnlessDisturbed
  <2> DEFINE out == readers[r].out
             taken == readers[r].taken
  <2>1. out \in Seq(Elem) /\ taken \in Seq(Elem) /\ Len(out) \in Nat /\ Len(out) <= Len(taken)
    BY DEF TypeOK, ReaderOK, Reader
  <2>2. \A i \in 1..Len(out) : out[i] = taken[i]
    BY DEF ExactInv
  <2> HIDE DEF out, taken
  <2>3. \A i \in 1..Len(out) : taken[i] \in Elem
    BY <2>1, ElementOfSeq
  <2>4. /\ SubSeq(taken, 1, Len(out)) \in Seq(Elem) /\ Len(SubSeq(taken, 1, Len(out))) = Len(out)
        /\ \A i \in 1..Len(out) : SubSeq(taken, 1, Len(out))[i] = taken[i]
    <3>1. CASE Len(out) = 0
      BY <2>1, <2>3, <3>1, SubSeqProperties
    <3>2. CASE Len(out) # 0
      BY <2>1, <2>3, <3>2, SubSeqProperties
    <3> QED BY <3>1, <3>2
  <2>5. out = SubSeq(taken, 1, Len(out))
    BY <2>1, <2>2, <2>4, SeqEqual
  <2> QED BY <2>5 DEF out, taken
<1> QED BY <1>1, <1>2, <1>3, RemovalInvariant, TypeCorrect, PTL DEF Spec
=============================================================================
