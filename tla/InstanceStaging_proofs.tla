----------------------- MODULE InstanceStaging_proofs -----------------------
(***************************************************************************)
(* Theorems about InstanceList and InstanceStaging, for any groups, any    *)
(* number of instances and of tasks, and any bound on the events.          *)
(***************************************************************************)
EXTENDS InstanceStaging, FiniteSetTheorems, TLAPS

(* An index gives some of the instances a name.                             *)
Indices == UNION {[D -> Names] : D \in SUBSET Ids}
Books == [index : Indices, count : [Groups -> Nat], file : Indices, filed : BOOLEAN, known : BOOLEAN]

FiledGroup(b, i) == GroupOf([index |-> b.file], i)
InGroup(b, g) == {i \in Ids : GroupOf(b, i) = g}

(* The file says what the index says; without a file there are no groups;   *)
(* the counts are those of the members.                                     *)
SameFile(b) == \A i \in Ids : FiledGroup(b, i) = GroupOf(b, i)
FiledFirst(b) == ~b.filed => \A i \in Ids : GroupOf(b, i) = NoGroup /\ FiledGroup(b, i) = NoGroup
Counted(b) == \A g \in Groups : b.count[g] = Cardinality(InGroup(b, g))

(* Only instances of D have a group, in memory and in the file.             *)
GroupedIn(b, D) == \A i \in Ids : GroupOf(b, i) # NoGroup => i \in D
FiledIn(b, D) == \A i \in Ids : FiledGroup(b, i) # NoGroup => i \in D

-----------------------------------------------------------------------------
(* The operators on the groups, by what they do to the group of an          *)
(* instance, to the file and to the counts.                                 *)

LEMMA IndexIs ==
    ASSUME NEW f
    PROVE  f \in Indices <=> (DOMAIN f \in SUBSET Ids /\ f \in [DOMAIN f -> Names])
BY DEF Indices

LEMMA NoIndex == <<>> \in Indices /\ DOMAIN <<>> = {}
<1>1. DOMAIN <<>> = {} /\ <<>> \in [{} -> Names]
  OBVIOUS
<1> QED
  BY <1>1, IndexIs

LEMMA GroupOfIsName ==
    ASSUME NEW b \in Books, NEW i
    PROVE  GroupOf(b, i) \in Names /\ FiledGroup(b, i) \in Names
<1>1. b.index \in [DOMAIN b.index -> Names] /\ b.file \in [DOMAIN b.file -> Names]
  BY IndexIs DEF Books
<1>2. NoGroup \in Names
  BY DEF Names
<1> QED
  BY <1>1, <1>2 DEF GroupOf, FiledGroup

LEMMA AssignIs ==
    ASSUME NEW b \in Books, NEW id \in Ids, NEW g \in Names
    PROVE  LET c == Assign(b, id, g)
           IN  /\ c \in Books /\ c.count = b.count /\ c.file = b.file /\ c.filed = b.filed /\ c.known = b.known
               /\ \A i : GroupOf(c, i) = IF i = id THEN g ELSE GroupOf(b, i)
<1> DEFINE f == [i \in DOMAIN b.index \cup {id} |-> IF i = id THEN g ELSE b.index[i]]
<1>1. DOMAIN b.index \in SUBSET Ids /\ b.index \in [DOMAIN b.index -> Names]
  BY IndexIs DEF Books
<1>2. f \in [DOMAIN b.index \cup {id} -> Names] /\ DOMAIN f = DOMAIN b.index \cup {id}
  BY <1>1
<1>3. f \in Indices
  BY <1>1, <1>2, IndexIs
<1>4. Assign(b, id, g) = [b EXCEPT !.index = f]
  BY DEF Assign
<1>5. \A i : (i \in DOMAIN f => f[i] = IF i = id THEN g ELSE b.index[i])
  OBVIOUS
<1> HIDE DEF f
<1>6. /\ [b EXCEPT !.index = f] \in Books /\ [b EXCEPT !.index = f].index = f
      /\ [b EXCEPT !.index = f].count = b.count /\ [b EXCEPT !.index = f].file = b.file
      /\ [b EXCEPT !.index = f].filed = b.filed /\ [b EXCEPT !.index = f].known = b.known
  BY <1>3 DEF Books
<1>7. \A i : GroupOf([b EXCEPT !.index = f], i) = IF i = id THEN g ELSE GroupOf(b, i)
  BY <1>2, <1>5, <1>6 DEF GroupOf
<1> QED
  BY <1>4, <1>6, <1>7

LEMMA UnassignIs ==
    ASSUME NEW b \in Books, NEW ids
    PROVE  LET c == Unassign(b, ids)
           IN  /\ c \in Books /\ c.count = b.count /\ c.file = b.file /\ c.filed = b.filed /\ c.known = b.known
               /\ \A i : GroupOf(c, i) = IF i \in ids THEN NoGroup ELSE GroupOf(b, i)
<1> DEFINE f == [i \in DOMAIN b.index \ ids |-> b.index[i]]
<1>1. DOMAIN b.index \in SUBSET Ids /\ b.index \in [DOMAIN b.index -> Names]
  BY IndexIs DEF Books
<1>2. f \in [DOMAIN b.index \ ids -> Names] /\ DOMAIN f = DOMAIN b.index \ ids
  BY <1>1
<1>3. f \in Indices
  BY <1>1, <1>2, IndexIs
<1>4. Unassign(b, ids) = [b EXCEPT !.index = f]
  BY DEF Unassign, Restrict
<1>5. \A i : (i \in DOMAIN f => f[i] = b.index[i])
  OBVIOUS
<1> HIDE DEF f
<1>6. /\ [b EXCEPT !.index = f] \in Books /\ [b EXCEPT !.index = f].index = f
      /\ [b EXCEPT !.index = f].count = b.count /\ [b EXCEPT !.index = f].file = b.file
      /\ [b EXCEPT !.index = f].filed = b.filed /\ [b EXCEPT !.index = f].known = b.known
  BY <1>3 DEF Books
<1>7. \A i : GroupOf([b EXCEPT !.index = f], i) = IF i \in ids THEN NoGroup ELSE GroupOf(b, i)
  BY <1>2, <1>5, <1>6 DEF GroupOf
<1> QED
  BY <1>4, <1>6, <1>7

(* Only the counts change.                                                  *)
SameButCounts(c, b) ==
    /\ c \in Books /\ c.file = b.file /\ c.filed = b.filed /\ c.known = b.known
    /\ \A i : GroupOf(c, i) = GroupOf(b, i)

LEMMA CountIs ==
    ASSUME NEW b \in Books, NEW f \in [Groups -> Nat]
    PROVE  LET c == [b EXCEPT !.count = f]
           IN  SameButCounts(c, b) /\ c.count = f
BY DEF Books, SameButCounts, GroupOf

LEMMA IncreaseIs ==
    ASSUME NEW b \in Books, NEW g \in Names
    PROVE  LET c == Increase(b, g)
           IN  /\ SameButCounts(c, b)
               /\ \A h \in Groups : c.count[h] = IF h = g THEN b.count[h] + 1 ELSE b.count[h]
<1>1. b.count \in [Groups -> Nat]
  BY DEF Books
<1>2. CASE g = NoGroup
  BY <1>2, ListAssumption DEF Increase, SameButCounts
<1>3. CASE g # NoGroup
  <2> DEFINE f == [b.count EXCEPT ![g] = @ + 1]
  <2>1. g \in Groups
    BY <1>3 DEF Names
  <2>2. f \in [Groups -> Nat] /\ \A h \in Groups : f[h] = IF h = g THEN b.count[h] + 1 ELSE b.count[h]
    BY <1>1, <2>1
  <2>3. Increase(b, g) = [b EXCEPT !.count = f]
    BY <1>3 DEF Increase
  <2> HIDE DEF f
  <2> QED
    BY <2>2, <2>3, CountIs
<1> QED
  BY <1>2, <1>3

LEMMA DecreaseIs ==
    ASSUME NEW b \in Books, NEW g \in Names
    PROVE  LET c == Decrease(b, g)
           IN  /\ SameButCounts(c, b)
               /\ \A h \in Groups : c.count[h] = IF h = g /\ b.count[h] # 0 THEN b.count[h] - 1 ELSE b.count[h]
<1>1. b.count \in [Groups -> Nat]
  BY DEF Books
<1>2. CASE g = NoGroup \/ b.count[g] = 0
  BY <1>2, ListAssumption DEF Decrease, SameButCounts
<1>3. CASE ~(g = NoGroup \/ b.count[g] = 0)
  <2> DEFINE f == [b.count EXCEPT ![g] = @ - 1]
  <2>1. g \in Groups
    BY <1>3 DEF Names
  <2>2. /\ f \in [Groups -> Nat]
        /\ \A h \in Groups : f[h] = IF h = g /\ b.count[h] # 0 THEN b.count[h] - 1 ELSE b.count[h]
    BY <1>1, <1>3, <2>1
  <2>3. Decrease(b, g) = [b EXCEPT !.count = f]
    BY <1>3 DEF Decrease
  <2> HIDE DEF f
  <2> QED
    BY <2>2, <2>3, CountIs
<1> QED
  BY <1>2, <1>3

LEMMA SaveIs ==
    ASSUME NEW b \in Books
    PROVE  LET c == SaveGroupList(b)
           IN  /\ c \in Books /\ c.count = b.count /\ c.filed = TRUE /\ c.known = b.known
               /\ \A i : GroupOf(c, i) = GroupOf(b, i) /\ FiledGroup(c, i) = GroupOf(b, i)
<1> DEFINE S == {i \in DOMAIN b.index : b.index[i] # NoGroup}
           f == [i \in S |-> b.index[i]]
           c == [b EXCEPT !.filed = TRUE, !.file = f]
<1>1. DOMAIN b.index \in SUBSET Ids /\ b.index \in [DOMAIN b.index -> Names]
  BY IndexIs DEF Books
<1>2. f \in [S -> Names] /\ DOMAIN f = S /\ S \in SUBSET Ids
  BY <1>1
<1>3. f \in Indices
  BY <1>2, IndexIs
<1>4. SaveGroupList(b) = c
  BY DEF SaveGroupList, Restrict
<1>5. \A i : (i \in DOMAIN f <=> (i \in DOMAIN b.index /\ b.index[i] # NoGroup)) /\ (i \in DOMAIN f => f[i] = b.index[i])
  OBVIOUS
<1> HIDE DEF f, S
<1>6. /\ c \in Books /\ c.index = b.index /\ c.count = b.count /\ c.file = f
      /\ c.filed = TRUE /\ c.known = b.known
  BY <1>3 DEF Books
<1> HIDE DEF c
<1>7. \A i : GroupOf(c, i) = GroupOf(b, i)
  BY <1>6 DEF GroupOf
<1>8. \A i : FiledGroup(c, i) = GroupOf(b, i)
  BY <1>5, <1>6 DEF GroupOf, FiledGroup
<1> QED
  BY <1>4, <1>6, <1>7, <1>8


LEMMA MembersAreFinite ==
    ASSUME NEW b, NEW g
    PROVE  /\ IsFiniteSet(InGroup(b, g)) /\ Cardinality(InGroup(b, g)) \in Nat
           /\ (\E i \in Ids : GroupOf(b, i) = g) => Cardinality(InGroup(b, g)) > 0
<1>1. IsFiniteSet(Ids)
  BY FS_Interval, ListAssumption DEF Ids
<1>2. InGroup(b, g) \in SUBSET Ids
  BY DEF InGroup
<1>3. IsFiniteSet(InGroup(b, g))
  BY <1>1, <1>2, FS_Subset
<1>4. Cardinality(InGroup(b, g)) \in Nat
  BY <1>3, FS_CardinalityType
<1>5. (\E i \in Ids : GroupOf(b, i) = g) => InGroup(b, g) # {}
  BY DEF InGroup
<1>6. Cardinality(InGroup(b, g)) = 0 <=> InGroup(b, g) = {}
  BY <1>3, FS_EmptySet
<1> QED
  BY <1>3, <1>4, <1>5, <1>6

(* loadGroupList: what the file says, counted.                              *)
LEMMA LoadIs ==
    ASSUME NEW b \in Books
    PROVE  LET c == LoadGroupList(b)
           IN  /\ c \in Books /\ c.filed = b.filed /\ Counted(c)
               /\ c.known = (b.known \/ b.filed)
               /\ \A i : FiledGroup(c, i) = FiledGroup(b, i)
               /\ \A i : GroupOf(c, i) = IF b.filed THEN FiledGroup(b, i) ELSE NoGroup
<1>1. CASE ~b.filed
  <2> DEFINE c == [b EXCEPT !.index = <<>>, !.count = NoMembers]
  <2>1. LoadGroupList(b) = c
    BY <1>1 DEF LoadGroupList
  <2>2. NoMembers \in [Groups -> Nat] /\ <<>> \in Indices
    BY NoIndex DEF NoMembers
  <2>3. /\ c \in Books /\ c.index = <<>> /\ c.count = NoMembers /\ c.file = b.file
        /\ c.filed = b.filed /\ c.known = b.known
    BY <2>2 DEF Books
  <2> HIDE DEF c
  <2>4. \A i : GroupOf(c, i) = NoGroup /\ FiledGroup(c, i) = FiledGroup(b, i)
    BY <2>3, NoIndex DEF GroupOf, FiledGroup
  <2>5. ASSUME NEW g \in Groups PROVE c.count[g] = Cardinality(InGroup(c, g))
    <3>1. InGroup(c, g) = {}
      BY <2>4, ListAssumption DEF InGroup
    <3> QED
      BY <2>3, <3>1, FS_EmptySet DEF NoMembers
  <2>6. c.known = (b.known \/ b.filed)
    BY <1>1, <2>3 DEF Books
  <2> QED
    BY <1>1, <2>1, <2>3, <2>4, <2>5, <2>6 DEF Counted
<1>2. CASE b.filed
  <2> DEFINE With(g) == {i \in DOMAIN b.file : b.file[i] = g}
             f == [g \in Groups |-> Cardinality(With(g))]
             c == [b EXCEPT !.index = b.file, !.known = TRUE, !.count = f]
  <2>1. LoadGroupList(b) = c
    BY <1>2 DEF LoadGroupList
  <2>2. b.file \in Indices /\ DOMAIN b.file \in SUBSET Ids
    BY IndexIs DEF Books
  <2>3. ASSUME NEW e, e.index = b.file, NEW g \in Groups PROVE With(g) = InGroup(e, g)
    BY <2>2, <2>3, ListAssumption DEF InGroup, GroupOf
  <2>4. ASSUME NEW g \in Groups PROVE Cardinality(With(g)) \in Nat
    <3>1. With(g) = InGroup([index |-> b.file], g)
      BY <2>3
    <3> QED
      BY <3>1, MembersAreFinite
  <2>5. f \in [Groups -> Nat] /\ \A g \in Groups : f[g] = Cardinality(With(g))
    BY <2>4
  <2> HIDE DEF f
  <2>6. /\ c \in Books /\ c.index = b.file /\ c.count = f /\ c.file = b.file
        /\ c.filed = b.filed /\ c.known = TRUE
    BY <2>2, <2>5 DEF Books
  <2> HIDE DEF c
  <2>7. \A i : GroupOf(c, i) = FiledGroup(b, i) /\ FiledGroup(c, i) = FiledGroup(b, i)
    BY <2>6 DEF GroupOf, FiledGroup
  <2>8. Counted(c)
    BY <2>3, <2>5, <2>6 DEF Counted
  <2>9. c.known = (b.known \/ b.filed)
    BY <1>2, <2>6
  <2> QED
    BY <1>2, <2>1, <2>6, <2>7, <2>8, <2>9
<1> QED
  BY <1>1, <1>2

(* loadList reads the groups when it finds an instance, unless they are     *)
(* known.                                                                   *)
LEMMA ReloadedIs ==
    ASSUME NEW b \in Books, NEW found
    PROVE  LET c == Reloaded(b, found)
           IN  \/ c = b /\ (found \subseteq loaded \/ b.known)
               \/ ~b.known /\ c = LoadGroupList(b)
BY DEF Reloaded, LoadInstance, Books

LEMMA ReloadedKeeps ==
    ASSUME NEW b \in Books, NEW found
    PROVE  LET c == Reloaded(b, found)
           IN  /\ c \in Books /\ c.filed = b.filed
               /\ FiledFirst(b) => FiledFirst(c)
               /\ FiledFirst(b) /\ SameFile(b) => SameFile(c) /\ \A i \in Ids : GroupOf(c, i) = GroupOf(b, i)
               /\ Counted(b) => Counted(c)
               /\ \A D : FiledIn(b, D) => FiledIn(c, D) /\ (GroupedIn(b, D) => GroupedIn(c, D))
<1>1. CASE Reloaded(b, found) = b
  BY <1>1
<1>2. CASE Reloaded(b, found) = LoadGroupList(b)
  <2> DEFINE c == LoadGroupList(b)
  <2>1. /\ c \in Books /\ c.filed = b.filed /\ Counted(c)
        /\ \A i : FiledGroup(c, i) = FiledGroup(b, i)
        /\ \A i : GroupOf(c, i) = IF b.filed THEN FiledGroup(b, i) ELSE NoGroup
    BY LoadIs
  <2> HIDE DEF c
  <2>2. FiledFirst(b) => FiledFirst(c)
    BY <2>1 DEF FiledFirst
  <2>3. FiledFirst(b) /\ SameFile(b) => SameFile(c) /\ \A i \in Ids : GroupOf(c, i) = GroupOf(b, i)
    BY <2>1 DEF FiledFirst, SameFile
  <2>4. \A D : FiledIn(b, D) => FiledIn(c, D) /\ (GroupedIn(b, D) => GroupedIn(c, D))
    BY <2>1 DEF FiledIn, GroupedIn
  <2> QED
    BY <1>2, <2>1, <2>2, <2>3, <2>4 DEF c
<1> QED
  BY <1>1, <1>2, ReloadedIs

(* An instance goes to another group and is counted there.                  *)
LEMMA RegroupCounts ==
    ASSUME NEW b \in Books, Counted(b), NEW id \in Ids, NEW g \in Names, NEW c \in Books,
           \A i \in Ids : GroupOf(c, i) = IF i = id THEN g ELSE GroupOf(b, i),
           \A h \in Groups : c.count[h] = IF GroupOf(b, id) = g THEN b.count[h]
                                          ELSE IF h = g THEN b.count[h] + 1
                                          ELSE IF h = GroupOf(b, id) /\ b.count[h] # 0 THEN b.count[h] - 1
                                          ELSE b.count[h]
    PROVE  Counted(c)
<1> SUFFICES ASSUME NEW h \in Groups PROVE c.count[h] = Cardinality(InGroup(c, h))
  BY DEF Counted
<1>1. /\ IsFiniteSet(InGroup(b, h)) /\ b.count[h] = Cardinality(InGroup(b, h))
      /\ Cardinality(InGroup(b, h)) \in Nat
  BY MembersAreFinite DEF Counted
<1>2. CASE GroupOf(b, id) = g \/ (h # g /\ h # GroupOf(b, id))
  <2>1. InGroup(c, h) = InGroup(b, h)
    BY <1>2 DEF InGroup
  <2>2. c.count[h] = b.count[h]
    BY <1>2
  <2> QED
    BY <1>1, <2>1, <2>2
<1>3. CASE GroupOf(b, id) # g /\ h = g
  <2>1. InGroup(c, h) = InGroup(b, h) \cup {id} /\ id \notin InGroup(b, h)
    BY <1>3 DEF InGroup
  <2>2. c.count[h] = b.count[h] + 1
    BY <1>3
  <2> QED
    BY <1>1, <2>1, <2>2, FS_AddElement
<1>4. CASE h # g /\ h = GroupOf(b, id)
  <2>1. InGroup(c, h) = InGroup(b, h) \ {id} /\ id \in InGroup(b, h)
    BY <1>4 DEF InGroup
  <2>2. Cardinality(InGroup(b, h)) > 0
    BY <1>4, MembersAreFinite
  <2>3. c.count[h] = b.count[h] - 1
    BY <1>1, <1>4, <2>2
  <2> QED
    BY <1>1, <2>1, <2>3, FS_RemoveElement
<1> QED
  BY <1>2, <1>3, <1>4


LEMMA SaveKeeps ==
    ASSUME NEW b \in Books
    PROVE  LET c == SaveGroupList(b)
           IN  /\ c \in Books /\ SameFile(c) /\ FiledFirst(c)
               /\ \A i : GroupOf(c, i) = GroupOf(b, i)
               /\ Counted(b) => Counted(c)
               /\ \A D : GroupedIn(b, D) => GroupedIn(c, D) /\ FiledIn(c, D)
<1> DEFINE c == SaveGroupList(b)
<1>1. /\ c \in Books /\ c.count = b.count /\ c.filed = TRUE
      /\ \A i : GroupOf(c, i) = GroupOf(b, i) /\ FiledGroup(c, i) = GroupOf(b, i)
  BY SaveIs
<1> HIDE DEF c
<1>2. SameFile(c) /\ FiledFirst(c)
  BY <1>1 DEF SameFile, FiledFirst
<1>3. \A g : InGroup(c, g) = InGroup(b, g)
  BY <1>1 DEF InGroup
<1>4. Counted(b) => Counted(c)
  BY <1>1, <1>3 DEF Counted
<1>5. \A D : GroupedIn(b, D) => GroupedIn(c, D) /\ FiledIn(c, D)
  BY <1>1 DEF GroupedIn, FiledIn
<1> QED
  BY <1>1, <1>2, <1>4, <1>5 DEF c

(* An instance without a group enters one.                                  *)
LEMMA EnterIs ==
    ASSUME NEW b \in Books, NEW id \in Ids, NEW g \in Names
    PROVE  LET c == Increase(Assign(b, id, g), g)
           IN  /\ c \in Books /\ c.filed = b.filed /\ c.known = b.known
               /\ \A i : FiledGroup(c, i) = FiledGroup(b, i)
               /\ \A i : GroupOf(c, i) = IF i = id THEN g ELSE GroupOf(b, i)
               /\ Counted(b) /\ GroupOf(b, id) = NoGroup => Counted(c)
<1> DEFINE a == Assign(b, id, g)
           c == Increase(a, g)
<1>1. /\ a \in Books /\ a.count = b.count /\ a.file = b.file /\ a.filed = b.filed /\ a.known = b.known
      /\ \A i : GroupOf(a, i) = IF i = id THEN g ELSE GroupOf(b, i)
  BY AssignIs
<1> HIDE DEF a
<1>2. /\ SameButCounts(c, a)
      /\ \A h \in Groups : c.count[h] = IF h = g THEN a.count[h] + 1 ELSE a.count[h]
  BY <1>1, IncreaseIs
<1> HIDE DEF c
<1>3. /\ c \in Books /\ c.filed = b.filed /\ c.known = b.known /\ c.file = b.file
      /\ \A i : GroupOf(c, i) = IF i = id THEN g ELSE GroupOf(b, i)
  BY <1>1, <1>2 DEF SameButCounts
<1>4. \A i : FiledGroup(c, i) = FiledGroup(b, i)
  BY <1>3 DEF FiledGroup
<1>5. Counted(b) /\ GroupOf(b, id) = NoGroup => Counted(c)
  <2> SUFFICES ASSUME Counted(b), GroupOf(b, id) = NoGroup PROVE Counted(c)
    OBVIOUS
  <2>1. \A h \in Groups : c.count[h] = IF h = g THEN b.count[h] + 1 ELSE b.count[h]
    BY <1>1, <1>2
  <2>2. \A h \in Groups : h # NoGroup
    BY ListAssumption
  <2>3. \A h \in Groups : c.count[h] = IF GroupOf(b, id) = g THEN b.count[h]
                                       ELSE IF h = g THEN b.count[h] + 1
                                       ELSE IF h = GroupOf(b, id) /\ b.count[h] # 0 THEN b.count[h] - 1
                                       ELSE b.count[h]
    BY <2>1, <2>2
  <2> QED
    BY <1>3, <2>3, RegroupCounts
<1> QED
  BY <1>3, <1>4, <1>5 DEF a, c

(* An instance leaves its group for another, and for none.                  *)
LEMMA RegroupIs ==
    ASSUME NEW b \in Books, NEW id \in Ids, NEW g \in Names
    PROVE  LET c == Increase(Assign(Decrease(b, GroupOf(b, id)), id, g), g)
           IN  /\ c \in Books
               /\ \A i : GroupOf(c, i) = IF i = id THEN g ELSE GroupOf(b, i)
               /\ Counted(b) => Counted(c)
<1> DEFINE d == Decrease(b, GroupOf(b, id))
           a == Assign(d, id, g)
           c == Increase(a, g)
<1>1. /\ SameButCounts(d, b)
      /\ \A h \in Groups : d.count[h] = IF h = GroupOf(b, id) /\ b.count[h] # 0 THEN b.count[h] - 1 ELSE b.count[h]
  BY GroupOfIsName, DecreaseIs
<1>2. d \in Books /\ \A i : GroupOf(d, i) = GroupOf(b, i)
  BY <1>1 DEF SameButCounts
<1> HIDE DEF d
<1>3. /\ a \in Books /\ a.count = d.count
      /\ \A i : GroupOf(a, i) = IF i = id THEN g ELSE GroupOf(b, i)
  BY <1>2, AssignIs
<1> HIDE DEF a
<1>4. /\ SameButCounts(c, a)
      /\ \A h \in Groups : c.count[h] = IF h = g THEN a.count[h] + 1 ELSE a.count[h]
  BY <1>3, IncreaseIs
<1> HIDE DEF c
<1>5. c \in Books /\ \A i : GroupOf(c, i) = IF i = id THEN g ELSE GroupOf(b, i)
  BY <1>3, <1>4 DEF SameButCounts
<1>6. Counted(b) => Counted(c)
  <2> SUFFICES ASSUME Counted(b) PROVE Counted(c)
    OBVIOUS
  <2>1. ASSUME NEW h \in Groups
        PROVE  c.count[h] = IF GroupOf(b, id) = g THEN b.count[h]
                            ELSE IF h = g THEN b.count[h] + 1
                            ELSE IF h = GroupOf(b, id) /\ b.count[h] # 0 THEN b.count[h] - 1
                            ELSE b.count[h]
    <3>1. b.count[h] \in Nat /\ (h = GroupOf(b, id) => b.count[h] > 0)
      BY MembersAreFinite DEF Counted, Books
    <3> QED
      BY <1>1, <1>3, <1>4, <3>1
  <2> QED
    BY <1>5, <2>1, RegroupCounts
<1> QED
  BY <1>5, <1>6 DEF a, c, d

LEMMA UngroupIs ==
    ASSUME NEW b \in Books, NEW id \in Ids
    PROVE  LET c == Decrease(Unassign(b, {id}), GroupOf(b, id))
           IN  /\ c \in Books
               /\ \A i : GroupOf(c, i) = IF i = id THEN NoGroup ELSE GroupOf(b, i)
               /\ Counted(b) => Counted(c)
<1> DEFINE a == Unassign(b, {id})
           c == Decrease(a, GroupOf(b, id))
<1>1. /\ a \in Books /\ a.count = b.count
      /\ \A i : GroupOf(a, i) = IF i = id THEN NoGroup ELSE GroupOf(b, i)
  BY UnassignIs
<1> HIDE DEF a
<1>2. /\ SameButCounts(c, a)
      /\ \A h \in Groups : c.count[h] = IF h = GroupOf(b, id) /\ a.count[h] # 0 THEN a.count[h] - 1 ELSE a.count[h]
  BY <1>1, GroupOfIsName, DecreaseIs
<1> HIDE DEF c
<1>3. c \in Books /\ \A i : GroupOf(c, i) = IF i = id THEN NoGroup ELSE GroupOf(b, i)
  BY <1>1, <1>2 DEF SameButCounts
<1>4. Counted(b) => Counted(c)
  <2> SUFFICES ASSUME Counted(b) PROVE Counted(c)
    OBVIOUS
  <2>1. \A h \in Groups : h # NoGroup
    BY ListAssumption
  <2>2. \A h \in Groups : c.count[h] = IF GroupOf(b, id) = NoGroup THEN b.count[h]
                                       ELSE IF h = NoGroup THEN b.count[h] + 1
                                       ELSE IF h = GroupOf(b, id) /\ b.count[h] # 0 THEN b.count[h] - 1
                                       ELSE b.count[h]
    BY <1>1, <1>2, <2>1
  <2>3. NoGroup \in Names
    BY DEF Names
  <2> QED
    BY <1>3, <2>2, <2>3, RegroupCounts
<1> QED
  BY <1>3, <1>4 DEF a, c

-----------------------------------------------------------------------------
(* The list.                                                                *)

Trashed == [id : Ids, group : Names]

ListTyped ==
    /\ dirs \in SUBSET Ids /\ loaded \in SUBSET Ids /\ book \in Books
    /\ trash \in Seq(Trashed) /\ notified \in BOOLEAN /\ astray \in BOOLEAN /\ budget \in Nat

(* Started on an empty folder, the program has not read the groups yet, and *)
(* the file may have those of instances that were taken away.               *)
Unread == ~book.known /\ loaded = {} /\ trash = <<>>

BookInv == (SameFile(book) \/ Unread) /\ FiledFirst(book)

CountInv == ~astray => Counted(book) /\ GroupedIn(book, loaded \cap dirs) /\ FiledIn(book, dirs)

ListInv == ListTyped /\ BookInv /\ CountInv

LEMMA ListInitHolds == ListInit => ListInv
<1> SUFFICES ASSUME ListInit PROVE ListInv
  OBVIOUS
<1> DEFINE b == [index |-> <<>>, count |-> NoMembers, file |-> <<>>, filed |-> FALSE, known |-> FALSE]
<1>1. /\ dirs \in SUBSET Ids /\ loaded = dirs /\ notified = FALSE /\ trash = <<>>
      /\ astray = FALSE /\ budget = 0 /\ book = b
  BY DEF ListInit
<1>2. NoMembers \in [Groups -> Nat] /\ <<>> \in Indices /\ \A g \in Groups : NoMembers[g] = 0
  BY NoIndex DEF NoMembers
<1>3. b \in Books /\ b.index = <<>> /\ b.file = <<>> /\ b.count = NoMembers /\ ~b.filed
  BY <1>2 DEF Books
<1> HIDE DEF b
<1>4. \A i : GroupOf(b, i) = NoGroup /\ FiledGroup(b, i) = NoGroup
  BY <1>3, NoIndex DEF GroupOf, FiledGroup
<1>5. ASSUME NEW g \in Groups PROVE b.count[g] = Cardinality(InGroup(b, g))
  <2>1. InGroup(b, g) = {}
    BY <1>4, ListAssumption DEF InGroup
  <2> QED
    BY <1>2, <1>3, <2>1, FS_EmptySet
<1>6. Counted(b) /\ \A D : GroupedIn(b, D) /\ FiledIn(b, D)
  BY <1>4, <1>5 DEF Counted, GroupedIn, FiledIn
<1>7. SameFile(b) /\ FiledFirst(b)
  BY <1>4 DEF SameFile, FiledFirst
<1>8. ListTyped
  <2>1. trash \in Seq(Trashed)
    BY <1>1
  <2> QED
    BY <1>1, <1>3, <2>1 DEF ListTyped
<1> QED
  BY <1>1, <1>6, <1>7, <1>8 DEF ListInv, BookInv, CountInv

(* A step that ends with the groups of book saved, or read again.           *)
LEMMA BookSettled ==
    ASSUME ListTyped', SameFile(book'), FiledFirst(book'), CountInv'
    PROVE  ListInv'
BY DEF ListInv, BookInv

LEMMA SetInstanceGroupKeeps ==
    ASSUME ListInv, NEW id \in Ids, NEW g \in Names, SetInstanceGroup(id, g)
    PROVE  ListInv'
<1> DEFINE b == Increase(Assign(Decrease(book, GroupOf(book, id)), id, g), g)
<1>1. book \in Books /\ id \in loaded /\ book' = SaveGroupList(b)
  BY DEF ListInv, ListTyped, SetInstanceGroup
<1>2. /\ b \in Books /\ (Counted(book) => Counted(b))
      /\ \A i : GroupOf(b, i) = IF i = id THEN g ELSE GroupOf(book, i)
  BY <1>1, RegroupIs
<1> HIDE DEF b
<1>3. /\ book' \in Books /\ SameFile(book') /\ FiledFirst(book')
      /\ Counted(b) => Counted(book')
      /\ \A D : GroupedIn(b, D) => GroupedIn(book', D) /\ FiledIn(book', D)
  BY <1>1, <1>2, SaveKeeps
<1>4. UNCHANGED <<dirs, loaded, notified, trash, budget>> /\ astray' = (astray \/ id \notin dirs)
  BY DEF SetInstanceGroup
<1>5. ListTyped'
  BY <1>3, <1>4 DEF ListInv, ListTyped
<1>6. ASSUME ~astray' PROVE Counted(book') /\ GroupedIn(book', loaded' \cap dirs') /\ FiledIn(book', dirs')
  <2>1. ~astray /\ id \in loaded \cap dirs
    BY <1>1, <1>4, <1>6
  <2>2. Counted(book) /\ GroupedIn(book, loaded \cap dirs)
    BY <2>1 DEF ListInv, CountInv
  <2>3. GroupedIn(b, loaded \cap dirs) /\ GroupedIn(b, dirs)
    BY <1>2, <2>1, <2>2 DEF GroupedIn
  <2> QED
    BY <1>2, <1>3, <1>4, <2>2, <2>3
<1> QED
  BY <1>3, <1>5, <1>6, BookSettled DEF CountInv


(* The members of a group leave it for another, or for none; only then are  *)
(* the groups saved.                                                        *)
LEMMA MembersMoveKeeps ==
    ASSUME ListInv, NEW g \in Groups, NEW to \in Names, NEW c \in Books,
           c.filed = book.filed, c.known = book.known,
           \A i : FiledGroup(c, i) = FiledGroup(book, i),
           \A i : GroupOf(c, i) = IF i \in Members(g) THEN to ELSE GroupOf(book, i),
           ~astray => Counted(c),
           book' = IF Members(g) = {} THEN c ELSE SaveGroupList(c),
           UNCHANGED <<dirs, loaded, notified, trash, astray, budget>>
    PROVE  ListInv'
<1>1. Members(g) \subseteq loaded /\ Members(g) \subseteq {i \in loaded : GroupOf(book, i) # NoGroup}
  BY ListAssumption DEF Members
<1>2. ~astray => GroupedIn(c, loaded \cap dirs) /\ FiledIn(c, dirs)
  BY <1>1 DEF ListInv, ListTyped, CountInv, GroupedIn, FiledIn
<1>3. CASE Members(g) = {}
  <2>1. book' = c /\ \A i : GroupOf(c, i) = GroupOf(book, i)
    BY <1>3
  <2>2. SameFile(book) => SameFile(c)
    BY <2>1 DEF SameFile
  <2>3. FiledFirst(c)
    BY <2>1 DEF FiledFirst, ListInv, BookInv
  <2>4. BookInv'
    BY <2>1, <2>2, <2>3 DEF ListInv, BookInv, Unread
  <2>5. CountInv'
    BY <1>2, <2>1 DEF CountInv
  <2>6. ListTyped'
    BY <2>1 DEF ListInv, ListTyped
  <2> QED
    BY <2>4, <2>5, <2>6 DEF ListInv
<1>4. CASE Members(g) # {}
  <2>1. book' = SaveGroupList(c)
    BY <1>4
  <2>2. /\ book' \in Books /\ SameFile(book') /\ FiledFirst(book')
        /\ Counted(c) => Counted(book')
        /\ \A D : GroupedIn(c, D) => GroupedIn(book', D) /\ FiledIn(book', D)
    BY <2>1, SaveKeeps
  <2>3. ListTyped'
    BY <2>2 DEF ListInv, ListTyped
  <2>4. GroupedIn(book', loaded \cap dirs) => FiledIn(book', dirs)
    BY <2>2 DEF GroupedIn, FiledIn, SameFile
  <2>5. CountInv'
    BY <1>2, <2>2, <2>4 DEF CountInv
  <2> QED
    BY <2>2, <2>3, <2>5, BookSettled
<1> QED
  BY <1>3, <1>4

(* Without a stray instance the loaded ones of a group are all it has.      *)
LEMMA MembersAreAll ==
    ASSUME ListInv, NEW g \in Groups
    PROVE  /\ IsFiniteSet(Members(g)) /\ Cardinality(Members(g)) \in Nat
           /\ ~astray => Members(g) = InGroup(book, g)
<1>1. Members(g) \subseteq InGroup(book, g)
  BY DEF Members, InGroup, ListInv, ListTyped
<1>2. IsFiniteSet(Members(g))
  BY <1>1, MembersAreFinite, FS_Subset
<1>3. ~astray => Members(g) = InGroup(book, g)
  BY ListAssumption DEF ListInv, ListTyped, CountInv, GroupedIn, Members, InGroup
<1> QED
  BY <1>2, <1>3, FS_CardinalityType

LEMMA ForgetIs ==
    ASSUME ListInv, NEW g \in Groups
    PROVE  LET c == Forget(book, g)
           IN  /\ SameButCounts(c, book) /\ c.index = book.index
               /\ \A h \in Groups : c.count[h] = IF h = g THEN 0 ELSE book.count[h]
<1> DEFINE f == [book.count EXCEPT ![g] = 0]
<1>1. book \in Books /\ book.count \in [Groups -> Nat]
  BY DEF ListInv, ListTyped, Books
<1>2. f \in [Groups -> Nat] /\ \A h \in Groups : f[h] = IF h = g THEN 0 ELSE book.count[h]
  BY <1>1
<1>3. Forget(book, g) = [book EXCEPT !.count = f]
  BY DEF Forget
<1> HIDE DEF f
<1>4. [book EXCEPT !.count = f].index = book.index
  BY <1>1 DEF Books
<1> QED
  BY <1>1, <1>2, <1>3, <1>4, CountIs

LEMMA DeleteGroupKeeps ==
    ASSUME ListInv, NEW g \in Groups, DeleteGroup(g)
    PROVE  ListInv'
<1> DEFINE b == Forget(book, g)
           c == Unassign(b, Members(g))
<1>1. /\ SameButCounts(b, book)
      /\ \A h \in Groups : b.count[h] = IF h = g THEN 0 ELSE book.count[h]
  BY ForgetIs
<1>2. /\ book' = IF Members(g) = {} THEN c ELSE SaveGroupList(c)
      /\ UNCHANGED <<dirs, loaded, notified, trash, astray, budget>>
  BY DEF DeleteGroup
<1>3. b \in Books
  BY <1>1 DEF SameButCounts
<1> HIDE DEF b
<1>4. /\ c \in Books /\ c.count = b.count /\ c.file = b.file /\ c.filed = b.filed /\ c.known = b.known
      /\ \A i : GroupOf(c, i) = IF i \in Members(g) THEN NoGroup ELSE GroupOf(b, i)
  BY <1>3, UnassignIs
<1> HIDE DEF c
<1>5. /\ c.file = book.file /\ c.filed = book.filed /\ c.known = book.known
      /\ \A i : GroupOf(c, i) = IF i \in Members(g) THEN NoGroup ELSE GroupOf(book, i)
  BY <1>1, <1>4 DEF SameButCounts
<1>6. \A i : FiledGroup(c, i) = FiledGroup(book, i)
  BY <1>5 DEF FiledGroup
<1>7. ASSUME ~astray, NEW h \in Groups PROVE c.count[h] = Cardinality(InGroup(c, h))
  <2>1. Members(g) = InGroup(book, g) /\ book.count[h] = Cardinality(InGroup(book, h))
    BY <1>7, MembersAreAll DEF ListInv, CountInv, Counted
  <2>2. CASE h = g
    <3>1. InGroup(c, h) = {}
      BY <1>5, <2>1, <2>2, ListAssumption DEF InGroup
    <3> QED
      BY <1>1, <1>4, <2>2, <3>1, FS_EmptySet
  <2>3. CASE h # g
    <3>1. InGroup(c, h) = InGroup(book, h)
      BY <1>5, <2>1, <2>3, ListAssumption DEF InGroup
    <3> QED
      BY <1>1, <1>4, <2>1, <2>3, <3>1
  <2> QED
    BY <2>2, <2>3
<1>8. NoGroup \in Names /\ (~astray => Counted(c))
  BY <1>7 DEF Names, Counted
<1> QED
  BY <1>2, <1>4, <1>5, <1>6, <1>8, MembersMoveKeeps

LEMMA RenameGroupKeeps ==
    ASSUME ListInv, NEW g \in Groups, NEW to \in Names, RenameGroup(g, to)
    PROVE  ListInv'
<1> DEFINE b == Forget(book, g)
           c == MoveMembers(b, g, to)
           f == [i \in DOMAIN b.index |-> IF i \in Members(g) THEN to ELSE b.index[i]]
           n == [h \in Groups |-> b.count[h] + IF h = to THEN Cardinality(Members(g)) ELSE 0]
<1>1. /\ SameButCounts(b, book) /\ b.index = book.index
      /\ \A h \in Groups : b.count[h] = IF h = g THEN 0 ELSE book.count[h]
  BY ForgetIs
<1>2. /\ book' = IF Members(g) = {} THEN c ELSE SaveGroupList(c)
      /\ UNCHANGED <<dirs, loaded, notified, trash, astray, budget>>
  BY DEF RenameGroup
<1>3. b \in Books
  BY <1>1 DEF SameButCounts
<1> HIDE DEF b
<1>4. c = [b EXCEPT !.index = f, !.count = n]
  BY DEF MoveMembers
<1>5. f \in Indices /\ DOMAIN f = DOMAIN b.index
  <2>1. DOMAIN b.index \in SUBSET Ids /\ b.index \in [DOMAIN b.index -> Names]
    BY <1>3, IndexIs DEF Books
  <2>2. f \in [DOMAIN b.index -> Names] /\ DOMAIN f = DOMAIN b.index
    BY <2>1
  <2> QED
    BY <2>1, <2>2, IndexIs
<1>6. \A i : (i \in DOMAIN f => f[i] = IF i \in Members(g) THEN to ELSE b.index[i])
  OBVIOUS
<1>7. n \in [Groups -> Nat] /\ \A h \in Groups : n[h] = b.count[h] + IF h = to THEN Cardinality(Members(g)) ELSE 0
  <2>1. Cardinality(Members(g)) \in Nat /\ b.count \in [Groups -> Nat]
    BY <1>3, MembersAreAll DEF Books
  <2> QED
    BY <2>1
<1> HIDE DEF f, n
<1>8. /\ c \in Books /\ c.index = f /\ c.count = n /\ c.file = b.file
      /\ c.filed = b.filed /\ c.known = b.known
  BY <1>3, <1>4, <1>5, <1>7 DEF Books
<1> HIDE DEF c
<1>9. c.file = book.file /\ c.filed = book.filed /\ c.known = book.known
  BY <1>1, <1>8 DEF SameButCounts
<1>10. ASSUME NEW i PROVE GroupOf(c, i) = IF i \in Members(g) THEN to ELSE GroupOf(book, i)
  <2>1. i \in Members(g) => i \in DOMAIN book.index
    BY ListAssumption DEF Members, GroupOf
  <2> QED
    BY <1>1, <1>5, <1>6, <1>8, <2>1 DEF GroupOf
<1>11. \A i : FiledGroup(c, i) = FiledGroup(book, i)
  BY <1>9 DEF FiledGroup
<1>12. ASSUME ~astray, NEW h \in Groups PROVE c.count[h] = Cardinality(InGroup(c, h))
  <2>1. Members(g) = InGroup(book, g) /\ IsFiniteSet(Members(g)) /\ Cardinality(Members(g)) \in Nat
    BY <1>12, MembersAreAll
  <2>2. /\ book.count[h] = Cardinality(InGroup(book, h)) /\ IsFiniteSet(InGroup(book, h))
        /\ Cardinality(InGroup(book, h)) \in Nat
    BY <1>12, MembersAreFinite DEF ListInv, CountInv, Counted
  <2>3. CASE h = g /\ to = g
    <3>1. InGroup(c, h) = Members(g)
      BY <1>10, <2>1, <2>3 DEF InGroup
    <3>2. c.count[h] = 0 + Cardinality(Members(g))
      BY <1>1, <1>7, <1>8, <2>3
    <3> QED
      BY <2>1, <3>1, <3>2
  <2>4. CASE h = g /\ to # g
    <3>1. InGroup(c, h) = {}
      BY <1>10, <2>1, <2>4 DEF InGroup
    <3>2. c.count[h] = 0
      BY <1>1, <1>7, <1>8, <2>4
    <3> QED
      BY <3>1, <3>2, FS_EmptySet
  <2>5. CASE h # g /\ h = to
    <3>1. InGroup(c, h) = InGroup(book, h) \cup Members(g) /\ InGroup(book, h) \cap Members(g) = {}
      BY <1>10, <2>1, <2>5 DEF InGroup
    <3>2. c.count[h] = book.count[h] + Cardinality(Members(g))
      BY <1>1, <1>7, <1>8, <2>5
    <3>3. Cardinality(InGroup(c, h)) = Cardinality(InGroup(book, h)) + Cardinality(Members(g)) - Cardinality({})
      BY <2>1, <2>2, <3>1, FS_Union
    <3> QED
      BY <2>1, <2>2, <3>2, <3>3, FS_EmptySet
  <2>6. CASE h # g /\ h # to
    <3>1. InGroup(c, h) = InGroup(book, h)
      BY <1>10, <2>1, <2>6 DEF InGroup
    <3>2. c.count[h] = book.count[h] + 0
      BY <1>1, <1>7, <1>8, <2>6
    <3> QED
      BY <2>2, <3>1, <3>2
  <2> QED
    BY <2>3, <2>4, <2>5, <2>6
<1>13. ~astray => Counted(c)
  BY <1>12 DEF Counted
<1> QED
  BY <1>2, <1>8, <1>9, <1>10, <1>11, <1>13, MembersMoveKeeps


LEMMA GroupedMore ==
    ASSUME NEW b, NEW D, NEW E, D \subseteq E
    PROVE  (GroupedIn(b, D) => GroupedIn(b, E)) /\ (FiledIn(b, D) => FiledIn(b, E))
BY DEF GroupedIn, FiledIn

(* An instance that leaves its group, and has its group of the others left. *)
LEMMA UngroupedIs ==
    ASSUME ListInv, NEW id \in Ids
    PROVE  LET c == Ungrouped(id)
           IN  /\ c \in Books /\ SameFile(c) /\ FiledFirst(c)
               /\ ~astray => Counted(c) /\ GroupedIn(c, (loaded \cap dirs) \ {id}) /\ FiledIn(c, dirs \ {id})
<1> DEFINE b == Decrease(Unassign(book, {id}), GroupOf(book, id))
           c == SaveGroupList(b)
<1>1. /\ b \in Books /\ (Counted(book) => Counted(b))
      /\ \A i : GroupOf(b, i) = IF i = id THEN NoGroup ELSE GroupOf(book, i)
  BY UngroupIs DEF ListInv, ListTyped
<1> HIDE DEF b
<1>2. /\ c \in Books /\ SameFile(c) /\ FiledFirst(c) /\ (Counted(b) => Counted(c))
      /\ \A D : GroupedIn(b, D) => GroupedIn(c, D) /\ FiledIn(c, D)
  BY <1>1, SaveKeeps
<1> HIDE DEF c
<1>3. ASSUME ~astray PROVE Counted(c) /\ GroupedIn(c, (loaded \cap dirs) \ {id}) /\ FiledIn(c, dirs \ {id})
  <2>1. Counted(book) /\ GroupedIn(book, loaded \cap dirs)
    BY <1>3 DEF ListInv, CountInv
  <2>2. GroupedIn(b, (loaded \cap dirs) \ {id}) /\ GroupedIn(b, dirs \ {id})
    BY <1>1, <2>1 DEF GroupedIn
  <2> QED
    BY <1>1, <1>2, <2>1, <2>2
<1>4. Ungrouped(id) = c
  BY DEF Ungrouped, b, c
<1> QED
  BY <1>2, <1>3, <1>4

LEMMA TrashInstanceKeeps ==
    ASSUME ListInv, NEW id \in Ids, TrashInstance(id)
    PROVE  ListInv'
<1>1. /\ book' = Ungrouped(id) /\ budget' = budget + 1 /\ UNCHANGED <<loaded, astray>>
      /\ dirs \ {id} \subseteq dirs' /\ dirs' \in SUBSET Ids /\ notified' \in BOOLEAN
  BY DEF TrashInstance, Removed, Within, ListInv, ListTyped
<1>2. trash' \in Seq(Trashed)
  <2>1. trash \in Seq(Trashed) /\ [id |-> id, group |-> GroupOf(book, id)] \in Trashed
    BY GroupOfIsName DEF ListInv, ListTyped, Trashed
  <2>2. trash' = trash \/ trash' = Append(trash, [id |-> id, group |-> GroupOf(book, id)])
    BY DEF TrashInstance
  <2> QED
    BY <2>1, <2>2
<1>3. /\ book' \in Books /\ SameFile(book') /\ FiledFirst(book')
      /\ ~astray => Counted(book') /\ GroupedIn(book', (loaded \cap dirs) \ {id}) /\ FiledIn(book', dirs \ {id})
  BY <1>1, UngroupedIs
<1>4. ListTyped'
  BY <1>1, <1>2, <1>3 DEF ListInv, ListTyped
<1>5. (loaded \cap dirs) \ {id} \subseteq loaded' \cap dirs'
  BY <1>1
<1>6. ~astray' => Counted(book') /\ GroupedIn(book', loaded' \cap dirs') /\ FiledIn(book', dirs')
  BY <1>1, <1>3, <1>5, GroupedMore
<1> QED
  BY <1>3, <1>4, <1>6, BookSettled DEF CountInv

LEMMA DeleteInstanceKeeps ==
    ASSUME ListInv, NEW id \in Ids, DeleteInstance(id)
    PROVE  ListInv'
<1> DEFINE c == Ungrouped(id)
<1>1. /\ loaded' = dirs' /\ book' = Reloaded(c, dirs')
      /\ budget' = budget + 1 /\ UNCHANGED <<trash, astray>>
      /\ dirs \ {id} \subseteq dirs' /\ dirs' \in SUBSET Ids /\ notified' \in BOOLEAN
  BY DEF DeleteInstance, LoadList, Removed, Within, ListInv, ListTyped
<1>2. /\ c \in Books /\ SameFile(c) /\ FiledFirst(c)
      /\ ~astray => Counted(c) /\ GroupedIn(c, (loaded \cap dirs) \ {id}) /\ FiledIn(c, dirs \ {id})
  BY UngroupedIs
<1> HIDE DEF c
<1>3. /\ book' \in Books /\ SameFile(book') /\ FiledFirst(book')
      /\ Counted(c) => Counted(book')
      /\ \A D : FiledIn(c, D) => FiledIn(book', D) /\ (GroupedIn(c, D) => GroupedIn(book', D))
  BY <1>1, <1>2, ReloadedKeeps
<1>4. ListTyped'
  BY <1>1, <1>3 DEF ListInv, ListTyped
<1>5. (loaded \cap dirs) \ {id} \subseteq dirs' /\ loaded' \cap dirs' = dirs'
  BY <1>1
<1>6. ~astray => Counted(c) /\ GroupedIn(c, dirs') /\ FiledIn(c, dirs')
  BY <1>1, <1>2, <1>5, GroupedMore
<1>7. ~astray' => Counted(book') /\ GroupedIn(book', loaded' \cap dirs') /\ FiledIn(book', dirs')
  BY <1>1, <1>3, <1>5, <1>6
<1> QED
  BY <1>3, <1>4, <1>7, BookSettled DEF CountInv

(* Where the trash may go: nothing free, or an instance of the folder.      *)
LEMMA UndoTrashInstanceKeeps ==
    ASSUME ListInv, UndoTrashInstance
    PROVE  ListInv'
<1> DEFINE top == trash[Len(trash)]
<1>1. top \in Trashed /\ trash' \in Seq(Trashed) /\ trash # <<>> /\ UNCHANGED <<astray, budget>>
  BY DEF UndoTrashInstance, ListInv, ListTyped
<1>2. SameFile(book) /\ FiledFirst(book) /\ book \in Books
  BY <1>1 DEF ListInv, ListTyped, BookInv, Unread
<1>3. CASE UNCHANGED <<dirs, loaded, book, notified>>
  <2>1. ListTyped'
    BY <1>1, <1>3 DEF ListInv, ListTyped
  <2>2. CountInv'
    BY <1>1, <1>3 DEF ListInv, CountInv
  <2> QED
    BY <1>2, <1>3, <2>1, <2>2, BookSettled
<1>4. CASE ~UNCHANGED <<dirs, loaded, book, notified>>
  <2>1. PICK id \in Ids \ dirs :
            /\ dirs' = dirs \cup {id} /\ notified' = TRUE
            /\ LoadList(SaveGroupList(Increase(Assign(book, id, top.group), top.group)), dirs')
    BY <1>4 DEF UndoTrashInstance
  <2> DEFINE b == Increase(Assign(book, id, top.group), top.group)
             c == SaveGroupList(b)
  <2>2. top.group \in Names
    BY <1>1 DEF Trashed
  <2>3. loaded' = dirs' /\ book' = Reloaded(c, dirs')
    BY <2>1 DEF LoadList
  <2> HIDE DEF top
  <2>4. /\ b \in Books
        /\ \A i : GroupOf(b, i) = IF i = id THEN top.group ELSE GroupOf(book, i)
        /\ Counted(book) /\ GroupOf(book, id) = NoGroup => Counted(b)
    BY <1>2, <2>2, EnterIs
  <2> HIDE DEF b
  <2>5. /\ c \in Books /\ SameFile(c) /\ FiledFirst(c) /\ (Counted(b) => Counted(c))
        /\ \A D : GroupedIn(b, D) => GroupedIn(c, D) /\ FiledIn(c, D)
    BY <2>4, SaveKeeps
  <2> HIDE DEF c
  <2>6. /\ book' \in Books /\ SameFile(book') /\ FiledFirst(book')
        /\ Counted(c) => Counted(book')
        /\ \A D : FiledIn(c, D) => FiledIn(book', D) /\ (GroupedIn(c, D) => GroupedIn(book', D))
    BY <2>3, <2>5, ReloadedKeeps
  <2>7. ListTyped'
    BY <1>1, <2>1, <2>3, <2>6 DEF ListInv, ListTyped
  <2>8. ASSUME ~astray PROVE Counted(b) /\ GroupedIn(b, dirs')
    <3>1. Counted(book) /\ GroupedIn(book, loaded \cap dirs)
      BY <2>8 DEF ListInv, CountInv
    <3> QED
      BY <2>1, <2>4, <3>1 DEF GroupedIn
  <2>9. loaded' \cap dirs' = dirs'
    BY <2>3
  <2>10. ~astray' => Counted(book') /\ GroupedIn(book', loaded' \cap dirs') /\ FiledIn(book', dirs')
    BY <1>1, <2>5, <2>6, <2>8, <2>9
  <2> QED
    BY <2>6, <2>7, <2>10, BookSettled DEF CountInv
<1> QED
  BY <1>3, <1>4

(* The list is loaded again with the groups as they are.                    *)
LEMMA LoadListKeepsBook ==
    ASSUME ListInv, NEW found, LoadList(book, found), UNCHANGED trash
    PROVE  book' \in Books /\ BookInv'
<1>1. book \in Books /\ FiledFirst(book) /\ loaded' = found /\ book' = Reloaded(book, found)
  BY DEF LoadList, ListInv, ListTyped, BookInv
<1>2. /\ book' \in Books /\ FiledFirst(book')
      /\ SameFile(book) => SameFile(book')
  BY <1>1, ReloadedKeeps
<1>3. CASE Unread
  <2>1. CASE book' = book /\ found \subseteq loaded
    BY <1>1, <1>2, <1>3, <2>1 DEF BookInv, Unread
  <2>2. CASE book' = LoadGroupList(book)
    <3>1. /\ \A i : FiledGroup(book', i) = FiledGroup(book, i)
          /\ \A i : GroupOf(book', i) = IF book.filed THEN FiledGroup(book, i) ELSE NoGroup
      BY <1>1, <2>2, LoadIs
    <3>2. SameFile(book')
      BY <1>1, <3>1 DEF SameFile, FiledFirst
    <3> QED
      BY <1>2, <3>2 DEF BookInv
  <2> QED
    BY <1>1, <1>3, <2>1, <2>2, ReloadedIs DEF Unread
<1>4. CASE SameFile(book)
  BY <1>2, <1>4 DEF BookInv
<1> QED
  BY <1>2, <1>3, <1>4 DEF ListInv, BookInv

LEMMA RenameInstanceKeeps ==
    ASSUME ListInv, NEW id \in Ids, RenameInstance(id)
    PROVE  ListInv'
<1>1. /\ dirs' \in SUBSET Ids /\ notified' = TRUE /\ astray' = TRUE /\ budget' = budget + 1
      /\ LoadList(book, dirs') /\ loaded' = dirs' /\ UNCHANGED trash
  BY DEF RenameInstance, Within, LoadList, ListInv, ListTyped
<1>2. book' \in Books /\ BookInv'
  BY <1>1, LoadListKeepsBook
<1>3. ListTyped'
  BY <1>1, <1>2 DEF ListInv, ListTyped
<1> QED
  BY <1>1, <1>2, <1>3 DEF ListInv, CountInv

LEMMA InstancesChangedKeeps ==
    ASSUME ListInv, InstancesChanged
    PROVE  ListInv'
<1>1. /\ notified' = FALSE /\ LoadList(book, dirs) /\ loaded' = dirs /\ book' = Reloaded(book, dirs)
      /\ UNCHANGED <<dirs, trash, astray, budget>>
  BY DEF InstancesChanged, LoadList
<1>2. book' \in Books /\ BookInv'
  BY <1>1, LoadListKeepsBook
<1>3. ListTyped'
  BY <1>1, <1>2 DEF ListInv, ListTyped
<1>4. ASSUME ~astray PROVE Counted(book') /\ GroupedIn(book', loaded' \cap dirs') /\ FiledIn(book', dirs')
  <2>1. book \in Books /\ Counted(book) /\ GroupedIn(book, loaded \cap dirs) /\ FiledIn(book, dirs)
    BY <1>4 DEF ListInv, ListTyped, CountInv
  <2>2. GroupedIn(book, dirs)
    BY <2>1 DEF GroupedIn
  <2>3. Counted(book') /\ FiledIn(book', dirs) /\ GroupedIn(book', dirs)
    BY <1>1, <2>1, <2>2, ReloadedKeeps
  <2>4. loaded' \cap dirs' = dirs /\ dirs' = dirs
    BY <1>1
  <2> QED
    BY <2>3, <2>4
<1> QED
  BY <1>1, <1>2, <1>3, <1>4 DEF ListInv, CountInv

LEMMA OutsideChangeKeeps ==
    ASSUME ListInv, OutsideChange
    PROVE  ListInv'
<1>1. /\ dirs' \in SUBSET Ids /\ notified' = TRUE /\ astray' = TRUE /\ budget' = budget + 1
      /\ UNCHANGED <<loaded, book, trash>>
  BY DEF OutsideChange, Within, ListInv, ListTyped
<1> QED
  BY <1>1 DEF ListInv, ListTyped, BookInv, Unread, CountInv

(* What the program that is started again knows of the groups.              *)
LEMMA GroupsAtStartIs ==
    ASSUME ListInv
    PROVE  LET c == GroupsAtStart
           IN  /\ c \in Books /\ FiledFirst(c) /\ Counted(c)
               /\ \A i : FiledGroup(c, i) = FiledGroup(book, i)
               /\ \A i : GroupOf(c, i) = IF dirs # {} /\ book.filed THEN FiledGroup(book, i) ELSE NoGroup
               /\ dirs = {} => ~c.known
<1> DEFINE e == [book EXCEPT !.index = <<>>, !.count = NoMembers, !.known = FALSE]
<1>1. book \in Books /\ FiledFirst(book)
  BY DEF ListInv, ListTyped, BookInv
<1>2. NoMembers \in [Groups -> Nat] /\ <<>> \in Indices /\ \A g \in Groups : NoMembers[g] = 0
  BY NoIndex DEF NoMembers
<1>3. /\ e \in Books /\ e.index = <<>> /\ e.count = NoMembers /\ e.file = book.file
      /\ e.filed = book.filed /\ e.known = FALSE
  BY <1>1, <1>2 DEF Books
<1>4. GroupsAtStart = IF dirs = {} THEN e ELSE LoadGroupList(e)
  BY DEF GroupsAtStart
<1> HIDE DEF e
<1>5. \A i : GroupOf(e, i) = NoGroup /\ FiledGroup(e, i) = FiledGroup(book, i)
  BY <1>3, NoIndex DEF GroupOf, FiledGroup
<1>6. CASE dirs = {}
  <2>1. ASSUME NEW g \in Groups PROVE e.count[g] = Cardinality(InGroup(e, g))
    <3>1. InGroup(e, g) = {}
      BY <1>5, ListAssumption DEF InGroup
    <3> QED
      BY <1>2, <1>3, <3>1, FS_EmptySet
  <2>2. FiledFirst(e)
    BY <1>1, <1>3, <1>5 DEF FiledFirst
  <2> QED
    BY <1>3, <1>4, <1>5, <1>6, <2>1, <2>2 DEF Counted
<1>7. CASE dirs # {}
  <2> DEFINE c == LoadGroupList(e)
  <2>1. /\ c \in Books /\ c.filed = e.filed /\ Counted(c)
        /\ \A i : FiledGroup(c, i) = FiledGroup(e, i)
        /\ \A i : GroupOf(c, i) = IF e.filed THEN FiledGroup(e, i) ELSE NoGroup
    BY <1>3, LoadIs
  <2> HIDE DEF c
  <2>2. FiledFirst(c)
    BY <1>1, <1>3, <1>5, <2>1 DEF FiledFirst
  <2> QED
    BY <1>3, <1>4, <1>5, <1>7, <2>1, <2>2 DEF c
<1> QED
  BY <1>6, <1>7

LEMMA ListRestartKeeps ==
    ASSUME ListInv, ListRestart
    PROVE  ListInv'
<1>1. /\ loaded' = dirs /\ book' = GroupsAtStart /\ notified' = FALSE /\ trash' = <<>>
      /\ budget' = budget + 1 /\ UNCHANGED <<dirs, astray>>
  BY DEF ListRestart, Within
<1>2. /\ book' \in Books /\ FiledFirst(book') /\ Counted(book')
      /\ \A i : FiledGroup(book', i) = FiledGroup(book, i)
      /\ \A i : GroupOf(book', i) = IF dirs # {} /\ book.filed THEN FiledGroup(book, i) ELSE NoGroup
      /\ dirs = {} => ~book'.known
  BY <1>1, GroupsAtStartIs
<1>3. FiledFirst(book)
  BY DEF ListInv, BookInv
<1>4. SameFile(book') \/ Unread'
  <2>1. CASE dirs = {}
    BY <1>1, <1>2, <2>1 DEF Unread
  <2>2. CASE dirs # {}
    BY <1>2, <1>3, <2>2 DEF SameFile, FiledFirst
  <2> QED
    BY <2>1, <2>2
<1>5. BookInv'
  BY <1>2, <1>4 DEF BookInv
<1>6. ListTyped'
  <2>1. trash' \in Seq(Trashed)
    BY <1>1
  <2>2. book' \in Books
    BY <1>2
  <2>3. /\ dirs' \in SUBSET Ids /\ loaded' \in SUBSET Ids
        /\ notified' \in BOOLEAN /\ astray' \in BOOLEAN /\ budget' \in Nat
    <3>1. dirs \in SUBSET Ids /\ astray \in BOOLEAN /\ budget \in Nat
      BY DEF ListInv, ListTyped
    <3>2. notified' \in BOOLEAN /\ UNCHANGED <<dirs, astray>> /\ loaded' = dirs /\ budget' = budget + 1
      BY <1>1
    <3> QED
      BY <3>1, <3>2
  <2> QED
    BY <2>1, <2>2, <2>3 DEF ListTyped
<1>7. ASSUME ~astray PROVE GroupedIn(book', loaded' \cap dirs') /\ FiledIn(book', dirs')
  <2>1. FiledIn(book, dirs)
    BY <1>7 DEF ListInv, CountInv
  <2> QED
    BY <1>1, <1>2, <2>1 DEF GroupedIn, FiledIn
<1> QED
  BY <1>1, <1>2, <1>5, <1>6, <1>7 DEF ListInv, CountInv


LEMMA ListNextKeeps == ListInv /\ ListNext => ListInv'
<1> SUFFICES ASSUME ListInv, ListNext PROVE ListInv'
  OBVIOUS
<1>1. CASE \E id \in Ids : ListStep(id)
  BY <1>1, TrashInstanceKeeps, DeleteInstanceKeeps, RenameInstanceKeeps, SetInstanceGroupKeeps DEF ListStep
<1>2. CASE \E g \in Groups : DeleteGroup(g) \/ \E to \in Names : RenameGroup(g, to)
  BY <1>2, DeleteGroupKeeps, RenameGroupKeeps
<1> QED
  BY <1>1, <1>2, UndoTrashInstanceKeeps, InstancesChangedKeeps, OutsideChangeKeeps DEF ListNext

-----------------------------------------------------------------------------
(* The tasks.                                                               *)

Tasks == [state : {"none", "building", "filling", "waiting", "failed", "aborted", "succeeded"},
          group : Names, over : {0} \cup Ids, pause : {1, 2, 4, 8, 16}, tries : 0..5]

(* The pause tells how often a commit has been tried.                       *)
Tried(s) == CASE s.pause = 1 -> 0 [] s.pause = 2 -> 1 [] s.pause = 4 -> 2 [] s.pause = 8 -> 3 [] OTHER -> 4

TaskInv(s) ==
    /\ s.state \in {"none", "building", "filling"} => s.pause = 1
    /\ s.state \in {"none", "building", "filling", "waiting"} => s.tries = Tried(s)
    /\ s.state = "failed" => s.tries \in {0, 5}

StagingInv == staging \in [Stagings -> Tasks] /\ \A t \in Stagings : TaskInv(staging[t])

LEMMA NewTask ==
    ASSUME NEW g \in Names, NEW over \in {0} \cup Ids
    PROVE  LET s == [NoStaging EXCEPT !.state = "building", !.group = g, !.over = over]
           IN  s \in Tasks /\ TaskInv(s) /\ NoStaging \in Tasks /\ TaskInv(NoStaging)
<1> DEFINE s == [NoStaging EXCEPT !.state = "building", !.group = g, !.over = over]
<1>1. /\ NoStaging = [state |-> "none", group |-> NoGroup, over |-> 0, pause |-> 1, tries |-> 0]
      /\ NoGroup \in Names
  BY DEF NoStaging, MinBackoff, Names
<1>2. 1 \in {1, 2, 4, 8, 16} /\ 0 \in 0..5
  OBVIOUS
<1>3. NoStaging \in Tasks
  BY <1>1, <1>2 DEF Tasks
<1>4. s \in Tasks /\ s.state = "building" /\ s.pause = NoStaging.pause /\ s.tries = NoStaging.tries
  BY <1>3 DEF Tasks
<1> HIDE DEF s
<1>5. TaskInv(NoStaging)
  BY <1>1 DEF TaskInv, Tried
<1>6. TaskInv(s)
  BY <1>1, <1>4 DEF TaskInv, Tried
<1> QED
  BY <1>3, <1>4, <1>5, <1>6 DEF s

(* One task changes.                                                        *)
LEMMA TaskKeeps ==
    ASSUME StagingInv, NEW t \in Stagings, NEW s \in Tasks, TaskInv(s), staging' = [staging EXCEPT ![t] = s]
    PROVE  StagingInv'
BY DEF StagingInv

LEMMA GoesKeeps ==
    ASSUME StagingInv, NEW t \in Stagings, NEW state, Goes(t, state),
           \/ state \in {"filling", "failed", "aborted"} /\ In(t, {"building"})
           \/ state = "succeeded"
    PROVE  StagingInv'
<1> DEFINE s == [staging[t] EXCEPT !.state = state]
<1>1. staging[t] \in Tasks /\ TaskInv(staging[t])
  BY DEF StagingInv
<1>2. s \in Tasks /\ TaskInv(s)
  BY <1>1 DEF Tasks, TaskInv, Tried, In
<1>3. staging' = [staging EXCEPT ![t] = s]
  BY DEF Goes
<1> QED
  BY <1>2, <1>3, TaskKeeps

LEMMA FailedCommitKeeps ==
    ASSUME StagingInv, NEW t \in Stagings, In(t, {"filling", "waiting"}), CommitFails(t)
    PROVE  StagingInv'
<1> DEFINE o == staging[t]
           last == LastPause(o.pause)
           s == [o EXCEPT !.state = IF last THEN "failed" ELSE "waiting",
                          !.pause = NextPause(@), !.tries = @ + 1]
<1>1. o \in Tasks /\ o.tries = Tried(o) /\ staging \in [Stagings -> Tasks]
  BY DEF StagingInv, TaskInv, In
<1>2. staging' = [staging EXCEPT ![t] = s]
  BY <1>1 DEF CommitFails
<1> HIDE DEF o
<1>3. s.state = (IF last THEN "failed" ELSE "waiting") /\ s.pause = NextPause(o.pause) /\ s.tries = o.tries + 1
  BY <1>1 DEF Tasks
<1>4. o.pause \in {1, 2, 4, 8, 16}
  BY <1>1 DEF Tasks
<1>5. /\ NextPause(o.pause) = (CASE o.pause = 1 -> 2 [] o.pause = 2 -> 4 [] o.pause = 4 -> 8 [] OTHER -> 16)
      /\ last <=> o.pause = 16
  BY <1>4 DEF NextPause, LastPause, MaxBackoff
<1>6. NextPause(o.pause) \in {1, 2, 4, 8, 16} /\ o.tries + 1 \in 0..5
  BY <1>1, <1>4, <1>5 DEF Tried
<1>7. s \in Tasks
  BY <1>1, <1>6 DEF Tasks
<1>8. last => s.tries = 5
  BY <1>1, <1>3, <1>5 DEF Tried
<1>9. ~last => s.tries = Tried(s)
  BY <1>1, <1>3, <1>4, <1>5 DEF Tried
<1> HIDE DEF s, last
<1>10. TaskInv(s)
  BY <1>3, <1>8, <1>9 DEF TaskInv
<1> QED
  BY <1>2, <1>7, <1>10, TaskKeeps

-----------------------------------------------------------------------------
(* The list while tasks commit.                                             *)

(* The list is told of the instance, then the groups are saved.             *)
LEMMA ListCommittedKeeps ==
    ASSUME ListInv, NEW b \in Books, dirs' \in SUBSET Ids, ListCommitted(b),
           ~astray => Counted(b) /\ GroupedIn(b, dirs') /\ FiledIn(b, dirs'),
           UNCHANGED <<notified, trash, astray, budget>>
    PROVE  ListInv'
<1> DEFINE c == Reloaded(b, dirs')
<1>1. loaded' = dirs' /\ book' = SaveGroupList(c)
  BY DEF ListCommitted
<1>2. /\ c \in Books /\ (Counted(b) => Counted(c))
      /\ \A D : FiledIn(b, D) => FiledIn(c, D) /\ (GroupedIn(b, D) => GroupedIn(c, D))
  BY ReloadedKeeps
<1> HIDE DEF c
<1>3. /\ book' \in Books /\ SameFile(book') /\ FiledFirst(book')
      /\ Counted(c) => Counted(book')
      /\ \A D : GroupedIn(c, D) => GroupedIn(book', D) /\ FiledIn(book', D)
  BY <1>1, <1>2, SaveKeeps
<1>4. ListTyped'
  BY <1>1, <1>3 DEF ListInv, ListTyped
<1>5. loaded' \cap dirs' = dirs'
  BY <1>1
<1>6. ~astray' => Counted(book') /\ GroupedIn(book', loaded' \cap dirs') /\ FiledIn(book', dirs')
  BY <1>2, <1>3, <1>5
<1> QED
  BY <1>3, <1>4, <1>6, BookSettled DEF CountInv

LEMMA CommitStagedInstanceKeeps ==
    ASSUME ListInv, StagingInv, NEW t \in Stagings, CommitStagedInstance(t)
    PROVE  ListInv'
<1>1. /\ staging[t].group \in Names /\ staging[t].over \in {0} \cup Ids
      /\ book \in Books /\ dirs \in SUBSET Ids /\ UNCHANGED <<notified, trash, astray, budget>>
  BY DEF StagingInv, Tasks, ListInv, ListTyped, CommitStagedInstance
<1>2. ~astray => /\ Counted(book) /\ GroupedIn(book, loaded \cap dirs) /\ GroupedIn(book, dirs)
                 /\ FiledIn(book, dirs)
  BY DEF ListInv, CountInv, GroupedIn
<1>3. CASE staging[t].over = 0
  <2> DEFINE g == staging[t].group
             b(id) == Increase(Assign(book, id, g), g)
  <2>1. PICK id \in Ids \ dirs : dirs' = dirs \cup {id} /\ ListCommitted(b(id))
    BY <1>3 DEF CommitStagedInstance
  <2>2. /\ b(id) \in Books /\ \A i : FiledGroup(b(id), i) = FiledGroup(book, i)
        /\ \A i : GroupOf(b(id), i) = IF i = id THEN g ELSE GroupOf(book, i)
        /\ Counted(book) /\ GroupOf(book, id) = NoGroup => Counted(b(id))
    BY <1>1, EnterIs
  <2> HIDE DEF b, g
  <2>3. ASSUME ~astray PROVE Counted(b(id)) /\ GroupedIn(b(id), dirs') /\ FiledIn(b(id), dirs')
    BY <1>2, <2>1, <2>2, <2>3 DEF GroupedIn, FiledIn
  <2>4. dirs' \in SUBSET Ids
    BY <1>1, <2>1
  <2> QED
    BY <1>1, <2>1, <2>2, <2>3, <2>4, ListCommittedKeeps
<1>4. CASE staging[t].over # 0
  <2>1. dirs' = dirs \cup {staging[t].over} /\ ListCommitted(book)
    BY <1>4 DEF CommitStagedInstance
  <2>2. dirs' \in SUBSET Ids /\ dirs \subseteq dirs'
    BY <1>1, <1>4, <2>1
  <2>3. ~astray => Counted(book) /\ GroupedIn(book, dirs') /\ FiledIn(book, dirs')
    BY <1>2, <2>2, GroupedMore
  <2> QED
    BY <1>1, <2>1, <2>2, <2>3, ListCommittedKeeps
<1> QED
  BY <1>3, <1>4

LEMMA CommitFailsKeeps ==
    ASSUME ListInv, StagingInv, NEW t \in Stagings, CommitFails(t)
    PROVE  ListInv'
<1>1. staging[t].over \in {0} \cup Ids /\ UNCHANGED <<loaded, book, notified, trash, budget>>
  BY DEF StagingInv, Tasks, CommitFails
<1>2. CASE UNCHANGED <<dirs, astray>>
  BY <1>1, <1>2 DEF ListInv, ListTyped, BookInv, Unread, CountInv
<1>3. CASE ~UNCHANGED <<dirs, astray>>
  <2>1. PICK id \in (IF staging[t].over = 0 THEN Ids \ dirs ELSE {staging[t].over}) :
            dirs' = dirs \cup {id} /\ astray' = TRUE
    BY <1>3 DEF CommitFails
  <2>2. id \in Ids
    BY <1>1, <2>1
  <2>3. dirs' \in SUBSET Ids /\ astray' = TRUE
    BY <2>1, <2>2 DEF ListInv, ListTyped
  <2> QED
    BY <1>1, <2>3 DEF ListInv, ListTyped, BookInv, Unread, CountInv
<1> QED
  BY <1>2, <1>3

InstanceInv == ListInv /\ StagingInv

LEMMA InstanceInitHolds == StagingInit => InstanceInv
<1> SUFFICES ASSUME StagingInit PROVE InstanceInv
  OBVIOUS
<1>1. NoStaging \in Tasks /\ TaskInv(NoStaging)
  BY NewTask DEF Names
<1>2. StagingInv
  BY <1>1 DEF StagingInit, StagingInv
<1> QED
  BY <1>2, ListInitHolds DEF StagingInit, InstanceInv

LEMMA InstanceStepKeeps == InstanceInv /\ [InstanceNext]_instanceVars => InstanceInv'
<1> SUFFICES ASSUME ListInv, StagingInv, [InstanceNext]_instanceVars PROVE ListInv' /\ StagingInv'
  BY DEF InstanceInv
<1>1. UNCHANGED listVars => ListInv'
  BY DEF listVars, ListInv, ListTyped, BookInv, Unread, CountInv
<1>2. UNCHANGED stagingVars => StagingInv'
  BY DEF stagingVars, StagingInv
<1>3. ASSUME NEW t \in Stagings, WrapInstanceTask(t) PROVE ListInv' /\ StagingInv'
  <2>1. PICK g \in Names, over \in {0} \cup loaded :
            staging' = [staging EXCEPT ![t] = [NoStaging EXCEPT !.state = "building", !.group = g, !.over = over]]
    BY <1>3 DEF WrapInstanceTask
  <2>2. over \in {0} \cup Ids
    BY DEF ListInv, ListTyped
  <2>3. StagingInv'
    BY <2>1, <2>2, NewTask, TaskKeeps
  <2> QED
    BY <1>1, <1>3, <2>3 DEF WrapInstanceTask
<1>4. ASSUME NEW t \in Stagings, AbortStaging(t) \/ ChildBuilds(t) \/ ChildFails(t)
      PROVE  ListInv' /\ StagingInv'
  <2>1. UNCHANGED listVars /\ In(t, {"building"})
    BY <1>4 DEF AbortStaging, ChildBuilds, ChildFails
  <2>2. Goes(t, "aborted") \/ Goes(t, "filling") \/ Goes(t, "failed")
    BY <1>4 DEF AbortStaging, ChildBuilds, ChildFails
  <2> QED
    BY <1>1, <2>1, <2>2, GoesKeeps
<1>5. ASSUME NEW t \in Stagings, ChildSucceeded(t) PROVE ListInv' /\ StagingInv'
  <2>1. CASE CommitStagedInstance(t)
    <3>1. Goes(t, "succeeded")
      BY <2>1 DEF CommitStagedInstance
    <3> QED
      BY <2>1, <3>1, GoesKeeps, CommitStagedInstanceKeeps
  <2>2. CASE CommitFails(t)
    BY <1>5, <2>2, FailedCommitKeeps, CommitFailsKeeps DEF ChildSucceeded
  <2> QED
    BY <1>5, <2>1, <2>2 DEF ChildSucceeded
<1>6. CASE ListNext /\ UNCHANGED stagingVars
  BY <1>2, <1>6, ListNextKeeps
<1>7. CASE ListRestart /\ staging' = [t \in Stagings |-> NoStaging]
  <2>1. NoStaging \in Tasks /\ TaskInv(NoStaging)
    BY NewTask DEF Names
  <2>2. StagingInv'
    BY <1>7, <2>1 DEF StagingInv
  <2> QED
    BY <1>7, <2>2, ListRestartKeeps
<1>8. CASE UNCHANGED instanceVars
  BY <1>1, <1>2, <1>8 DEF instanceVars
<1> QED
  BY <1>3, <1>4, <1>5, <1>6, <1>7, <1>8 DEF InstanceNext, StagingStep


-----------------------------------------------------------------------------
(* What follows.                                                            *)

LEMMA RetriesFollow == InstanceInv => RetriesEnd
BY DEF InstanceInv, StagingInv, TaskInv, Tasks, RetriesEnd, In

LEMMA AgreementFollows == InstanceInv => GroupsAgree
<1> SUFFICES ASSUME ListInv, NEW i \in loaded \cap dirs
             PROVE  /\ GroupOf(GroupsAtStart, i) = GroupOf(book, i)
                    /\ ~astray /\ GroupOf(book, i) # NoGroup => book.count[GroupOf(book, i)] > 0
  BY DEF InstanceInv, GroupsAgree
<1>1. i \in Ids /\ book \in Books /\ SameFile(book) /\ FiledFirst(book)
  BY DEF ListInv, ListTyped, BookInv, Unread
<1>2. GroupOf(GroupsAtStart, i) = GroupOf(book, i)
  <2>1. GroupOf(GroupsAtStart, i) = IF book.filed THEN FiledGroup(book, i) ELSE NoGroup
    BY GroupsAtStartIs
  <2> QED
    BY <1>1, <2>1 DEF SameFile, FiledFirst
<1>3. ASSUME ~astray, GroupOf(book, i) # NoGroup PROVE book.count[GroupOf(book, i)] > 0
  <2>1. GroupOf(book, i) \in Groups
    BY <1>1, <1>3, GroupOfIsName DEF Names
  <2>2. book.count[GroupOf(book, i)] = Cardinality(InGroup(book, GroupOf(book, i)))
    BY <1>3, <2>1 DEF ListInv, CountInv, Counted
  <2> QED
    BY <1>1, <2>2, MembersAreFinite
<1> QED
  BY <1>2, <1>3

LEMMA FollowsDiskKeeps == ListFollowsDisk /\ [InstanceNext]_instanceVars => ListFollowsDisk'
<1> SUFFICES ASSUME ListFollowsDisk, [InstanceNext]_instanceVars PROVE ListFollowsDisk'
  OBVIOUS
<1>1. UNCHANGED <<dirs, loaded, notified, leftovers>> => ListFollowsDisk'
  BY DEF ListFollowsDisk
<1>2. loaded' = dirs' => ListFollowsDisk'
  BY DEF ListFollowsDisk
<1>3. notified' = TRUE => ListFollowsDisk'
  BY DEF ListFollowsDisk
<1>4. ASSUME NEW t \in Stagings, WrapInstanceTask(t) \/ AbortStaging(t) \/ StagingStep(t)
      PROVE  ListFollowsDisk'
  <2>1. CASE WrapInstanceTask(t) \/ AbortStaging(t) \/ ChildBuilds(t) \/ ChildFails(t)
    BY <1>1, <2>1 DEF WrapInstanceTask, AbortStaging, ChildBuilds, ChildFails, listVars
  <2>2. CASE CommitStagedInstance(t)
    BY <1>2, <2>2 DEF CommitStagedInstance, ListCommitted
  <2>3. CASE CommitFails(t)
    <3>1. \/ UNCHANGED <<dirs, leftovers>>
          \/ \E id : dirs' = dirs \cup {id} /\ leftovers' = leftovers \cup ({id} \ dirs)
      BY <2>3 DEF CommitFails
    <3>2. UNCHANGED <<loaded, notified>>
      BY <2>3 DEF CommitFails
    <3> QED
      BY <3>1, <3>2 DEF ListFollowsDisk
  <2> QED
    BY <1>4, <2>1, <2>2, <2>3 DEF StagingStep, ChildSucceeded
<1>5. ASSUME ListNext, UNCHANGED stagingVars PROVE ListFollowsDisk'
  <2>1. UNCHANGED leftovers
    BY <1>5 DEF stagingVars
  <2>2. ASSUME NEW id \in Ids, ListStep(id) PROVE ListFollowsDisk'
    <3>1. CASE TrashInstance(id)
      BY <1>1, <1>3, <2>1, <3>1 DEF TrashInstance, Removed
    <3>2. CASE DeleteInstance(id)
      BY <1>2, <3>2 DEF DeleteInstance, LoadList
    <3>3. CASE RenameInstance(id)
      BY <1>3, <3>3 DEF RenameInstance
    <3>4. CASE \E g \in Names : SetInstanceGroup(id, g)
      BY <1>1, <2>1, <3>4 DEF SetInstanceGroup
    <3> QED
      BY <2>2, <3>1, <3>2, <3>3, <3>4 DEF ListStep
  <2>3. ASSUME NEW g \in Groups, DeleteGroup(g) \/ \E to \in Names : RenameGroup(g, to) PROVE ListFollowsDisk'
    BY <1>1, <2>1, <2>3 DEF DeleteGroup, RenameGroup
  <2>4. CASE UndoTrashInstance
    BY <1>1, <1>3, <2>1, <2>4 DEF UndoTrashInstance
  <2>5. CASE InstancesChanged
    BY <1>2, <2>5 DEF InstancesChanged, LoadList
  <2>6. CASE OutsideChange
    BY <1>3, <2>6 DEF OutsideChange
  <2> QED
    BY <1>5, <2>2, <2>3, <2>4, <2>5, <2>6 DEF ListNext
<1>6. CASE ListRestart
  BY <1>2, <1>6 DEF ListRestart
<1>7. CASE UNCHANGED instanceVars
  BY <1>1, <1>7 DEF instanceVars, listVars, stagingVars
<1> QED
  BY <1>4, <1>5, <1>6, <1>7 DEF InstanceNext

(* The trash gets shorter when the last one is taken back, and at a start.  *)
LEMMA OnlyUndoShortens ==
    ASSUME ListInv, InstanceNext, Len(trash') < Len(trash), budget' = budget
    PROVE  UndoTrashInstance
<1>1. budget \in Nat /\ trash \in Seq(Trashed) /\ Len(trash) \in Nat
  BY DEF ListInv, ListTyped
<1>2. trash' # trash
  BY <1>1
<1>3. ASSUME NEW t \in Stagings PROVE ~(WrapInstanceTask(t) \/ AbortStaging(t) \/ StagingStep(t))
  BY <1>2 DEF WrapInstanceTask, AbortStaging, StagingStep, ChildBuilds, ChildFails, ChildSucceeded,
              CommitStagedInstance, CommitFails, listVars
<1>4. ~ListRestart
  BY <1>1 DEF ListRestart, Within
<1>5. ASSUME NEW id \in Ids PROVE ~ListStep(id)
  BY <1>1, <1>2 DEF ListStep, TrashInstance, DeleteInstance, RenameInstance, SetInstanceGroup, Within
<1>6. ASSUME NEW g \in Groups PROVE ~(DeleteGroup(g) \/ \E to \in Names : RenameGroup(g, to))
  BY <1>2 DEF DeleteGroup, RenameGroup
<1>7. ~InstancesChanged /\ ~OutsideChange
  BY <1>2 DEF InstancesChanged, OutsideChange
<1> QED
  BY <1>3, <1>4, <1>5, <1>6, <1>7 DEF InstanceNext, ListNext

LEMMA UndoneIsRestored ==
    ASSUME ListInv, UndoTrashInstance, NEW i \in dirs' \ dirs
    PROVE  /\ i \in loaded'
           /\ GroupOf(book', i) = trash[Len(trash)].group
           /\ FiledGroup(book', i) = GroupOf(book', i)
<1> DEFINE top == trash[Len(trash)]
<1>1. top \in Trashed /\ book \in Books
  BY DEF UndoTrashInstance, ListInv, ListTyped
<1>2. PICK id \in Ids \ dirs :
          /\ dirs' = dirs \cup {id}
          /\ LoadList(SaveGroupList(Increase(Assign(book, id, top.group), top.group)), dirs')
  BY DEF UndoTrashInstance
<1> DEFINE b == Increase(Assign(book, id, top.group), top.group)
           c == SaveGroupList(b)
<1>3. i = id /\ i \in Ids /\ top.group \in Names
  BY <1>1, <1>2 DEF Trashed
<1>4. loaded' = dirs' /\ book' = Reloaded(c, dirs')
  BY <1>2 DEF LoadList
<1>5. b \in Books /\ GroupOf(b, i) = top.group
  BY <1>1, <1>3, EnterIs
<1> HIDE DEF b
<1>6. c \in Books /\ SameFile(c) /\ FiledFirst(c) /\ GroupOf(c, i) = top.group
  BY <1>5, SaveKeeps
<1> HIDE DEF c
<1>7. SameFile(book') /\ GroupOf(book', i) = GroupOf(c, i)
  BY <1>3, <1>4, <1>6, ReloadedKeeps
<1> QED
  BY <1>3, <1>4, <1>6, <1>7 DEF SameFile

(* However often a commit fails, it is tried at most five times, and a task *)
(* that failed because of it has waited for every pause.                    *)
THEOREM CommitsEnd == InstanceSpec => []RetriesEnd
<1> QED
  BY InstanceInitHolds, InstanceStepKeeps, RetriesFollow, PTL DEF InstanceSpec

(* Whatever is done to groups and instances, and whatever becomes of their  *)
(* directories: a program that is started again finds each listed instance  *)
(* in its group; and as long as no directory came or went without its group *)
(* the group is one of those shown.                                         *)
THEOREM GroupsStayTrue == InstanceSpec => []GroupsAgree
<1> QED
  BY InstanceInitHolds, InstanceStepKeeps, AgreementFollows, PTL DEF InstanceSpec

(* The list differs from the folder only while a report of the watcher is   *)
(* on its way, or by what a commit left behind that failed.                 *)
THEOREM DifferencesAreReported == InstanceSpec => []ListFollowsDisk
<1>1. StagingInit => ListFollowsDisk
  BY DEF StagingInit, ListInit, ListFollowsDisk
<1> QED
  BY <1>1, FollowsDiskKeeps, PTL DEF InstanceSpec

(* An instance that comes back from the trash, under whatever name, is in   *)
(* the list and in the group it was in, in memory and in the file.          *)
THEOREM UndoBringsBack == InstanceSpec => UndoRestores
<1>1. InstanceInv /\ [InstanceNext]_instanceVars =>
          [\A i \in dirs' \ dirs :
              (Len(trash') < Len(trash) /\ budget' = budget) =>
                  /\ i \in loaded'
                  /\ GroupOf(book', i) = trash[Len(trash)].group
                  /\ GroupOf(book', i) # NoGroup => GroupOf([index |-> book'.file], i) = GroupOf(book', i)]_instanceVars
  <2> SUFFICES ASSUME ListInv, InstanceNext, NEW i \in dirs' \ dirs, Len(trash') < Len(trash), budget' = budget
               PROVE  /\ i \in loaded'
                      /\ GroupOf(book', i) = trash[Len(trash)].group
                      /\ GroupOf(book', i) # NoGroup => GroupOf([index |-> book'.file], i) = GroupOf(book', i)
    BY DEF InstanceInv
  <2> QED
    BY OnlyUndoShortens, UndoneIsRestored DEF FiledGroup
<1> QED
  BY <1>1, InstanceInitHolds, InstanceStepKeeps, PTL DEF InstanceSpec, UndoRestores
=============================================================================
