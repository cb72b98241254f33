--------------------------- MODULE ReplicaProofs ----------------------------
(***************************************************************************)
(* Theorems about Replica for any boards, identities, ids and names, any   *)
(* number of refreshes at once and of things from outside.                 *)
(***************************************************************************)
EXTENDS Replica, FiniteSetTheorems, SequenceTheorems, TLAPS

-----------------------------------------------------------------------------
(* The queue of refreshes *)

LEMMA QueueProperties ==
  ASSUME NEW S, NEW q \in Seq(S), q # <<>>
  PROVE  /\ Head(q) \in S /\ Head(q) = q[1] /\ Tail(q) \in Seq(S)
         /\ Len(q) \in Nat /\ Len(q) >= 1 /\ Len(Tail(q)) = Len(q) - 1
         /\ DOMAIN q = 1..Len(q) /\ DOMAIN Tail(q) = 1..(Len(q) - 1)
         /\ \A i \in 1..(Len(q) - 1) : Tail(q)[i] = q[i + 1]
<1>1. /\ Tail(q) \in Seq(S) /\ Len(Tail(q)) = Len(q) - 1
      /\ \A i \in 1..Len(Tail(q)) : Tail(q)[i] = q[i + 1]
  BY HeadTailProperties
<1>2. Len(q) \in Nat /\ DOMAIN q = 1..Len(q) /\ DOMAIN Tail(q) = 1..Len(Tail(q))
  BY <1>1, LenProperties
<1>3. Len(q) # 0
  BY EmptySeq
<1>4. Head(q) \in S /\ Head(q) = q[1]
  BY <1>2, <1>3
<1>5. Len(q) >= 1
  BY <1>2, <1>3
<1>6. QED
  BY <1>1, <1>2, <1>4, <1>5

\* A refresh that is done or dropped is the first; the others move up.
LEMMA QueueMovesUp ==
  ASSUME NEW S, NEW q \in Seq(S), q # <<>>
  PROVE  /\ Tail(q) \in Seq(S) /\ Len(Tail(q)) <= Len(q)
         /\ \A i \in DOMAIN Tail(q) : i + 1 \in DOMAIN q /\ Tail(q)[i] = q[i + 1]
BY QueueProperties

\* A refresh that begins is the last.
LEMMA QueueGrows ==
  ASSUME NEW S, NEW q \in Seq(S), NEW e \in S
  PROVE  /\ Append(q, e) \in Seq(S) /\ Len(Append(q, e)) = Len(q) + 1
         /\ \A i \in DOMAIN Append(q, e) :
              \/ i \in DOMAIN q /\ i <= Len(q) /\ Append(q, e)[i] = q[i]
              \/ i = Len(q) + 1 /\ Append(q, e)[i] = e
<1>1. /\ Append(q, e) \in Seq(S) /\ Len(Append(q, e)) = Len(q) + 1
      /\ \A i \in 1..Len(q) : Append(q, e)[i] = q[i]
      /\ Append(q, e)[Len(q) + 1] = e
  BY AppendProperties
<1>2. Len(q) \in Nat /\ DOMAIN q = 1..Len(q) /\ DOMAIN Append(q, e) = 1..(Len(q) + 1)
  BY <1>1, LenProperties
<1>3. QED
  BY <1>1, <1>2

\* A refresh that goes on is the last again.
LEMMA QueueTurns ==
  ASSUME NEW S, NEW q \in Seq(S), q # <<>>, NEW e \in S
  PROVE  /\ Append(Tail(q), e) \in Seq(S) /\ Len(Append(Tail(q), e)) = Len(q)
         /\ \A i \in DOMAIN Append(Tail(q), e) :
              \/ i + 1 \in DOMAIN q /\ i < Len(q) /\ Append(Tail(q), e)[i] = q[i + 1]
              \/ i = Len(q) /\ Append(Tail(q), e)[i] = e
<1> DEFINE t == Tail(q)
<1>1. /\ t \in Seq(S) /\ Len(t) = Len(q) - 1 /\ Len(q) \in Nat /\ Len(q) >= 1
      /\ DOMAIN q = 1..Len(q)
      /\ \A i \in 1..(Len(q) - 1) : t[i] = q[i + 1]
  BY QueueProperties
<1> HIDE DEF t
<1>2. /\ Append(t, e) \in Seq(S) /\ Len(Append(t, e)) = Len(t) + 1
      /\ \A i \in DOMAIN Append(t, e) :
           \/ i \in DOMAIN t /\ i <= Len(t) /\ Append(t, e)[i] = t[i]
           \/ i = Len(t) + 1 /\ Append(t, e)[i] = e
  BY <1>1, QueueGrows
<1>3. DOMAIN t = 1..(Len(q) - 1)
  BY <1>1, LenProperties
<1>4. Append(t, e) \in Seq(S) /\ Len(Append(t, e)) = Len(q)
  BY <1>1, <1>2
<1>5. ASSUME NEW i \in DOMAIN Append(t, e)
      PROVE  \/ i + 1 \in DOMAIN q /\ i < Len(q) /\ Append(t, e)[i] = q[i + 1]
             \/ i = Len(q) /\ Append(t, e)[i] = e
  <2>1. CASE i \in DOMAIN t /\ Append(t, e)[i] = t[i]
    <3>1. i \in 1..(Len(q) - 1)
      BY <1>3, <2>1
    <3>2. i + 1 \in 1..Len(q) /\ i < Len(q)
      BY <1>1, <3>1
    <3>3. QED
      BY <1>1, <2>1, <3>1, <3>2
  <2>2. CASE i = Len(t) + 1 /\ Append(t, e)[i] = e
    BY <1>1, <2>2
  <2>3. QED
    BY <1>2, <2>1, <2>2
<1>6. QED
  BY <1>4, <1>5 DEF t

-----------------------------------------------------------------------------
(* Registries *)

LEMMA NothingListed == Nothing \in Listing /\ Listed(Nothing) = {}
BY DEF Nothing, Listing, Listed

LEMMA ListedIsFinite ==
  ASSUME NEW S \in SUBSET Ids
  PROVE  IsFiniteSet(S) /\ Cardinality(S) \in Nat
<1>1. IsFiniteSet(Ids)
  BY FS_Interval, RegistryAssumption DEF Ids
<1>2. IsFiniteSet(S)
  BY <1>1, FS_Subset
<1>3. QED
  BY <1>2, FS_CardinalityType

LEMMA MintedIsRegistry ==
  ASSUME NEW i \in Identities
  PROVE  /\ Minted(i) \in Registry /\ Minted(i).id = i /\ ~Minted(i).restoring
         /\ Minted(i).names = Nothing /\ Minted(i).next = 1
BY NothingListed, RegistryAssumption DEF Minted, Registry

LEMMA AdvancedIs ==
  ASSUME NEW r \in Registry
  PROVE  /\ Advanced(r) \in Registry /\ Advanced(r).rev = r.rev + 1
         /\ Advanced(r).id = r.id /\ Advanced(r).next = r.next /\ Advanced(r).names = r.names
         /\ Advanced(r).restoring = r.restoring
BY DEF Advanced, Registry

LEMMA CopyOfIsCopy ==
  ASSUME NEW r \in Registry
  PROVE  /\ CopyOf(r) \in Copy
         /\ CopyOf(r).rev = r.rev /\ CopyOf(r).next = r.next /\ CopyOf(r).names = r.names
BY DEF CopyOf, Copy, Registry

LEMMA NoCopyIsCopy ==
  NoCopy \in Copy /\ NoCopy.names = Nothing /\ NoCopy.rev = 0
BY NothingListed, RegistryAssumption DEF NoCopy, Copy

LEMMA NoFlowIsFlow ==
  NoFlow \in Flow /\ NoFlow.st = "idle" /\ NoFlow.copy = NoCopy /\ NoFlow.todo = {}
BY NoCopyIsCopy, ReplicaAssumption DEF NoFlow, Flow

\* What every client but a restore can make of a registry, and what damage can: it stays the
\* same bridge's, its revision and counter never go back, an id that was given is not listed
\* again, and while a restore is open nothing is listed that was not.
Edits(r, s) ==
  /\ s \in Registry /\ s.id = r.id /\ s.rev >= r.rev /\ s.next >= r.next
  /\ Listed(r.names) \subseteq 1..(r.next - 1) => Listed(s.names) \subseteq 1..(s.next - 1)
  /\ \A c \in Ids : c < r.next /\ s.names[c] # NoName => r.names[c] # NoName
  /\ s.restoring => r.restoring /\ \A c \in Ids : s.names[c] \in {NoName, r.names[c]}

LEMMA EditsNothing ==
  ASSUME NEW r \in Registry PROVE Edits(r, r)
BY DEF Edits, Registry

\* One listing becomes another.
LEMMA EditsNames ==
  ASSUME NEW r \in Registry, NEW s \in Registry, s.id = r.id, s.rev >= r.rev, s.next = r.next,
         s.restoring => r.restoring /\ \A c \in Ids : s.names[c] \in {NoName, r.names[c]},
         \A c \in Ids : s.names[c] # NoName => r.names[c] # NoName
  PROVE  Edits(r, s)
BY DEF Edits, Registry, Listed

LEMMA LearnedEdits ==
  ASSUME NEW r \in Registry, NEW n \in Names, NEW room
  PROVE  Edits(r, Learned(r, n, room))
<1>1. CASE Learned(r, n, room) = r
  BY <1>1, EditsNothing
<1>2. CASE Learned(r, n, room) # r
  <2> DEFINE ns == [r.names EXCEPT ![r.next] = n]
             m  == [r EXCEPT !.names[r.next] = n, !.next = @ + 1]
             s  == Learned(r, n, room)
  <2>1. Writable(r) /\ r.next \in Ids
    BY <1>2 DEF Learned
  <2>2. ns \in Listing /\ \A c \in Ids : ns[c] = IF c = r.next THEN n ELSE r.names[c]
    BY <2>1 DEF Registry, Listing
  <2>3. m = [r EXCEPT !.names = ns, !.next = r.next + 1] /\ s = Advanced(m)
    BY <1>2 DEF Learned
  <2>4. r.next \in Nat /\ r.rev \in Nat /\ r.next + 1 \in 1..(MaxId + 1)
    BY <2>1, RegistryAssumption DEF Registry, Ids
  <2> HIDE DEF ns, m, s
  <2>5. /\ m \in Registry /\ m.id = r.id /\ m.next = r.next + 1 /\ m.names = ns
         /\ m.restoring = r.restoring /\ m.rev = r.rev
    BY <2>2, <2>3, <2>4 DEF Registry
  <2>6. /\ s \in Registry /\ s.id = r.id /\ s.rev = r.rev + 1 /\ s.next = r.next + 1
        /\ s.names = ns /\ s.restoring = r.restoring
    BY <2>3, <2>5, AdvancedIs
  <2>7. ASSUME Listed(r.names) \subseteq 1..(r.next - 1), NEW c \in Listed(ns)
        PROVE  c \in 1..r.next
    <3>1. CASE c = r.next
      BY <2>4, <3>1, <2>1 DEF Ids
    <3>2. CASE c # r.next
      <4>1. c \in Listed(r.names)
        BY <2>2, <3>2 DEF Listed
      <4>2. c \in 1..(r.next - 1)
        BY <2>7, <4>1
      <4>3. QED
        BY <2>4, <4>2
    <3>3. QED
      BY <3>1, <3>2
  <2>8. s.next - 1 = r.next /\ s.rev >= r.rev /\ s.next >= r.next
    BY <2>4, <2>6
  <2>9. \A c \in Ids : c < r.next /\ s.names[c] # NoName => r.names[c] # NoName
    BY <2>2, <2>4, <2>6 DEF Ids
  <2>10. ~s.restoring
    BY <2>1, <2>6 DEF Writable
  <2>11. QED
    BY <2>6, <2>7, <2>8, <2>9, <2>10 DEF Edits, s
<1>3. QED
  BY <1>1, <1>2

\* A registry whose listing alone has changed.
LEMMA Relisted ==
  ASSUME NEW r \in Registry, NEW c \in Ids, NEW n \in Names \cup {NoName}
  PROVE  /\ [r EXCEPT !.names[c] = n] \in Registry
         /\ \A d \in Ids : [r EXCEPT !.names[c] = n].names[d] = IF d = c THEN n ELSE r.names[d]
         /\ [r EXCEPT !.names[c] = n].rev = r.rev /\ [r EXCEPT !.names[c] = n].id = r.id
         /\ [r EXCEPT !.names[c] = n].next = r.next
         /\ [r EXCEPT !.names[c] = n].restoring = r.restoring
<1> DEFINE ns == [r.names EXCEPT ![c] = n]
           m  == [r EXCEPT !.names[c] = n]
<1>1. ns \in Listing /\ \A d \in Ids : ns[d] = IF d = c THEN n ELSE r.names[d]
  BY DEF Registry, Listing
<1>2. m = [r EXCEPT !.names = ns]
  OBVIOUS
<1> HIDE DEF ns, m
<1>3. /\ m \in Registry /\ m.names = ns /\ m.rev = r.rev /\ m.id = r.id /\ m.next = r.next
      /\ m.restoring = r.restoring
  BY <1>1, <1>2 DEF Registry
<1>4. QED
  BY <1>1, <1>3 DEF m

LEMMA RenamedEdits ==
  ASSUME NEW r \in Registry, NEW c \in Ids, NEW n \in Names
  PROVE  Edits(r, Renamed(r, c, n))
<1>1. CASE Renamed(r, c, n) = r
  BY <1>1, EditsNothing
<1>2. CASE Renamed(r, c, n) # r
  <2> DEFINE m == [r EXCEPT !.names[c] = n]
  <2>1. /\ ~r.restoring /\ r.names[c] # NoName /\ Renamed(r, c, n) = Advanced(m)
    BY <1>2 DEF Renamed, Writable, Listed
  <2>2. /\ m \in Registry /\ m.rev = r.rev /\ m.id = r.id /\ m.next = r.next
        /\ m.restoring = r.restoring
        /\ \A d \in Ids : m.names[d] = IF d = c THEN n ELSE r.names[d]
    BY Relisted
  <2> HIDE DEF m
  <2>3. /\ Advanced(m) \in Registry /\ Advanced(m).rev >= r.rev /\ Advanced(m).id = r.id
        /\ Advanced(m).next = r.next /\ ~Advanced(m).restoring
        /\ \A d \in Ids : Advanced(m).names[d] # NoName => r.names[d] # NoName
    BY <2>1, <2>2, AdvancedIs DEF Registry
  <2>4. QED
    BY <2>1, <2>3, EditsNames
<1>3. QED
  BY <1>1, <1>2

LEMMA RemovedEdits ==
  ASSUME NEW r \in Registry, NEW c \in Ids
  PROVE  /\ Edits(r, Removed(r, c))
         /\ \A d \in Ids : Removed(r, c).names[d] # NoName => r.names[d] # NoName
<1>1. CASE Removed(r, c) = r
  BY <1>1, EditsNothing
<1>2. CASE Removed(r, c) # r
  <2> DEFINE m == [r EXCEPT !.names[c] = NoName]
  <2>1. ~r.restoring /\ Removed(r, c) = Advanced(m)
    BY <1>2 DEF Removed, Writable
  <2>2. /\ m \in Registry /\ m.rev = r.rev /\ m.id = r.id /\ m.next = r.next
        /\ m.restoring = r.restoring
        /\ \A d \in Ids : m.names[d] = IF d = c THEN NoName ELSE r.names[d]
    BY Relisted
  <2> HIDE DEF m
  <2>3. /\ Advanced(m) \in Registry /\ Advanced(m).rev >= r.rev /\ Advanced(m).id = r.id
        /\ Advanced(m).next = r.next /\ ~Advanced(m).restoring
        /\ \A d \in Ids : Advanced(m).names[d] # NoName => r.names[d] # NoName
    BY <2>1, <2>2, AdvancedIs DEF Registry
  <2>4. QED
    BY <2>1, <2>3, EditsNames
<1>3. QED
  BY <1>1, <1>2

LEMMA DamagedEdits ==
  ASSUME NEW r \in Registry, NEW c \in Ids
  PROVE  /\ Edits(r, Damaged(r, c)) /\ Damaged(r, c).restoring = r.restoring
         /\ \A d \in Ids : Damaged(r, c).names[d] # NoName => r.names[d] # NoName
<1> DEFINE m == [r EXCEPT !.names[c] = NoName]
<1>1. /\ m \in Registry /\ m.rev = r.rev /\ m.id = r.id /\ m.next = r.next
      /\ m.restoring = r.restoring
      /\ \A d \in Ids : m.names[d] = IF d = c THEN NoName ELSE r.names[d]
  BY Relisted
<1>2. Damaged(r, c) = [m EXCEPT !.readOnly = TRUE]
  BY DEF Damaged
<1> HIDE DEF m
<1>3. /\ Damaged(r, c) \in Registry /\ Damaged(r, c).rev = r.rev /\ Damaged(r, c).id = r.id
      /\ Damaged(r, c).next = r.next /\ Damaged(r, c).restoring = r.restoring
      /\ Damaged(r, c).names = m.names
  BY <1>1, <1>2 DEF Registry
<1>4. \A d \in Ids : /\ Damaged(r, c).names[d] \in {NoName, r.names[d]}
                     /\ Damaged(r, c).names[d] # NoName => r.names[d] # NoName
  BY <1>1, <1>3
<1>5. Damaged(r, c).rev >= r.rev
  BY <1>3 DEF Registry
<1>6. QED
  BY <1>3, <1>4, <1>5, EditsNames

LEMMA ClearedEdits ==
  ASSUME NEW r \in Registry
  PROVE  /\ Edits(r, Cleared(r))
         /\ \A d \in Ids : Cleared(r).names[d] # NoName => r.names[d] # NoName
<1>1. CASE Cleared(r) = r
  BY <1>1, EditsNothing
<1>2. CASE Cleared(r) # r
  <2> DEFINE m == [r EXCEPT !.names = Nothing, !.restoring = FALSE]
  <2>1. Cleared(r) = Advanced(m)
    BY <1>2 DEF Cleared
  <2>2. /\ m \in Registry /\ m.rev = r.rev /\ m.id = r.id /\ m.next = r.next
        /\ ~m.restoring /\ m.names = Nothing
    BY NothingListed DEF Registry
  <2> HIDE DEF m
  <2>3. /\ Advanced(m) \in Registry /\ Advanced(m).rev >= r.rev /\ Advanced(m).id = r.id
        /\ Advanced(m).next = r.next /\ ~Advanced(m).restoring
        /\ \A d \in Ids : Advanced(m).names[d] = NoName
    BY <2>2, AdvancedIs DEF Registry, Nothing
  <2>4. QED
    BY <2>1, <2>3, EditsNames
<1>3. QED
  BY <1>1, <1>2

LEMMA BegunIs ==
  ASSUME NEW r \in Registry, NEW i \in Identities, NEW next \in 1..(MaxId + 1),
         NEW s, s = RestoreBegun(r, i, next)
  PROVE  \/ s = r
         \/ /\ s \in Registry /\ s.id = i /\ s.next = next /\ s.restoring
            /\ \A d \in Ids : s.names[d] = NoName
<1> SUFFICES ASSUME s # r
             PROVE  /\ s \in Registry /\ s.id = i /\ s.next = next /\ s.restoring
                    /\ \A d \in Ids : s.names[d] = NoName
  OBVIOUS
<1> DEFINE m == [r EXCEPT !.id = i, !.next = next, !.restoring = TRUE]
<1>1. s = Advanced(m) /\ Listed(r.names) = {}
  BY DEF RestoreBegun
<1>2. m \in Registry /\ m.id = i /\ m.next = next /\ m.restoring /\ m.names = r.names
  BY DEF Registry
<1> HIDE DEF m
<1>3. QED
  BY <1>1, <1>2, AdvancedIs DEF Listed

LEMMA ImportedIs ==
  ASSUME NEW r \in Registry, NEW c \in Ids, NEW n \in Names \cup {NoName}, NEW room,
         NEW s, s = Imported(r, c, n, room)
  PROVE  \/ s = r
         \/ /\ r.restoring /\ c < r.next
            /\ s \in Registry /\ s.id = r.id /\ s.next = r.next /\ s.restoring
            /\ \A d \in Ids : s.names[d] = IF d = c THEN n ELSE r.names[d]
<1> SUFFICES ASSUME s # r
             PROVE  /\ r.restoring /\ c < r.next
                    /\ s \in Registry /\ s.id = r.id /\ s.next = r.next /\ s.restoring
                    /\ \A d \in Ids : s.names[d] = IF d = c THEN n ELSE r.names[d]
  OBVIOUS
<1> DEFINE m == [r EXCEPT !.names[c] = n]
<1>1. s = Advanced(m) /\ r.restoring /\ c < r.next
  BY DEF Imported
<1>2. /\ m \in Registry /\ m.id = r.id /\ m.next = r.next /\ m.restoring = r.restoring
      /\ \A d \in Ids : m.names[d] = IF d = c THEN n ELSE r.names[d]
  BY Relisted
<1> HIDE DEF m
<1>3. /\ s \in Registry /\ s.id = m.id /\ s.next = m.next /\ s.restoring = m.restoring
      /\ s.names = m.names
  BY <1>1, <1>2, AdvancedIs
<1>4. \A d \in Ids : s.names[d] = IF d = c THEN n ELSE r.names[d]
  BY <1>2, <1>3
<1>5. QED
  BY <1>1, <1>2, <1>3, <1>4

LEMMA CommittedIs ==
  ASSUME NEW r \in Registry, NEW source \in Nat, NEW s, s = RestoreCommitted(r, source)
  PROVE  \/ s = r
         \/ /\ r.restoring
            /\ s \in Registry /\ s.id = r.id /\ s.next = r.next /\ s.names = r.names
            /\ ~s.restoring /\ s.rev > source
<1> SUFFICES ASSUME s # r
             PROVE  /\ r.restoring
                    /\ s \in Registry /\ s.id = r.id /\ s.next = r.next /\ s.names = r.names
                    /\ ~s.restoring /\ s.rev > source
  OBVIOUS
<1> DEFINE rev == IF source > r.rev THEN source ELSE r.rev
           m   == [r EXCEPT !.restoring = FALSE, !.rev = rev]
<1>1. s = Advanced(m) /\ r.restoring
  BY DEF RestoreCommitted
<1>2. rev \in Nat /\ rev >= source
  BY DEF Registry
<1> HIDE DEF rev
<1>3. /\ m \in Registry /\ m.id = r.id /\ m.next = r.next /\ m.names = r.names
      /\ ~m.restoring /\ m.rev = rev
  BY <1>2 DEF Registry
<1> HIDE DEF m
<1>4. s \in Registry /\ s.rev = rev + 1 /\ s.rev > source
  BY <1>1, <1>2, <1>3, AdvancedIs
<1>5. QED
  BY <1>1, <1>3, <1>4, AdvancedIs

-----------------------------------------------------------------------------
(* What a step does to the boards *)

LEMMA ItBecomes ==
  ASSUME TypeOK, NEW b \in Boards, NEW s \in Registry, Becomes(b, s)
  PROVE  /\ boards' \in [Boards -> Registry] /\ published' \subseteq Copy
         /\ published \subseteq published'
         /\ \A o \in Boards : boards'[o] = IF o = b THEN s ELSE boards[o]
         /\ s.id = Ours /\ ~s.restoring => CopyOf(s) \in published'
BY CopyOfIsCopy DEF TypeOK, Becomes

\* A board is written to by someone other than the restore, or damaged: it is edited, or reset
\* to an identity and a registry of its own.
Written(b, s) ==
  /\ Changes(b, s) /\ gone' \subseteq Ids
  /\ Edits(boards[b], s) \/ (s.id # Ours /\ ~s.restoring /\ s.names = Nothing)
  /\ boards[b].restoring /\ ~Abandoning => s.restoring \/ s.id # Ours
  /\ b = at /\ boards[b].id # Ours /\ exports # <<>> =>
       \A c \in Ids : s.names[c] # NoName => boards[b].names[c] # NoName

OtherStep(b) ==
  Learn(b) \/ Rename(b) \/ Remove(b) \/ Clear(b) \/ FactoryReset(b) \/ Damage(b)

LEMMA OthersWrite ==
  ASSUME TypeOK, NEW b \in Boards, OtherStep(b)
  PROVE  \E s \in Registry : Written(b, s)
<1>0. boards[b] \in Registry /\ gone \subseteq Ids
  BY DEF TypeOK
<1>1. CASE Learn(b)
  <2>1. PICK n \in Names :
          Changes(b, Learned(boards[b], n, IF Slots[b] < Room[b] THEN Slots[b] ELSE Room[b]))
    BY <1>1 DEF Learn
  <2> DEFINE s == Learned(boards[b], n, IF Slots[b] < Room[b] THEN Slots[b] ELSE Room[b])
  <2>2. Edits(boards[b], s)
    BY <1>0, LearnedEdits
  <2>3. Changes(b, s) /\ s # boards[b]
    BY <2>1 DEF Changes
  <2>4. ~boards[b].restoring
    BY <2>3 DEF Learned, Writable
  <2>5. ~(b = at /\ boards[b].id # Ours /\ exports # <<>>)
    BY <1>1 DEF Learn
  <2>6. s \in Registry /\ gone' = gone
    BY <1>1, <2>2 DEF Learn, Edits
  <2> HIDE DEF s
  <2>7. Written(b, s)
    BY <1>0, <2>2, <2>3, <2>4, <2>5, <2>6 DEF Written
  <2>8. QED
    BY <2>6, <2>7
<1>2. CASE Rename(b)
  <2>1. PICK c \in Ids, n \in Names : Changes(b, Renamed(boards[b], c, n))
    BY <1>2 DEF Rename
  <2> DEFINE s == Renamed(boards[b], c, n)
  <2>2. Edits(boards[b], s)
    BY <1>0, RenamedEdits
  <2>3. Changes(b, s) /\ s # boards[b]
    BY <2>1 DEF Changes
  <2>4. ~boards[b].restoring
    BY <2>3 DEF Renamed, Writable
  <2>5. \A d \in Ids : s.names[d] # NoName => boards[b].names[d] # NoName
    <3>1. boards[b].names[c] # NoName
      BY <2>3 DEF Renamed, Listed
    <3>2. s = Advanced([boards[b] EXCEPT !.names[c] = n])
      BY <2>3 DEF Renamed
    <3> DEFINE m == [boards[b] EXCEPT !.names[c] = n]
    <3>3. /\ m \in Registry
          /\ \A d \in Ids : m.names[d] = IF d = c THEN n ELSE boards[b].names[d]
      BY <1>0, Relisted
    <3> HIDE DEF m
    <3>4. s.names = m.names
      BY <3>2, <3>3, AdvancedIs DEF m
    <3>5. QED
      BY <3>1, <3>3, <3>4
  <2>6. s \in Registry /\ gone' = gone
    BY <1>2, <2>2 DEF Rename, Edits
  <2> HIDE DEF s
  <2>7. Written(b, s)
    BY <1>0, <2>2, <2>3, <2>4, <2>5, <2>6 DEF Written
  <2>8. QED
    BY <2>6, <2>7
<1>3. CASE Remove(b)
  <2>1. PICK c \in Listed(boards[b].names) :
          Changes(b, Removed(boards[b], c)) /\ Forgotten(b, {c})
    BY <1>3 DEF Remove
  <2> DEFINE s == Removed(boards[b], c)
  <2>2. c \in Ids
    BY DEF Listed
  <2>3. Edits(boards[b], s) /\ \A d \in Ids : s.names[d] # NoName => boards[b].names[d] # NoName
    BY <1>0, <2>2, RemovedEdits
  <2>4. Changes(b, s) /\ s # boards[b]
    BY <2>1 DEF Changes
  <2>5. ~boards[b].restoring
    BY <2>4 DEF Removed, Writable
  <2>6. s \in Registry /\ gone' \subseteq Ids
    BY <1>0, <2>1, <2>2, <2>3 DEF Forgotten, Edits
  <2> HIDE DEF s
  <2>7. Written(b, s)
    BY <2>3, <2>4, <2>5, <2>6 DEF Written
  <2>8. QED
    BY <2>6, <2>7
<1>4. CASE Clear(b)
  <2> DEFINE s == Cleared(boards[b])
  <2>1. Edits(boards[b], s) /\ \A d \in Ids : s.names[d] # NoName => boards[b].names[d] # NoName
    BY <1>0, ClearedEdits
  <2>2. Changes(b, s) /\ (boards[b].restoring => Abandoning)
    BY <1>4 DEF Clear
  <2>3. s \in Registry /\ gone' \subseteq Ids
    BY <1>0, <1>4, <2>1 DEF Clear, Forgotten, Edits, Listed
  <2> HIDE DEF s
  <2>4. Written(b, s)
    BY <2>1, <2>2, <2>3 DEF Written
  <2>5. QED
    BY <2>3, <2>4
<1>5. CASE FactoryReset(b)
  <2>1. PICK i \in Identities \ {Ours} : Changes(b, Minted(i))
    BY <1>5 DEF FactoryReset
  <2>2. /\ Minted(i) \in Registry /\ Minted(i).id # Ours /\ ~Minted(i).restoring
        /\ Minted(i).names = Nothing
    BY MintedIsRegistry
  <2>3. gone' = gone
    BY <1>5 DEF FactoryReset
  <2>4. QED
    BY <1>0, <2>1, <2>2, <2>3 DEF Written, Nothing
<1>6. CASE Damage(b)
  <2>1. PICK c \in Listed(boards[b].names) :
          /\ Changes(b, Damaged(boards[b], c))
          /\ IF stored.rev = boards[b].rev THEN UNCHANGED gone ELSE Forgotten(b, {c})
    BY <1>6 DEF Damage
  <2> DEFINE s == Damaged(boards[b], c)
  <2>2. c \in Ids
    BY DEF Listed
  <2>3. /\ Edits(boards[b], s) /\ s.restoring = boards[b].restoring
        /\ \A d \in Ids : s.names[d] # NoName => boards[b].names[d] # NoName
    BY <1>0, <2>2, DamagedEdits
  <2>4. Changes(b, s)
    BY <2>1
  <2>5. s \in Registry /\ gone' \subseteq Ids
    BY <1>0, <2>1, <2>2, <2>3 DEF Forgotten, Edits
  <2> HIDE DEF s
  <2>6. Written(b, s)
    BY <2>3, <2>4, <2>5 DEF Written
  <2>7. QED
    BY <2>5, <2>6
<1>7. QED
  BY <1>1, <1>2, <1>3, <1>4, <1>5, <1>6 DEF OtherStep

-----------------------------------------------------------------------------
(* What a step does to the refreshes *)

\* A refresh that begins with status s, one that has exported c, and what it makes at its end.
Begun(s) == [status |-> s, todo |-> Listed(s.names), got |-> Nothing]
Exported(e, c) == [e EXCEPT !.todo = e.todo \ {c}, !.got = [e.got EXCEPT ![c] = boards[at].names[c]]]
Snapshot(e) == [rev |-> e.status.rev, next |-> e.status.next, names |-> e.got]

LEMMA BegunIsRefresh ==
  ASSUME NEW s \in Registry
  PROVE  /\ Begun(s) \in Refresh /\ Begun(s).status = s /\ Begun(s).todo = Listed(s.names)
         /\ Begun(s).got = Nothing
BY NothingListed DEF Begun, Refresh, Listed

LEMMA ExportedIs ==
  ASSUME TypeOK, at \in Boards, NEW e \in Refresh, NEW c \in Ids
  PROVE  /\ Exported(e, c) \in Refresh /\ Exported(e, c).status = e.status
         /\ Exported(e, c).todo = e.todo \ {c}
         /\ \A d \in Ids : Exported(e, c).got[d] = IF d = c THEN boards[at].names[c] ELSE e.got[d]
<1> DEFINE got == [e.got EXCEPT ![c] = boards[at].names[c]]
<1>1. boards[at].names[c] \in Names \cup {NoName}
  BY DEF TypeOK, Registry, Listing
<1>2. got \in Listing /\ \A d \in Ids : got[d] = IF d = c THEN boards[at].names[c] ELSE e.got[d]
  BY <1>1 DEF Refresh, Listing
<1>3. Exported(e, c) = [e EXCEPT !.todo = e.todo \ {c}, !.got = got]
  BY DEF Exported
<1> HIDE DEF got
<1>4. /\ Exported(e, c) \in Refresh /\ Exported(e, c).status = e.status
      /\ Exported(e, c).todo = e.todo \ {c} /\ Exported(e, c).got = got
  BY <1>2, <1>3 DEF Refresh
<1>5. QED
  BY <1>2, <1>4

LEMMA SnapshotIsCopy ==
  ASSUME NEW e \in Refresh
  PROVE  /\ Snapshot(e) \in Copy /\ Snapshot(e).rev = e.status.rev
         /\ Snapshot(e).next = e.status.next /\ Snapshot(e).names = e.got
BY DEF Snapshot, Refresh, Copy, Registry

\* What becomes of the first refresh when its call is answered.
Drops == exports' = Tail(exports) /\ replica' = replica
GoesOn(e) == exports' = Append(Tail(exports), e) /\ e.todo # {} /\ replica' = replica
Finishes(e) == exports' = Tail(exports) /\ e.todo = {} /\ replica' = Snapshot(e)

LEMMA Answered ==
  ASSUME TypeOK, AnswerExport
  PROVE  /\ exports # <<>> /\ at \in Boards /\ Head(exports) \in Refresh
         /\ \/ Drops
            \/ \E c \in Head(exports).todo :
                 /\ at \in up /\ boards[at].names[c] # NoName
                 /\ GoesOn(Exported(Head(exports), c)) \/ Finishes(Exported(Head(exports), c))
<1>1. exports \in Seq(Refresh) /\ exports # <<>> /\ at \in Boards
  BY DEF TypeOK, AnswerExport, Loaded
<1>2. Head(exports) \in Refresh
  BY <1>1, QueueProperties
<1> DEFINE e == Head(exports)
<1> HIDE DEF e
<1>3. PICK c \in e.todo :
        LET name == boards[at].names[c]
            left == e.todo \ {c}
            got  == [e.got EXCEPT ![c] = name]
        IN  IF at \notin up \/ name = NoName
            THEN exports' = Tail(exports) /\ UNCHANGED replica
            ELSE IF left # {}
            THEN /\ exports' = Append(Tail(exports), [e EXCEPT !.todo = left, !.got = got])
                 /\ UNCHANGED replica
            ELSE /\ exports' = Tail(exports)
                 /\ replica' = [rev |-> e.status.rev, next |-> e.status.next, names |-> got]
  BY DEF AnswerExport, e
<1>4. c \in Ids /\ e \in Refresh
  BY <1>2 DEF Refresh, e
<1>5. CASE at \notin up \/ boards[at].names[c] = NoName
  BY <1>1, <1>2, <1>3, <1>5 DEF Drops, e
<1>6. CASE ~(at \notin up \/ boards[at].names[c] = NoName) /\ e.todo \ {c} # {}
  <2>1. exports' = Append(Tail(exports), Exported(e, c)) /\ replica' = replica
    BY <1>3, <1>6 DEF Exported
  <2>2. GoesOn(Exported(e, c))
    BY <1>1, <1>4, <1>6, <2>1, ExportedIs DEF GoesOn
  <2>3. QED
    BY <1>1, <1>2, <1>6, <2>2 DEF e
<1>7. CASE ~(at \notin up \/ boards[at].names[c] = NoName) /\ e.todo \ {c} = {}
  <2>1. Exported(e, c).got = [e.got EXCEPT ![c] = boards[at].names[c]]
    BY <1>4 DEF Exported, Refresh
  <2>2. exports' = Tail(exports) /\ replica' = Snapshot(Exported(e, c))
    BY <1>1, <1>3, <1>4, <1>7, <2>1, ExportedIs DEF Snapshot
  <2>3. Finishes(Exported(e, c))
    BY <1>1, <1>4, <1>7, <2>2, ExportedIs DEF Finishes
  <2>4. QED
    BY <1>1, <1>2, <1>7, <2>3 DEF e
<1>8. QED
  BY <1>5, <1>6, <1>7

LEMMA Polled ==
  ASSUME TypeOK, Poll
  PROVE  /\ at \in up /\ at \in Boards /\ Len(exports) < MaxRefreshes
         /\ boards[at] \in Registry /\ boards[at].id = Ours /\ ~boards[at].restoring
         /\ \/ /\ Listed(boards[at].names) = {}
               /\ replica' = CopyOf(boards[at]) /\ exports' = exports
            \/ /\ Listed(boards[at].names) # {}
               /\ exports' = Append(exports, Begun(boards[at])) /\ replica' = replica
BY DEF TypeOK, Poll, Refreshable, Begun

-----------------------------------------------------------------------------
(* Type correctness *)

LEMMA EventType ==
  ASSUME TypeOK, Event
  PROVE  events' \in 0..MaxEvents
BY ReplicaAssumption DEF TypeOK, Event

LEMMA WrittenType ==
  ASSUME TypeOK, NEW b \in Boards, NEW s \in Registry, Written(b, s)
  PROVE  TypeOK'
<1>1. /\ boards' \in [Boards -> Registry] /\ published' \subseteq Copy
  BY ItBecomes DEF Written, Changes
<1>2. flow' \in Flow
  BY DEF Written, Changes, TypeOK, Flow
<1>3. events' \in 0..MaxEvents
  BY EventType DEF Written, Changes
<1>4. QED
  BY <1>1, <1>2, <1>3 DEF Written, Changes, TypeOK, entryVars, copyVars

\* A registry a restore writes.
LEMMA RestoreWrites ==
  ASSUME TypeOK
  PROVE  /\ flow.board \in Boards /\ boards[flow.board] \in Registry /\ flow.copy \in Copy
         /\ RestoreBegun(boards[flow.board], Ours, flow.copy.next) \in Registry
         /\ \A c \in flow.todo :
              /\ c \in Ids /\ flow.copy.names[c] \in Names \cup {NoName}
              /\ Imported(boards[flow.board], c, flow.copy.names[c], Room[flow.board]) \in Registry
         /\ RestoreCommitted(boards[flow.board], flow.copy.rev) \in Registry
<1>1. /\ flow.board \in Boards /\ boards[flow.board] \in Registry /\ flow.copy \in Copy
      /\ flow.todo \subseteq Ids
  BY DEF TypeOK, Flow
<1>2. /\ flow.copy.next \in 1..(MaxId + 1) /\ flow.copy.rev \in Nat
      /\ \A c \in Ids : flow.copy.names[c] \in Names \cup {NoName}
  BY <1>1 DEF Copy, Listing
<1>3. RestoreBegun(boards[flow.board], Ours, flow.copy.next) \in Registry
  BY <1>1, <1>2, BegunIs, ReplicaAssumption
<1>4. \A c \in flow.todo :
        Imported(boards[flow.board], c, flow.copy.names[c], Room[flow.board]) \in Registry
  BY <1>1, <1>2, ImportedIs
<1>5. RestoreCommitted(boards[flow.board], flow.copy.rev) \in Registry
  BY <1>1, <1>2, CommittedIs
<1>6. QED
  BY <1>1, <1>2, <1>3, <1>4, <1>5

LEMMA TypeStep == TypeOK /\ [Next]_vars => TypeOK'
<1> SUFFICES ASSUME TypeOK, [Next]_vars PROVE TypeOK'
  OBVIOUS
<1>1. CASE Poll
  <2>1. replica' \in Copy /\ exports' \in Seq(Refresh) /\ Len(exports') <= MaxRefreshes
    <3>1. exports \in Seq(Refresh) /\ replica \in Copy /\ MaxRefreshes \in Nat
          /\ Len(exports) <= MaxRefreshes /\ Len(exports) \in Nat
      BY ReplicaAssumption, LenProperties DEF TypeOK
    <3>2. CASE replica' = CopyOf(boards[at]) /\ exports' = exports
      BY <1>1, <3>1, <3>2, Polled, CopyOfIsCopy
    <3>3. CASE exports' = Append(exports, Begun(boards[at])) /\ replica' = replica
      <4>1. Begun(boards[at]) \in Refresh
        BY <1>1, Polled, BegunIsRefresh
      <4>2. exports' \in Seq(Refresh) /\ Len(exports') = Len(exports) + 1
        BY <3>1, <3>3, <4>1, QueueGrows
      <4>3. QED
        BY <1>1, <3>1, <3>3, <4>2, Polled
    <3>4. QED
      BY <1>1, <3>2, <3>3, Polled
  <2>2. at # Nobody
    BY <1>1, Polled, ReplicaAssumption
  <2>3. QED
    BY <1>1, <2>1, <2>2 DEF Poll, TypeOK, boardVars, entryVars
<1>2. CASE AnswerExport
  <2>1. replica' \in Copy /\ exports' \in Seq(Refresh) /\ Len(exports') <= MaxRefreshes
    <3>1. exports \in Seq(Refresh) /\ exports # <<>> /\ replica \in Copy /\ MaxRefreshes \in Nat
          /\ Len(exports) <= MaxRefreshes /\ at \in Boards /\ Head(exports) \in Refresh
      BY <1>2, Answered, ReplicaAssumption DEF TypeOK
    <3>2. /\ Tail(exports) \in Seq(Refresh) /\ Len(exports) \in Nat
          /\ Len(Tail(exports)) = Len(exports) - 1
      BY <3>1, QueueProperties
    <3>3. CASE Drops
      BY <3>1, <3>2, <3>3 DEF Drops
    <3>4. ASSUME NEW e \in Refresh, GoesOn(e) \/ Finishes(e)
          PROVE  replica' \in Copy /\ exports' \in Seq(Refresh) /\ Len(exports') <= MaxRefreshes
      <4>1. CASE GoesOn(e)
        <5>1. exports' \in Seq(Refresh) /\ Len(exports') = Len(exports)
          BY <3>1, <4>1, QueueTurns DEF GoesOn
        <5>2. QED
          BY <3>1, <4>1, <5>1 DEF GoesOn
      <4>2. CASE Finishes(e)
        BY <3>1, <3>2, <4>2, SnapshotIsCopy DEF Finishes
      <4>3. QED
        BY <3>4, <4>1, <4>2
    <3>5. \A c \in Head(exports).todo : Exported(Head(exports), c) \in Refresh
      BY <3>1, ExportedIs DEF Refresh
    <3>6. QED
      BY <1>2, <3>3, <3>4, <3>5, Answered
  <2>2. at # Nobody
    BY <1>2 DEF AnswerExport, Loaded
  <2>3. QED
    BY <1>2, <2>1, <2>2 DEF AnswerExport, TypeOK, boardVars, entryVars
<1>3. CASE Save
  BY <1>3 DEF Save, Loaded, TypeOK, boardVars, entryVars
<1>4. CASE Load
  BY <1>4, ReplicaAssumption DEF Load, Loaded, TypeOK, boardVars
<1>5. ASSUME Unloaded PROVE /\ at' = Nobody /\ replica' = NoCopy /\ exports' = <<>>
                            /\ replica' \in Copy /\ exports' \in Seq(Refresh)
                            /\ Len(exports') <= MaxRefreshes
  BY <1>5, NoCopyIsCopy, ReplicaAssumption DEF Unloaded
<1>6. CASE Reload
  BY <1>5, <1>6 DEF Reload, TypeOK, boardVars
<1>7. CASE HomeAssistantRestarts
  <2>1. events' \in 0..MaxEvents
    BY <1>7, EventType DEF HomeAssistantRestarts
  <2>2. QED
    BY <1>5, <1>7, <2>1, NoFlowIsFlow DEF HomeAssistantRestarts, TypeOK, boardVars
<1>8. ASSUME NEW b \in Boards, Reconfigure(b) PROVE TypeOK'
  <2>1. flow' \in Flow
    BY <1>8, NoFlowIsFlow DEF Reconfigure, Flow
  <2>2. QED
    BY <1>8, <2>1 DEF Reconfigure, TypeOK, boardVars, copyVars
<1>9. CASE Confirm
  <2>1. events' \in 0..MaxEvents
    BY <1>9, EventType DEF Confirm
  <2>2. Listed(replica.names) \subseteq Ids
    BY DEF Listed
  <2>3. flow' \in Flow
    BY <1>9, <2>2, NoFlowIsFlow DEF Confirm, Flow, TypeOK
  <2>4. QED
    BY <1>9, <2>1, <2>3 DEF Confirm, TypeOK, boardVars, copyVars, entryVars
<1>10. CASE Dismiss \/ RestoreStops
  BY <1>10, NoFlowIsFlow DEF Dismiss, RestoreStops, TypeOK, boardVars, copyVars, entryVars
<1>11. CASE RestoreBegin
  <2>1. boards' \in [Boards -> Registry] /\ published' \subseteq Copy
    BY <1>11, ItBecomes, RestoreWrites DEF RestoreBegin
  <2>2. flow' \in Flow
    BY <1>11 DEF RestoreBegin, Flow, TypeOK
  <2>3. QED
    BY <1>11, <2>1, <2>2 DEF RestoreBegin, TypeOK, copyVars, entryVars
<1>12. CASE RestoreImport
  <2>1. PICK c \in flow.todo :
          /\ Becomes(flow.board,
                     Imported(boards[flow.board], c, flow.copy.names[c], Room[flow.board]))
          /\ flow' = [flow EXCEPT !.todo = @ \ {c}]
    BY <1>12 DEF RestoreImport
  <2>2. boards' \in [Boards -> Registry] /\ published' \subseteq Copy
    BY <2>1, ItBecomes, RestoreWrites
  <2>3. flow' \in Flow
    BY <2>1 DEF Flow, TypeOK
  <2>4. gone' \subseteq Ids
    BY <1>12, RestoreWrites DEF RestoreImport, TypeOK
  <2>5. QED
    BY <1>12, <2>2, <2>3, <2>4 DEF RestoreImport, TypeOK, copyVars, entryVars
<1>13. CASE RestoreCommit
  <2>1. boards' \in [Boards -> Registry] /\ published' \subseteq Copy
    BY <1>13, ItBecomes, RestoreWrites DEF RestoreCommit
  <2>2. flow' \in Flow
    BY <1>13 DEF RestoreCommit, Flow, TypeOK
  <2>3. QED
    BY <1>13, <2>1, <2>2 DEF RestoreCommit, TypeOK, copyVars, entryVars
<1>14. CASE RestoreVerify
  <2>1. flow' \in Flow /\ bound' \in Boards
    BY <1>14, NoFlowIsFlow DEF RestoreVerify, Flow, TypeOK
  <2>2. QED
    BY <1>14, <2>1 DEF RestoreVerify, TypeOK, copyVars, boardVars
<1>15. ASSUME NEW b \in Boards, OtherStep(b) PROVE TypeOK'
  BY <1>15, OthersWrite, WrittenType
<1>16. ASSUME NEW b \in Boards, GoesDown(b) PROVE TypeOK'
  BY <1>16, EventType DEF GoesDown, TypeOK, boardVars, copyVars, entryVars
<1>17. ASSUME NEW b \in Boards, ComesUp(b) PROVE TypeOK'
  BY <1>17 DEF ComesUp, TypeOK, boardVars, copyVars, entryVars
<1>18. CASE UNCHANGED vars
  BY <1>18 DEF vars, boardVars, copyVars, entryVars, TypeOK
<1>19. QED
  BY <1>1, <1>2, <1>3, <1>4, <1>6, <1>7, <1>8, <1>9, <1>10, <1>11, <1>12, <1>13, <1>14, <1>15,
     <1>16, <1>17, <1>18 DEF Next, OtherStep

LEMMA TypeInit == Init => TypeOK
<1> SUFFICES ASSUME Init PROVE TypeOK
  OBVIOUS
<1>1. PICK k \in 0..MaxId, names \in Listing :
        boards \in [Boards -> {[Minted(Ours) EXCEPT !.names = names, !.next = k + 1, !.rev = k + 4]}
                              \cup {Minted(i) : i \in Identities \ {Ours}}]
  BY DEF Init
<1>2. k \in Nat /\ k + 1 \in 1..(MaxId + 1)
  BY RegistryAssumption
<1>3. [Minted(Ours) EXCEPT !.names = names, !.next = k + 1, !.rev = k + 4] \in Registry
  <2> DEFINE m == Minted(Ours)
  <2>1. m \in Registry /\ k + 4 \in Nat
    BY <1>2, MintedIsRegistry, ReplicaAssumption
  <2> HIDE DEF m
  <2>2. [m EXCEPT !.names = names, !.next = k + 1, !.rev = k + 4] \in Registry
    BY <1>2, <2>1 DEF Registry
  <2>3. QED
    BY <2>2 DEF m
<1>4. boards \in [Boards -> Registry]
  BY <1>1, <1>3, MintedIsRegistry
<1>5. published \subseteq Copy
  BY <1>4, CopyOfIsCopy, ReplicaAssumption DEF Init
<1>6. QED
  BY <1>4, <1>5, NoCopyIsCopy, NoFlowIsFlow, ReplicaAssumption DEF Init, TypeOK

\* Whatever is asked, answered, lost or reset, in whatever order: no more refreshes than are
\* allowed are under way, and none, nor a replica, without a loaded entry (async_unload_entry
\* cancels the background tasks of the entry).
THEOREM TypeCorrect == Spec => []TypeOK
BY TypeInit, TypeStep, PTL DEF Spec

-----------------------------------------------------------------------------
(* A snapshot is complete *)

\* Every name listed was shown under its id; a copy lists what was shown at its revision.
SeenIn(P, names) == \A c \in Listed(names) : \E p \in P : p.names[c] = names[c]
ShownIn(P, rev, next, names) ==
  \E p \in P : p.rev = rev /\ p.next = next /\ Listed(p.names) = Listed(names)
WholeIn(P, copy) == copy = NoCopy \/ (ShownIn(P, copy.rev, copy.next, copy.names) /\ SeenIn(P, copy.names))

\* A board lists only ids it has given, and as Ours only what was shown once; it is open for a
\* restore of Ours only, and else what it lists is shown.
BoardWhole(P, r) ==
  /\ r.restoring => r.id = Ours
  /\ Listed(r.names) \subseteq 1..(r.next - 1)
  /\ r.id = Ours => SeenIn(P, r.names)
  /\ r.id = Ours /\ ~r.restoring => CopyOf(r) \in P
BoardsWhole == \A b \in Boards : BoardWhole(published, boards[b])

\* A refresh has left exactly what it listed and has not exported.
RefreshWhole(P, e) ==
  /\ e.todo # {} /\ e.todo \cup Listed(e.got) = Listed(e.status.names)
  /\ CopyOf(e.status) \in P /\ SeenIn(P, e.got)

\* While refreshes are under way the board is not open for a restore, and when it was reset it
\* has nothing they could export.
RefreshesWhole ==
  /\ \A i \in DOMAIN exports : RefreshWhole(published, exports[i])
  /\ exports # <<>> => ~boards[at].restoring
  /\ exports # <<>> /\ boards[at].id # Ours => Listed(boards[at].names) = {}

\* A restore imports what was shown once, on a board no refresh reads.
FlowWhole ==
  /\ flow.st \in {"offered", "begin"} =>
       boards[flow.board].id # Ours /\ (flow.board = at => exports = <<>>)
  /\ SeenIn(published, flow.copy.names) /\ flow.todo \subseteq Listed(flow.copy.names)

CopiesWhole == WholeIn(published, replica) /\ WholeIn(published, stored)

WholeInv == BoardsWhole /\ RefreshesWhole /\ FlowWhole /\ CopiesWhole

LEMMA WholeOfCopies == CopiesWhole => ReplicaIsWhole
BY DEF CopiesWhole, ReplicaIsWhole, WholeIn, ShownIn, SeenIn, Whole

\* What was shown stays shown.
LEMMA WholeGrows ==
  ASSUME NEW P, NEW Q, P \subseteq Q
  PROVE  /\ \A names : SeenIn(P, names) => SeenIn(Q, names)
         /\ \A copy : WholeIn(P, copy) => WholeIn(Q, copy)
         /\ \A r : BoardWhole(P, r) => BoardWhole(Q, r)
         /\ \A e : RefreshWhole(P, e) => RefreshWhole(Q, e)
BY DEF SeenIn, ShownIn, WholeIn, BoardWhole, RefreshWhole

LEMMA NothingSeen ==
  ASSUME NEW P PROVE SeenIn(P, Nothing) /\ WholeIn(P, NoCopy)
BY NothingListed DEF SeenIn, WholeIn

LEMMA CopiesSeen ==
  ASSUME NEW P, NEW copy, WholeIn(P, copy) PROVE SeenIn(P, copy.names)
BY NothingSeen, NoCopyIsCopy DEF WholeIn

LEMMA ShownIsWhole ==
  ASSUME NEW P, NEW r \in Registry, CopyOf(r) \in P
  PROVE  SeenIn(P, r.names) /\ WholeIn(P, CopyOf(r))
<1>1. CopyOf(r).rev = r.rev /\ CopyOf(r).next = r.next /\ CopyOf(r).names = r.names
  BY CopyOfIsCopy
<1>2. QED
  BY <1>1 DEF SeenIn, ShownIn, WholeIn

\* A board takes on a registry.
LEMMA BecomesWhole ==
  ASSUME TypeOK, BoardsWhole, NEW b \in Boards, NEW s \in Registry, Becomes(b, s),
         s.restoring => s.id = Ours /\ SeenIn(published, s.names),
         Listed(s.names) \subseteq 1..(s.next - 1)
  PROVE  BoardsWhole'
<1>1. /\ published \subseteq published'
      /\ \A o \in Boards : boards'[o] = IF o = b THEN s ELSE boards[o]
      /\ s.id = Ours /\ ~s.restoring => CopyOf(s) \in published'
  BY ItBecomes
<1>2. s.id = Ours => SeenIn(published', s.names)
  BY <1>1, ShownIsWhole, WholeGrows
<1>3. BoardWhole(published', s)
  BY <1>1, <1>2 DEF BoardWhole
<1>4. \A o \in Boards : BoardWhole(published', boards[o])
  BY <1>1, WholeGrows DEF BoardsWhole
<1>5. QED
  BY <1>1, <1>3, <1>4 DEF BoardsWhole

LEMMA WrittenBoards ==
  ASSUME TypeOK, BoardsWhole, NEW b \in Boards, NEW s \in Registry, Written(b, s)
  PROVE  BoardsWhole'
<1>1. boards[b] \in Registry /\ BoardWhole(published, boards[b])
  BY DEF TypeOK, BoardsWhole
<1>2. CASE Edits(boards[b], s)
  <2>1. Listed(s.names) \subseteq 1..(s.next - 1)
    BY <1>1, <1>2 DEF Edits, BoardWhole
  <2>2. s.restoring => s.id = Ours /\ SeenIn(published, s.names)
    <3> SUFFICES ASSUME s.restoring PROVE s.id = Ours /\ SeenIn(published, s.names)
      OBVIOUS
    <3>1. s.id = Ours /\ SeenIn(published, boards[b].names)
      BY <1>1, <1>2 DEF Edits, BoardWhole
    <3>2. \A c \in Ids : s.names[c] \in {NoName, boards[b].names[c]}
      BY <1>2 DEF Edits
    <3>3. \A c \in Listed(s.names) : c \in Listed(boards[b].names) /\ s.names[c] = boards[b].names[c]
      BY <3>2 DEF Listed
    <3>4. QED
      BY <3>1, <3>3 DEF SeenIn
  <2>3. QED
    BY <2>1, <2>2, BecomesWhole DEF Written, Changes
<1>3. CASE s.id # Ours /\ ~s.restoring /\ s.names = Nothing
  BY <1>3, NothingListed, BecomesWhole DEF Written, Changes
<1>4. QED
  BY <1>2, <1>3 DEF Written

LEMMA BecomesRefreshes ==
  ASSUME TypeOK, RefreshesWhole, NEW b \in Boards, NEW s \in Registry, Becomes(b, s),
         exports' = exports, at' = at,
         b = at /\ exports # <<>> => ~s.restoring /\ (s.id # Ours => Listed(s.names) = {})
  PROVE  RefreshesWhole'
<1>1. /\ published \subseteq published'
      /\ \A o \in Boards : boards'[o] = IF o = b THEN s ELSE boards[o]
  BY ItBecomes
<1>2. \A i \in DOMAIN exports' : RefreshWhole(published', exports'[i])
  BY <1>1, WholeGrows DEF RefreshesWhole
<1>3. exports # <<>> => at \in Boards
  BY DEF TypeOK
<1>4. QED
  BY <1>1, <1>2, <1>3 DEF RefreshesWhole

LEMMA WrittenWhole ==
  ASSUME TypeOK, WholeInv, NEW b \in Boards, NEW s \in Registry, Written(b, s)
  PROVE  WholeInv'
<1>1. BoardsWhole'
  BY WrittenBoards DEF WholeInv
<1>2. /\ published \subseteq published'
      /\ \A o \in Boards : boards'[o] = IF o = b THEN s ELSE boards[o]
  BY ItBecomes DEF Written, Changes
<1>3. UNCHANGED <<at, exports, replica, stored>>
  BY DEF Written, Changes, entryVars, copyVars
<1>4. RefreshesWhole'
  <2>1. b = at /\ exports # <<>> => ~s.restoring /\ (s.id # Ours => Listed(s.names) = {})
    <3> SUFFICES ASSUME b = at, exports # <<>>
                 PROVE  ~s.restoring /\ (s.id # Ours => Listed(s.names) = {})
      OBVIOUS
    <3>1. CASE Edits(boards[b], s)
      <4>1. ~boards[b].restoring /\ (s.id # Ours => Listed(boards[b].names) = {})
        BY <3>1 DEF WholeInv, RefreshesWhole, Edits
      <4>2. boards[b].id # Ours =>
              \A c \in Ids : s.names[c] # NoName => boards[b].names[c] # NoName
        BY DEF Written
      <4>3. s.id # Ours => Listed(s.names) = {}
        BY <3>1, <4>1, <4>2 DEF Listed, Edits
      <4>4. QED
        BY <3>1, <4>1, <4>3 DEF Edits
    <3>2. CASE s.id # Ours /\ ~s.restoring /\ s.names = Nothing
      BY <3>2, NothingListed
    <3>3. QED
      BY <3>1, <3>2 DEF Written
  <2>2. QED
    BY <1>3, <2>1, BecomesRefreshes DEF WholeInv, Written, Changes
<1>5. FlowWhole'
  <2>1. /\ flow'.st = flow.st /\ flow'.board = flow.board /\ flow'.copy = flow.copy
        /\ flow'.todo = flow.todo /\ flow.board \in Boards
    BY DEF Written, Changes, TypeOK, Flow
  <2>2. boards[flow.board].id # Ours => boards'[flow.board].id # Ours
    BY <1>2, <2>1 DEF Written, Edits
  <2>3. SeenIn(published', flow.copy.names)
    BY <1>2, WholeGrows DEF WholeInv, FlowWhole
  <2>4. QED
    BY <1>3, <2>1, <2>2, <2>3 DEF WholeInv, FlowWhole
<1>6. CopiesWhole'
  BY <1>2, <1>3, WholeGrows DEF WholeInv, CopiesWhole
<1>7. QED
  BY <1>1, <1>4, <1>5, <1>6 DEF WholeInv

\* A call of the restore turns the registry of its board into s.
LEMMA RestoredWhole ==
  ASSUME TypeOK, WholeInv, NEW s \in Registry, Becomes(flow.board, s),
         UNCHANGED <<at, exports, replica, stored>>,
         flow'.st \notin {"offered", "begin"}, flow'.copy = flow.copy, flow'.todo \subseteq flow.todo,
         \/ s = boards[flow.board]
         \/ /\ s.restoring => s.id = Ours /\ SeenIn(published, s.names)
            /\ Listed(s.names) \subseteq 1..(s.next - 1)
            /\ flow.st = "begin" \/ boards[flow.board].restoring
  PROVE  WholeInv'
<1>0. /\ flow.board \in Boards /\ boards[flow.board] \in Registry
      /\ BoardWhole(published, boards[flow.board])
  BY RestoreWrites DEF WholeInv, BoardsWhole
<1>1. BoardsWhole'
  <2>1. s = boards[flow.board] =>
          /\ s.restoring => s.id = Ours /\ SeenIn(published, s.names)
          /\ Listed(s.names) \subseteq 1..(s.next - 1)
    BY <1>0 DEF BoardWhole
  <2>2. QED
    BY <1>0, <2>1, BecomesWhole DEF WholeInv
<1>2. published \subseteq published'
  BY <1>0, ItBecomes
<1>3. RefreshesWhole'
  <2>1. flow.board = at /\ exports # <<>> =>
          ~s.restoring /\ (s.id # Ours => Listed(s.names) = {})
    BY <1>0 DEF WholeInv, RefreshesWhole, FlowWhole
  <2>2. QED
    BY <1>0, <2>1, BecomesRefreshes DEF WholeInv
<1>4. FlowWhole'
  BY <1>2, WholeGrows DEF WholeInv, FlowWhole
<1>5. CopiesWhole'
  BY <1>2, WholeGrows DEF WholeInv, CopiesWhole
<1>6. QED
  BY <1>1, <1>3, <1>4, <1>5 DEF WholeInv

LEMMA RestoreWhole ==
  ASSUME TypeOK, WholeInv, RestoreBegin \/ RestoreImport \/ RestoreCommit
  PROVE  WholeInv'
<1>0. /\ flow.board \in Boards /\ boards[flow.board] \in Registry
      /\ BoardWhole(published, boards[flow.board])
  BY RestoreWrites DEF WholeInv, BoardsWhole
<1>1. flow.copy.rev \in Nat /\ flow.copy.next \in 1..(MaxId + 1) /\ Ours \in Identities
  BY ReplicaAssumption DEF TypeOK, Flow, Copy
<1>2. CASE RestoreBegin
  <2> DEFINE s == RestoreBegun(boards[flow.board], Ours, flow.copy.next)
  <2>1. /\ Becomes(flow.board, s) /\ UNCHANGED <<at, exports, replica, stored>>
        /\ flow'.st \notin {"offered", "begin"} /\ flow'.copy = flow.copy /\ flow'.todo = flow.todo
        /\ flow.st = "begin"
    BY <1>2 DEF RestoreBegin, entryVars, copyVars, TypeOK, Flow
  <2>2. s = boards[flow.board] \/ (s.id = Ours /\ Listed(s.names) = {})
    BY <1>0, <1>1, BegunIs DEF Listed
  <2>3. s \in Registry
    BY RestoreWrites
  <2> HIDE DEF s
  <2>4. QED
    BY <2>1, <2>2, <2>3, RestoredWhole DEF SeenIn
<1>3. CASE RestoreImport
  <2>1. PICK c \in flow.todo :
          /\ Becomes(flow.board,
                     Imported(boards[flow.board], c, flow.copy.names[c], Room[flow.board]))
          /\ flow' = [flow EXCEPT !.todo = @ \ {c}]
    BY <1>3 DEF RestoreImport
  <2> DEFINE r == boards[flow.board]
             s == Imported(r, c, flow.copy.names[c], Room[flow.board])
  <2>2. c \in Ids /\ flow.copy.names[c] \in Names \cup {NoName} /\ s \in Registry
    BY RestoreWrites
  <2>3. /\ Becomes(flow.board, s) /\ UNCHANGED <<at, exports, replica, stored>>
        /\ flow'.st \notin {"offered", "begin"} /\ flow'.copy = flow.copy
        /\ flow'.todo \subseteq flow.todo
    BY <1>3, <2>1 DEF RestoreImport, entryVars, copyVars, TypeOK, Flow
  <2>4. \/ s = r
        \/ /\ r.restoring /\ c < r.next /\ s.id = r.id /\ s.next = r.next
           /\ \A d \in Ids : s.names[d] = IF d = c THEN flow.copy.names[c] ELSE r.names[d]
    BY <1>0, <2>2, ImportedIs
  <2> HIDE DEF s
  <2>5. CASE s # r
    <3>1. s.id = Ours /\ SeenIn(published, r.names) /\ Listed(r.names) \subseteq 1..(r.next - 1)
      BY <1>0, <2>4, <2>5 DEF BoardWhole
    <3>2. SeenIn(published, flow.copy.names) /\ c \in Listed(flow.copy.names)
      BY DEF WholeInv, FlowWhole
    <3>3. ASSUME NEW d \in Listed(s.names)
          PROVE  /\ \E p \in published : p.names[d] = s.names[d]
                 /\ d \in 1..(s.next - 1)
      <4>1. CASE d = c
        <5>1. \E p \in published : p.names[d] = s.names[d]
          BY <2>2, <2>4, <2>5, <3>2, <4>1 DEF SeenIn
        <5>2. c \in Nat /\ c >= 1 /\ r.next \in Nat
          BY <1>0, <2>2, RegistryAssumption DEF Ids, Registry
        <5>3. QED
          BY <2>4, <2>5, <4>1, <5>1, <5>2
      <4>2. CASE d # c
        <5>1. d \in Listed(r.names) /\ s.names[d] = r.names[d]
          BY <2>4, <2>5, <4>2 DEF Listed
        <5>2. QED
          BY <2>4, <2>5, <3>1, <5>1 DEF SeenIn
      <4>3. QED
        BY <4>1, <4>2
    <3>4. SeenIn(published, s.names) /\ Listed(s.names) \subseteq 1..(s.next - 1)
      BY <3>3 DEF SeenIn
    <3>5. QED
      BY <2>2, <2>3, <2>4, <2>5, <3>1, <3>4, RestoredWhole
  <2>6. CASE s = r
    BY <2>2, <2>3, <2>6, RestoredWhole
  <2>7. QED
    BY <2>5, <2>6
<1>4. CASE RestoreCommit
  <2> DEFINE r == boards[flow.board]
             s == RestoreCommitted(r, flow.copy.rev)
  <2>1. /\ Becomes(flow.board, s) /\ UNCHANGED <<at, exports, replica, stored>>
        /\ flow'.st \notin {"offered", "begin"} /\ flow'.copy = flow.copy /\ flow'.todo = flow.todo
    BY <1>4 DEF RestoreCommit, entryVars, copyVars, TypeOK, Flow
  <2>2. \/ s = r
        \/ r.restoring /\ s.next = r.next /\ s.names = r.names /\ ~s.restoring
    BY <1>0, <1>1, CommittedIs
  <2>3. s \in Registry /\ Listed(r.names) \subseteq 1..(r.next - 1)
    BY <1>0, RestoreWrites DEF BoardWhole
  <2> HIDE DEF s
  <2>4. QED
    BY <2>1, <2>2, <2>3, RestoredWhole
<1>5. QED
  BY <1>2, <1>3, <1>4

\* What the refreshes bring is complete.
LEMMA AnswerWhole ==
  ASSUME TypeOK, WholeInv, AnswerExport
  PROVE  RefreshesWhole' /\ WholeIn(published, replica')
<1>1. /\ exports \in Seq(Refresh) /\ exports # <<>> /\ at \in Boards /\ Head(exports) \in Refresh
      /\ published' = published /\ boards' = boards /\ at' = at
  BY Answered DEF TypeOK, AnswerExport, boardVars, entryVars
<1>2. /\ ~boards[at].restoring /\ (boards[at].id # Ours => Listed(boards[at].names) = {})
      /\ \A i \in DOMAIN exports : RefreshWhole(published, exports[i])
      /\ WholeIn(published, replica)
  BY <1>1 DEF WholeInv, RefreshesWhole, CopiesWhole
<1>3. RefreshWhole(published, Head(exports))
  <2>1. Head(exports) = exports[1] /\ 1 \in DOMAIN exports
    BY <1>1, QueueProperties
  <2>2. QED
    BY <1>2, <2>1
<1>4. ASSUME exports' = Tail(exports) PROVE RefreshesWhole'
  <2>1. \A i \in DOMAIN Tail(exports) : i + 1 \in DOMAIN exports /\ Tail(exports)[i] = exports[i + 1]
    BY <1>1, QueueMovesUp
  <2>2. \A i \in DOMAIN exports' : RefreshWhole(published', exports'[i])
    BY <1>1, <1>2, <1>4, <2>1
  <2>3. QED
    BY <1>1, <1>2, <2>2 DEF RefreshesWhole
<1>5. CASE Drops
  <2>1. RefreshesWhole'
    BY <1>4, <1>5 DEF Drops, RefreshesWhole
  <2>2. QED
    BY <1>2, <1>5, <2>1 DEF Drops
<1>6. ASSUME NEW c \in Head(exports).todo, boards[at].names[c] # NoName,
             GoesOn(Exported(Head(exports), c)) \/ Finishes(Exported(Head(exports), c))
      PROVE  RefreshesWhole' /\ WholeIn(published, replica')
  <2> DEFINE e == Head(exports)
             f == Exported(e, c)
  <2>1. c \in Ids /\ e.todo \subseteq Ids /\ e.status \in Registry
    BY <1>1 DEF Refresh
  <2>2. /\ f \in Refresh /\ f.status = e.status /\ f.todo = e.todo \ {c}
        /\ \A d \in Ids : f.got[d] = IF d = c THEN boards[at].names[c] ELSE e.got[d]
    BY <1>1, <2>1, ExportedIs
  <2> HIDE DEF e, f
  <2>3. RefreshWhole(published, e)
    BY <1>3 DEF e
  <2>4. c \in e.todo
    BY <1>6 DEF e
  <2>5. Listed(f.got) = Listed(e.got) \cup {c}
    BY <1>6, <2>1, <2>2 DEF Listed
  <2>6. f.todo \cup Listed(f.got) = Listed(e.status.names)
    BY <2>2, <2>3, <2>4, <2>5 DEF RefreshWhole
  <2>7. SeenIn(published, f.got)
    <3>1. \E p \in published : p.names[c] = boards[at].names[c]
      <4>1. c \in Listed(boards[at].names)
        BY <1>6, <2>1 DEF Listed
      <4>2. SeenIn(published, boards[at].names)
        BY <1>1, <1>2, <4>1 DEF WholeInv, BoardsWhole, BoardWhole
      <4>3. QED
        BY <4>1, <4>2 DEF SeenIn
    <3>2. SeenIn(published, e.got)
      BY <2>3 DEF RefreshWhole
    <3>3. ASSUME NEW d \in Listed(f.got) PROVE \E p \in published : p.names[d] = f.got[d]
      <4>1. CASE d = c
        BY <2>1, <2>2, <3>1, <4>1
      <4>2. CASE d # c
        BY <2>2, <2>5, <3>2, <3>3, <4>2 DEF SeenIn, Listed
      <4>3. QED
        BY <4>1, <4>2
    <3>4. QED
      BY <3>3 DEF SeenIn
  <2>8. CopyOf(f.status) \in published
    BY <2>2, <2>3 DEF RefreshWhole
  <2>9. CASE GoesOn(f)
    <3>1. RefreshWhole(published, f)
      BY <2>2, <2>6, <2>7, <2>8, <2>9 DEF RefreshWhole, GoesOn
    <3>2. \A i \in DOMAIN exports' :
            (i + 1 \in DOMAIN exports /\ exports'[i] = exports[i + 1]) \/ exports'[i] = f
      BY <1>1, <2>2, <2>9, QueueTurns DEF GoesOn
    <3>3. \A i \in DOMAIN exports' : RefreshWhole(published', exports'[i])
      BY <1>1, <1>2, <3>1, <3>2
    <3>4. RefreshesWhole'
      BY <1>1, <1>2, <3>3 DEF RefreshesWhole
    <3>5. QED
      BY <1>2, <2>9, <3>4 DEF GoesOn
  <2>10. CASE Finishes(f)
    <3>1. RefreshesWhole'
      BY <1>4, <2>10 DEF Finishes, RefreshesWhole
    <3>2. /\ replica'.rev = f.status.rev /\ replica'.next = f.status.next /\ replica'.names = f.got
          /\ f.todo = {}
      BY <2>2, <2>10, SnapshotIsCopy DEF Finishes
    <3>3. /\ CopyOf(f.status).rev = f.status.rev /\ CopyOf(f.status).next = f.status.next
          /\ Listed(CopyOf(f.status).names) = Listed(f.got)
      BY <2>1, <2>2, <2>6, <3>2, CopyOfIsCopy
    <3>4. ShownIn(published, replica'.rev, replica'.next, replica'.names)
      BY <2>8, <3>2, <3>3 DEF ShownIn
    <3>5. SeenIn(published, replica'.names)
      BY <2>7, <3>2
    <3>6. QED
      BY <3>1, <3>4, <3>5 DEF WholeIn
  <2>11. QED
    BY <1>6, <2>9, <2>10 DEF e, f
<1>7. QED
  BY <1>5, <1>6, Answered

LEMMA PollWhole ==
  ASSUME TypeOK, WholeInv, Poll
  PROVE  RefreshesWhole' /\ WholeIn(published, replica')
<1>1. /\ exports \in Seq(Refresh) /\ at \in Boards /\ boards[at] \in Registry
      /\ boards[at].id = Ours /\ ~boards[at].restoring
      /\ published' = published /\ boards' = boards /\ at' = at
  BY Polled DEF TypeOK, Poll, boardVars, entryVars
<1>2. CopyOf(boards[at]) \in published
  BY <1>1 DEF WholeInv, BoardsWhole, BoardWhole
<1>3. /\ \A i \in DOMAIN exports : RefreshWhole(published, exports[i])
      /\ WholeIn(published, replica)
  BY DEF WholeInv, RefreshesWhole, CopiesWhole
<1>4. CASE replica' = CopyOf(boards[at]) /\ exports' = exports
  <2>1. WholeIn(published, replica')
    BY <1>1, <1>2, <1>4, ShownIsWhole
  <2>2. QED
    BY <1>1, <1>4, <2>1 DEF WholeInv, RefreshesWhole
<1>5. CASE /\ Listed(boards[at].names) # {}
           /\ exports' = Append(exports, Begun(boards[at])) /\ replica' = replica
  <2> DEFINE e == Begun(boards[at])
  <2>1. /\ e \in Refresh /\ e.status = boards[at] /\ e.todo = Listed(boards[at].names)
        /\ e.got = Nothing
    BY <1>1, BegunIsRefresh
  <2> HIDE DEF e
  <2>2. RefreshWhole(published, e)
    BY <1>2, <1>5, <2>1, NothingSeen, NothingListed DEF RefreshWhole
  <2>3. \A i \in DOMAIN exports' : (i \in DOMAIN exports /\ exports'[i] = exports[i]) \/ exports'[i] = e
    BY <1>1, <1>5, <2>1, QueueGrows DEF e
  <2>4. \A i \in DOMAIN exports' : RefreshWhole(published', exports'[i])
    BY <1>1, <1>3, <2>2, <2>3
  <2>5. QED
    BY <1>1, <1>3, <1>5, <2>4 DEF RefreshesWhole
<1>6. QED
  BY <1>4, <1>5, Polled

LEMMA WholeStep == TypeOK /\ WholeInv /\ [Next]_vars => WholeInv'
<1> SUFFICES ASSUME TypeOK, WholeInv, [Next]_vars PROVE WholeInv'
  OBVIOUS
<1>0. BoardsWhole /\ RefreshesWhole /\ FlowWhole /\ CopiesWhole
  BY DEF WholeInv
<1>1. CASE Poll
  <2>1. UNCHANGED <<boards, published, at, stored, flow>>
    BY <1>1 DEF Poll, boardVars, entryVars
  <2>2. RefreshesWhole' /\ CopiesWhole'
    BY <1>0, <1>1, <2>1, PollWhole DEF CopiesWhole
  <2>3. boards[at].id = Ours
    BY <1>1, Polled
  <2>4. QED
    BY <1>0, <2>1, <2>2, <2>3 DEF WholeInv, BoardsWhole, FlowWhole
<1>2. CASE AnswerExport
  <2>1. UNCHANGED <<boards, published, at, stored, flow>> /\ exports # <<>>
    BY <1>2 DEF AnswerExport, boardVars, entryVars
  <2>2. RefreshesWhole' /\ CopiesWhole'
    BY <1>0, <1>2, <2>1, AnswerWhole DEF CopiesWhole
  <2>3. QED
    BY <1>0, <2>1, <2>2 DEF WholeInv, BoardsWhole, FlowWhole
<1>3. CASE Save
  BY <1>0, <1>3
  DEF Save, boardVars, entryVars, WholeInv, BoardsWhole, RefreshesWhole, FlowWhole, CopiesWhole
<1>4. CASE Load
  <2>1. exports = <<>> /\ exports' = exports
    BY <1>4 DEF Load, Loaded, TypeOK
  <2>2. QED
    BY <1>0, <1>4, <2>1
    DEF Load, boardVars, WholeInv, BoardsWhole, RefreshesWhole, FlowWhole, CopiesWhole
<1>5. CASE Reload \/ HomeAssistantRestarts
  <2>1. /\ exports' = <<>> /\ replica' = NoCopy /\ UNCHANGED <<boards, published, stored>>
        /\ flow' \in {flow, NoFlow}
    BY <1>5 DEF Reload, HomeAssistantRestarts, Unloaded, boardVars
  <2>2. RefreshesWhole'
    <3>1. DOMAIN exports' = {}
      BY <2>1
    <3>2. QED
      BY <2>1, <3>1 DEF RefreshesWhole
  <2>3. FlowWhole'
    BY <1>0, <2>1, NoFlowIsFlow, NoCopyIsCopy, NothingSeen DEF FlowWhole
  <2>4. QED
    BY <1>0, <2>1, <2>2, <2>3, NothingSeen DEF WholeInv, BoardsWhole, CopiesWhole
<1>6. ASSUME UNCHANGED <<boards, published, at, exports, replica, stored>>, FlowWhole'
      PROVE  WholeInv'
  BY <1>0, <1>6 DEF WholeInv, BoardsWhole, RefreshesWhole, CopiesWhole
<1>7. ASSUME flow' = NoFlow, published' = published PROVE FlowWhole'
  BY <1>7, NoFlowIsFlow, NoCopyIsCopy, NothingSeen DEF FlowWhole
<1>8. ASSUME NEW b \in Boards, Reconfigure(b) PROVE WholeInv'
  <2>1. UNCHANGED <<boards, published, at, exports, replica, stored>> /\ exports = <<>>
    BY <1>8 DEF Reconfigure, boardVars, copyVars
  <2>2. CASE flow' = NoFlow
    BY <1>6, <1>7, <2>1, <2>2
  <2>3. CASE boards[b].id # Ours /\ flow' = [NoFlow EXCEPT !.st = "offered", !.board = b]
    <3>1. flow'.board = b /\ flow'.copy = NoCopy /\ flow'.todo = {}
      BY <2>3 DEF NoFlow
    <3>2. FlowWhole'
      BY <2>1, <2>3, <3>1, NoCopyIsCopy, NothingSeen DEF FlowWhole
    <3>3. QED
      BY <1>6, <2>1, <3>2
  <2>4. QED
    BY <1>8, <2>2, <2>3 DEF Reconfigure
<1>9. CASE Confirm
  <2>1. UNCHANGED <<boards, published, at, exports, replica, stored>> /\ flow.st = "offered"
    BY <1>9 DEF Confirm, boardVars, copyVars, entryVars
  <2>2. CASE flow' = NoFlow
    BY <1>6, <1>7, <2>1, <2>2
  <2>3. CASE flow' = [flow EXCEPT !.st = "begin", !.copy = replica, !.todo = Listed(replica.names)]
    <3>1. flow'.board = flow.board /\ flow'.copy = replica /\ flow'.todo = Listed(replica.names)
      BY <2>3 DEF TypeOK, Flow
    <3>2. SeenIn(published, replica.names)
      BY <1>0, CopiesSeen DEF CopiesWhole
    <3>3. FlowWhole'
      BY <1>0, <2>1, <3>1, <3>2 DEF FlowWhole
    <3>4. QED
      BY <1>6, <2>1, <3>3
  <2>4. QED
    BY <1>9, <2>2, <2>3 DEF Confirm
<1>10. CASE Dismiss \/ RestoreStops
  <2>1. UNCHANGED <<boards, published, at, exports, replica, stored>> /\ flow' = NoFlow
    BY <1>10 DEF Dismiss, RestoreStops, boardVars, copyVars, entryVars
  <2>2. QED
    BY <1>6, <1>7, <2>1
<1>11. CASE RestoreBegin \/ RestoreImport \/ RestoreCommit
  BY <1>11, RestoreWhole
<1>12. CASE RestoreVerify
  <2>1. UNCHANGED <<boards, published, at, exports, replica, stored>>
    BY <1>12 DEF RestoreVerify, boardVars, copyVars
  <2>2. CASE flow' = NoFlow
    BY <1>6, <1>7, <2>1, <2>2
  <2>3. CASE flow' = [flow EXCEPT !.st = "restored"]
    <3>1. flow'.st = "restored" /\ flow'.copy = flow.copy /\ flow'.todo = flow.todo
      BY <2>3 DEF TypeOK, Flow
    <3>2. FlowWhole'
      BY <1>0, <2>1, <3>1 DEF FlowWhole
    <3>3. QED
      BY <1>6, <2>1, <3>2
  <2>4. QED
    BY <1>12, <2>2, <2>3 DEF RestoreVerify
<1>13. ASSUME NEW b \in Boards, OtherStep(b) PROVE WholeInv'
  BY <1>13, OthersWrite, WrittenWhole
<1>14. ASSUME NEW b \in Boards, GoesDown(b) \/ ComesUp(b) PROVE WholeInv'
  <2>1. UNCHANGED <<boards, published, at, exports, replica, stored, flow>>
    BY <1>14 DEF GoesDown, ComesUp, boardVars, copyVars, entryVars
  <2>2. FlowWhole'
    BY <1>0, <2>1 DEF FlowWhole
  <2>3. QED
    BY <1>6, <2>1, <2>2
<1>15. CASE UNCHANGED vars
  <2>1. UNCHANGED <<boards, published, at, exports, replica, stored, flow>>
    BY <1>15 DEF vars, boardVars, copyVars, entryVars
  <2>2. FlowWhole'
    BY <1>0, <2>1 DEF FlowWhole
  <2>3. QED
    BY <1>6, <2>1, <2>2
<1>16. QED
  BY <1>1, <1>2, <1>3, <1>4, <1>5, <1>8, <1>9, <1>10, <1>11, <1>12, <1>13, <1>14, <1>15
  DEF Next, OtherStep

LEMMA WholeInit == Init => WholeInv
<1> SUFFICES ASSUME Init PROVE WholeInv
  OBVIOUS
<1>1. PICK k \in 0..MaxId, names \in Listing :
        /\ Listed(names) = 1..k
        /\ boards \in [Boards -> {[Minted(Ours) EXCEPT !.names = names, !.next = k + 1, !.rev = k + 4]}
                                 \cup {Minted(i) : i \in Identities \ {Ours}}]
        /\ \A b \in Boards : boards[b].id = Ours <=> b = First
  BY DEF Init
<1> DEFINE m == Minted(Ours)
           r == [m EXCEPT !.names = names, !.next = k + 1, !.rev = k + 4]
<1>2. m \in Registry /\ m.id = Ours /\ ~m.restoring /\ k \in Nat
  BY RegistryAssumption, MintedIsRegistry, ReplicaAssumption
<1> HIDE DEF m
<1>3. r.id = Ours /\ ~r.restoring /\ r.names = names /\ r.next = k + 1
  BY <1>2 DEF Registry
<1>4. \A b \in Boards : boards[b] = r \/ \E i \in Identities \ {Ours} : boards[b] = Minted(i)
  BY <1>1 DEF m
<1> HIDE DEF r
<1>5. boards[First] = r /\ First \in Boards /\ published = {CopyOf(r)}
  BY <1>1, <1>4, MintedIsRegistry, ReplicaAssumption DEF Init
<1>6. boards[First] \in Registry
  BY TypeInit, ReplicaAssumption DEF TypeOK
<1>7. BoardWhole(published, r)
  <2>1. SeenIn(published, r.names)
    BY <1>5, <1>6, ShownIsWhole
  <2>2. Listed(r.names) \subseteq 1..(r.next - 1)
    BY <1>1, <1>2, <1>3
  <2>3. QED
    BY <1>3, <1>5, <2>1, <2>2 DEF BoardWhole
<1>8. \A i \in Identities \ {Ours} : BoardWhole(published, Minted(i))
  BY MintedIsRegistry, NothingListed DEF BoardWhole
<1>9. BoardsWhole
  BY <1>4, <1>7, <1>8 DEF BoardsWhole
<1>10. DOMAIN exports = {} /\ exports = <<>>
  BY DEF Init
<1>11. RefreshesWhole
  BY <1>10 DEF RefreshesWhole
<1>12. FlowWhole
  BY NoFlowIsFlow, NoCopyIsCopy, NothingSeen DEF Init, FlowWhole
<1>13. CopiesWhole
  BY NothingSeen DEF Init, CopiesWhole
<1>14. QED
  BY <1>9, <1>11, <1>12, <1>13 DEF WholeInv

LEMMA WholeAlways == Spec => [](TypeOK /\ WholeInv)
BY TypeInit, TypeStep, WholeInit, WholeStep, PTL DEF Spec

\* The replica, and what is stored of it, is always complete or nothing: it lists what the
\* bridge listed at the revision it names, every command as the bridge showed it, however
\* refreshes overlap each other, edits, resets, reloads and restores (async_refresh, which is
\* abandoned whole when one export fails).
THEOREM ReplicaWhole == Spec => []ReplicaIsWhole
<1>1. WholeInv => ReplicaIsWhole
  BY WholeOfCopies DEF WholeInv
<1>2. QED
  BY <1>1, WholeAlways, PTL

-----------------------------------------------------------------------------
(* A restore that reports success is complete *)

\* As long as nobody else writes to the board of a restore, it holds nothing but what was
\* imported, under the counter of the snapshot.
Restored(r, copy) == r.next = copy.next /\ \A c \in Ids : r.names[c] \in {NoName, copy.names[c]}
AloneInv ==
  flow.st \in {"import", "verify"} /\ flow.alone /\ boards[flow.board].id = Ours =>
    Restored(boards[flow.board], flow.copy)

LEMMA AloneStep == TypeOK /\ WholeInv /\ AloneInv /\ [Next]_vars => AloneInv'
<1> SUFFICES ASSUME TypeOK, WholeInv, AloneInv, [Next]_vars PROVE AloneInv'
  OBVIOUS
<1>0. /\ flow.board \in Boards /\ boards[flow.board] \in Registry /\ flow \in Flow
      /\ flow.copy.rev \in Nat /\ flow.copy.next \in 1..(MaxId + 1) /\ Ours \in Identities
  BY ReplicaAssumption DEF TypeOK, Flow, Copy
<1>1. ASSUME boards' = boards, flow' = flow PROVE AloneInv'
  BY <1>1 DEF AloneInv
<1>2. ASSUME flow'.st \notin {"import", "verify"} PROVE AloneInv'
  BY <1>2 DEF AloneInv
<1>3. CASE RestoreBegin
  <2> DEFINE s == RestoreBegun(boards[flow.board], Ours, flow.copy.next)
  <2>1. /\ s \in Registry /\ Becomes(flow.board, s) /\ flow.st = "begin"
        /\ flow'.board = flow.board /\ flow'.copy = flow.copy
    BY <1>0, <1>3, RestoreWrites DEF RestoreBegin, Flow
  <2>2. \/ s = boards[flow.board]
        \/ s.next = flow.copy.next /\ \A d \in Ids : s.names[d] = NoName
    BY <1>0, BegunIs
  <2> HIDE DEF s
  <2>3. boards[flow.board].id # Ours
    BY <2>1 DEF WholeInv, FlowWhole
  <2>4. boards'[flow.board] = s
    BY <1>0, <2>1, ItBecomes
  <2>5. QED
    BY <2>1, <2>2, <2>3, <2>4 DEF AloneInv, Restored
<1>4. CASE RestoreImport
  <2>1. PICK c \in flow.todo :
          /\ Becomes(flow.board,
                     Imported(boards[flow.board], c, flow.copy.names[c], Room[flow.board]))
          /\ flow' = [flow EXCEPT !.todo = @ \ {c}]
    BY <1>4 DEF RestoreImport
  <2> DEFINE r == boards[flow.board]
             s == Imported(r, c, flow.copy.names[c], Room[flow.board])
  <2>2. c \in Ids /\ flow.copy.names[c] \in Names \cup {NoName} /\ s \in Registry
    BY RestoreWrites
  <2>3. /\ Becomes(flow.board, s) /\ flow.st = "import" /\ flow'.alone = flow.alone
        /\ flow'.board = flow.board /\ flow'.copy = flow.copy
    BY <1>0, <1>4, <2>1 DEF RestoreImport, Flow
  <2>4. \/ s = r
        \/ /\ s.id = r.id /\ s.next = r.next
           /\ \A d \in Ids : s.names[d] = IF d = c THEN flow.copy.names[c] ELSE r.names[d]
    BY <1>0, <2>2, ImportedIs
  <2>5. boards'[flow.board] = s
    BY <1>0, <2>2, <2>3, ItBecomes
  <2> HIDE DEF s
  <2>6. QED
    BY <2>3, <2>4, <2>5 DEF AloneInv, Restored
<1>5. CASE RestoreCommit
  <2> DEFINE r == boards[flow.board]
             s == RestoreCommitted(r, flow.copy.rev)
  <2>1. /\ s \in Registry /\ Becomes(flow.board, s) /\ flow.st = "import" /\ flow'.alone = flow.alone
        /\ flow'.board = flow.board /\ flow'.copy = flow.copy
    BY <1>0, <1>5, RestoreWrites DEF RestoreCommit, Flow
  <2>2. s = r \/ (s.id = r.id /\ s.next = r.next /\ s.names = r.names)
    BY <1>0, CommittedIs
  <2>3. boards'[flow.board] = s
    BY <1>0, <2>1, ItBecomes
  <2> HIDE DEF s
  <2>4. QED
    BY <2>1, <2>2, <2>3 DEF AloneInv, Restored
<1>6. ASSUME NEW b \in Boards, OtherStep(b) PROVE AloneInv'
  <2>1. PICK s \in Registry : Written(b, s)
    BY <1>6, OthersWrite
  <2>2. Becomes(b, s) /\ Changes(b, s)
    BY <2>1 DEF Written, Changes
  <2>3. flow'.st = flow.st /\ flow'.board = flow.board /\ flow'.copy = flow.copy
    BY <1>0, <2>2 DEF Changes, Flow
  <2>4. CASE flow.st \in {"import", "verify"} /\ b = flow.board
    <3>1. flow'.alone = FALSE
      BY <1>0, <2>2, <2>4 DEF Changes, Flow
    <3>2. QED
      BY <3>1 DEF AloneInv
  <2>5. CASE flow.st \in {"import", "verify"} /\ b # flow.board
    <3>1. boards'[flow.board] = boards[flow.board]
      BY <1>0, <2>2, <2>5, ItBecomes
    <3>2. flow' = flow
      BY <2>2, <2>5 DEF Changes
    <3>3. QED
      BY <3>1, <3>2 DEF AloneInv
  <2>6. CASE flow.st \notin {"import", "verify"}
    BY <1>2, <2>3, <2>6
  <2>7. QED
    BY <2>4, <2>5, <2>6
<1>7. CASE Poll \/ AnswerExport \/ Save \/ Load \/ Reload
  BY <1>1, <1>7 DEF Poll, AnswerExport, Save, Load, Reload, boardVars
<1>8. CASE HomeAssistantRestarts \/ Dismiss \/ RestoreStops \/ RestoreVerify
  <2>1. flow' = NoFlow \/ flow' = [flow EXCEPT !.st = "restored"]
    BY <1>8 DEF HomeAssistantRestarts, Dismiss, RestoreStops, RestoreVerify
  <2>2. flow'.st \in {"idle", "restored"}
    BY <1>0, <2>1, NoFlowIsFlow DEF Flow
  <2>3. QED
    BY <1>2, <2>2
<1>9. CASE Confirm
  <2>1. flow' = NoFlow \/ flow'.st = "begin"
    BY <1>0, <1>9 DEF Confirm, Flow
  <2>2. QED
    BY <1>2, <2>1, NoFlowIsFlow
<1>10. ASSUME NEW b \in Boards, Reconfigure(b) PROVE AloneInv'
  <2>1. flow' = NoFlow \/ flow' = [NoFlow EXCEPT !.st = "offered", !.board = b]
    BY <1>10 DEF Reconfigure
  <2>2. flow'.st \in {"idle", "offered"}
    BY <2>1, NoFlowIsFlow DEF NoFlow
  <2>3. QED
    BY <1>2, <2>2
<1>11. ASSUME NEW b \in Boards, GoesDown(b) \/ ComesUp(b) PROVE AloneInv'
  BY <1>1, <1>11 DEF GoesDown, ComesUp, boardVars
<1>12. CASE UNCHANGED vars
  BY <1>1, <1>12 DEF vars, boardVars
<1>13. QED
  BY <1>3, <1>4, <1>5, <1>6, <1>7, <1>8, <1>9, <1>10, <1>11, <1>12 DEF Next, OtherStep

\* As many commands as there were, and none that was not, are all of them.
LEMMA CountedAll ==
  ASSUME NEW names \in Listing, NEW source \in Listing,
         \A c \in Ids : names[c] \in {NoName, source[c]}, Count(names) = Count(source)
  PROVE  names = source
<1>1. Listed(names) \in SUBSET Listed(source) /\ Listed(source) \in SUBSET Ids
  BY DEF Listed
<1>2. Listed(names) = Listed(source)
  BY <1>1, ListedIsFinite, FS_Subset DEF Count
<1>3. \A c \in Ids : names[c] = source[c]
  BY <1>2 DEF Listed
<1>4. QED
  BY <1>3 DEF Listing

\* A restore that reports success has brought back every command under its id, the counter and
\* a later revision, though no call of it heard of a refusal: what _async_verify counts is
\* enough, unless somebody else wrote to the board meanwhile.
THEOREM SuccessComplete == Spec => SuccessIsComplete
<1> DEFINE A == [(flow.st = "verify" /\ flow'.st = "restored" /\ flow.alone) =>
                   LET r == boards[flow.board]
                   IN  /\ r.id = Ours /\ ~r.restoring
                       /\ r.names = flow.copy.names /\ r.next = flow.copy.next
                       /\ r.rev > flow.copy.rev]_vars
<1>1. TypeOK /\ AloneInv /\ [Next]_vars => A
  <2> SUFFICES ASSUME TypeOK, AloneInv, [Next]_vars,
                      flow.st = "verify", flow'.st = "restored", flow.alone
               PROVE  LET r == boards[flow.board]
                      IN  /\ r.id = Ours /\ ~r.restoring
                          /\ r.names = flow.copy.names /\ r.next = flow.copy.next
                          /\ r.rev > flow.copy.rev
    OBVIOUS
  <2>1. flow \in Flow /\ boards[flow.board] \in Registry /\ flow.copy \in Copy
    BY DEF TypeOK, Flow
  <2>2. flow' # flow /\ flow' # NoFlow
    BY NoFlowIsFlow
  <2>3. ~ \E b \in Boards : Reconfigure(b) \/ OtherStep(b)
    <3>1. ASSUME NEW b \in Boards, OtherStep(b) PROVE FALSE
      BY <2>1, <3>1, OthersWrite DEF Written, Changes, Flow
    <3>2. QED
      BY <3>1 DEF Reconfigure, Idle
  <2>4. RestoreVerify
    BY <2>2, <2>3
    DEF Next, OtherStep, Poll, AnswerExport, Save, Load, Reload, HomeAssistantRestarts, Confirm,
        Dismiss, RestoreBegin, RestoreImport, RestoreCommit, RestoreStops, GoesDown, ComesUp, vars
  <2>5. Verified(boards[flow.board], flow.copy)
    BY <2>2, <2>4 DEF RestoreVerify
  <2>6. Restored(boards[flow.board], flow.copy)
    BY <2>5 DEF AloneInv, Verified
  <2>7. boards[flow.board].names = flow.copy.names
    BY <2>1, <2>5, <2>6, CountedAll DEF Verified, Restored, Registry, Copy
  <2>8. QED
    BY <2>5, <2>6, <2>7 DEF Verified, Restored
<1>2. Init => AloneInv
  BY NoFlowIsFlow DEF Init, AloneInv
<1>3. QED
  BY <1>1, <1>2, AloneStep, WholeAlways, PTL DEF Spec, SuccessIsComplete

-----------------------------------------------------------------------------
(* What is stored never goes back *)

Restoring == flow.st \in {"begin", "import"}

\* One board at most stands for the bridge; while a restore makes another into it, none does.
Stands(b) == b \notin replaced /\ boards[b].id = Ours
OneStands ==
  /\ up \cap replaced = {}
  /\ \A b, c \in Boards : Stands(b) /\ Stands(c) => b = c
  /\ flow.st = "import" /\ boards[flow.board].id = Ours => boards[flow.board].restoring
  /\ Restoring => \A b \in up \ {flow.board} : boards[b].id # Ours

\* What is stored is not ahead of the replica, and neither of them of the board that stands for
\* the bridge, or of the snapshot that is being made into it.
NotAhead ==
  /\ Loaded => stored.rev <= replica.rev
  /\ \A b \in Boards : Stands(b) /\ ~boards[b].restoring =>
       stored.rev <= boards[b].rev /\ replica.rev <= boards[b].rev
  /\ Restoring => stored.rev <= flow.copy.rev /\ replica.rev <= flow.copy.rev

\* A refresh can still succeed while all it has left is listed.
Live(names, e) == e.todo \subseteq Listed(names)
Left(e) == Cardinality(e.todo)

\* Of two refreshes in the queue the older one is done first: it has no more left than the
\* other, or less when it comes later in this round.
InTurn(d, e) ==
  \/ d.status.rev <= e.status.rev /\ Left(d) <= Left(e)
  \/ d.status.rev >= e.status.rev /\ Left(e) < Left(d)
Ordered(names, q) ==
  \A i, j \in DOMAIN q : i < j /\ Live(names, q[i]) /\ Live(names, q[j]) => InTurn(q[i], q[j])

\* A refresh is not ahead of its board, nor behind the replica if it can still succeed.
NotBehind(r, rev, e) ==
  /\ r.id = Ours => e.status.rev <= r.rev /\ \A c \in e.todo : c < r.next
  /\ Live(r.names, e) => rev <= e.status.rev
InOrder ==
  /\ \A i \in DOMAIN exports : NotBehind(boards[at], replica.rev, exports[i])
  /\ Ordered(boards[at].names, exports)

AdvanceInv == OneStands /\ NotAhead /\ InOrder

LEMMA LeftIs ==
  ASSUME NEW e \in Refresh
  PROVE  /\ Left(e) \in Nat /\ e.status.rev \in Nat
         /\ e.todo # {} => Left(e) >= 1
         /\ \A c \in e.todo : Cardinality(e.todo \ {c}) = Left(e) - 1
         /\ \A S \in SUBSET Ids : e.todo \subseteq S => Left(e) <= Cardinality(S)
<1>1. e.todo \in SUBSET Ids /\ e.status.rev \in Nat
  BY DEF Refresh, Registry
<1>2. IsFiniteSet(e.todo) /\ Left(e) \in Nat
  BY <1>1, ListedIsFinite DEF Left
<1>3. e.todo # {} => Left(e) >= 1
  BY <1>2, FS_EmptySet DEF Left
<1>4. \A c \in e.todo : Cardinality(e.todo \ {c}) = Left(e) - 1
  BY <1>2, FS_RemoveElement DEF Left
<1>5. ASSUME NEW S \in SUBSET Ids, e.todo \subseteq S PROVE Left(e) <= Cardinality(S)
  <2>1. IsFiniteSet(S) /\ e.todo \in SUBSET S
    BY <1>5, ListedIsFinite
  <2>2. QED
    BY <2>1, FS_Subset DEF Left
<1>6. QED
  BY <1>1, <1>2, <1>3, <1>4, <1>5

LEMMA OrderedMovesUp ==
  ASSUME NEW names, NEW q \in Seq(Refresh), q # <<>>, Ordered(names, q)
  PROVE  Ordered(names, Tail(q))
<1>1. \A i \in DOMAIN Tail(q) : i + 1 \in DOMAIN q /\ Tail(q)[i] = q[i + 1] /\ i \in Int
  BY QueueProperties, QueueMovesUp
<1>2. ASSUME NEW i \in DOMAIN Tail(q), NEW j \in DOMAIN Tail(q), i < j,
             Live(names, Tail(q)[i]), Live(names, Tail(q)[j])
      PROVE  InTurn(Tail(q)[i], Tail(q)[j])
  <2>1. i + 1 < j + 1
    BY <1>1, <1>2
  <2>2. QED
    BY <1>1, <1>2, <2>1 DEF Ordered
<1>3. QED
  BY <1>2 DEF Ordered

\* The first refresh is in turn with all the others.
LEMMA FirstInTurn ==
  ASSUME NEW names, NEW q \in Seq(Refresh), q # <<>>, Ordered(names, q), Live(names, Head(q)),
         NEW i \in DOMAIN Tail(q), Live(names, Tail(q)[i])
  PROVE  InTurn(Head(q), Tail(q)[i])
<1>1. /\ Head(q) = q[1] /\ 1 \in DOMAIN q /\ i + 1 \in DOMAIN q /\ Tail(q)[i] = q[i + 1]
      /\ 1 < i + 1
  BY QueueProperties
<1>2. QED
  BY <1>1 DEF Ordered

LEMMA OrderedGrows ==
  ASSUME NEW names, NEW q \in Seq(Refresh), NEW e \in Refresh, Ordered(names, q),
         Live(names, e) => \A i \in DOMAIN q : Live(names, q[i]) => InTurn(q[i], e)
  PROVE  Ordered(names, Append(q, e))
<1> DEFINE p == Append(q, e)
<1>1. \A i \in DOMAIN p : \/ i \in DOMAIN q /\ i <= Len(q) /\ p[i] = q[i]
                          \/ i = Len(q) + 1 /\ p[i] = e
  BY QueueGrows
<1>2. Len(q) \in Nat /\ DOMAIN q = 1..Len(q)
  BY LenProperties
<1> HIDE DEF p
<1>3. ASSUME NEW i \in DOMAIN p, NEW j \in DOMAIN p, i < j, Live(names, p[i]), Live(names, p[j])
      PROVE  InTurn(p[i], p[j])
  <2>1. i \in DOMAIN q /\ p[i] = q[i]
    BY <1>1, <1>2, <1>3
  <2>2. CASE j \in DOMAIN q /\ p[j] = q[j]
    BY <1>3, <2>1, <2>2 DEF Ordered
  <2>3. CASE p[j] = e
    BY <1>3, <2>1, <2>3
  <2>4. QED
    BY <1>1, <2>2, <2>3
<1>4. QED
  BY <1>3 DEF Ordered, p

\* A board that is read stands for the bridge, and no restore has begun.
LEMMA ReadStands ==
  ASSUME WholeInv, OneStands, at \in up, boards[at].id = Ours, ~boards[at].restoring
  PROVE  Stands(at) /\ ~Restoring
BY DEF WholeInv, FlowWhole, OneStands, Stands, Restoring

LEMMA Revisions ==
  ASSUME TypeOK
  PROVE  /\ stored.rev \in Nat /\ replica.rev \in Nat /\ flow.copy.rev \in Nat
         /\ \A b \in Boards : boards[b].rev \in Nat /\ boards[b].next \in Nat
         /\ \A i \in DOMAIN exports : exports[i] \in Refresh
<1>1. \A i \in DOMAIN exports : exports[i] \in Refresh
  BY LenProperties DEF TypeOK
<1>2. QED
  BY <1>1, RegistryAssumption DEF TypeOK, Copy, Flow, Registry

\* The replica takes on a revision that the board it was read from had.
LEMMA ReplicaAdvances ==
  ASSUME TypeOK, WholeInv, OneStands, NotAhead,
         at \in up, at \in Boards, boards[at].id = Ours, ~boards[at].restoring,
         UNCHANGED <<boards, at, stored, replaced, flow>>,
         replica' \in Copy, replica.rev <= replica'.rev, replica'.rev <= boards[at].rev
  PROVE  NotAhead'
<1>1. Stands(at) /\ ~Restoring
  BY ReadStands
<1>2. stored.rev <= replica.rev /\ replica'.rev \in Nat
  BY ReplicaAssumption DEF NotAhead, Loaded, Copy
<1>3. \A b \in Boards : Stands(b) => b = at
  BY <1>1 DEF OneStands
<1>4. ~Restoring'
  BY <1>1 DEF Restoring
<1>5. stored.rev <= replica'.rev /\ stored.rev <= boards[at].rev
  BY <1>2, Revisions
<1>6. \A b \in Boards : Stands(b)' => b = at
  BY <1>3 DEF Stands
<1>7. QED
  BY <1>4, <1>5, <1>6 DEF NotAhead

LEMMA PollAdvances ==
  ASSUME TypeOK, WholeInv, AdvanceInv, Poll
  PROVE  NotAhead' /\ InOrder'
<1>0. /\ OneStands /\ NotAhead /\ InOrder
      /\ at \in up /\ at \in Boards /\ boards[at] \in Registry
      /\ boards[at].id = Ours /\ ~boards[at].restoring
      /\ UNCHANGED <<boards, at, stored, replaced, flow>>
      /\ exports \in Seq(Refresh) /\ replica \in Copy
  BY Polled DEF AdvanceInv, Poll, boardVars, entryVars, TypeOK
<1>1. /\ replica.rev <= boards[at].rev /\ replica.rev \in Nat /\ boards[at].rev \in Nat
      /\ boards[at].next \in Nat /\ \A i \in DOMAIN exports : exports[i] \in Refresh
  BY <1>0, ReadStands, Revisions DEF NotAhead
<1>2. CASE Listed(boards[at].names) = {} /\ replica' = CopyOf(boards[at]) /\ exports' = exports
  <2>1. NotAhead'
    BY <1>0, <1>1, <1>2, ReplicaAdvances, CopyOfIsCopy
  <2>2. \A i \in DOMAIN exports : ~Live(boards[at].names, exports[i])
    BY <1>2 DEF WholeInv, RefreshesWhole, RefreshWhole, Live
  <2>3. InOrder'
    BY <1>0, <1>2, <2>2 DEF InOrder, NotBehind, Ordered
  <2>4. QED
    BY <2>1, <2>3
<1>3. CASE exports' = Append(exports, Begun(boards[at])) /\ replica' = replica
  <2> DEFINE e == Begun(boards[at])
  <2>1. NotAhead'
    BY <1>0, <1>1, <1>3, ReplicaAdvances
  <2>2. e \in Refresh /\ e.status = boards[at] /\ e.todo = Listed(boards[at].names)
    BY <1>0, BegunIsRefresh
  <2> HIDE DEF e
  <2>3. \A c \in e.todo : c < boards[at].next
    <3>1. e.todo \subseteq 1..(boards[at].next - 1)
      BY <1>0, <2>2 DEF WholeInv, BoardsWhole, BoardWhole
    <3>2. QED
      BY <1>1, <3>1
  <2>4. NotBehind(boards[at], replica.rev, e)
    BY <1>1, <2>2, <2>3 DEF NotBehind
  <2>5. \A i \in DOMAIN exports' : (i \in DOMAIN exports /\ exports'[i] = exports[i]) \/ exports'[i] = e
    BY <1>0, <1>3, <2>2, QueueGrows DEF e
  <2>6. \A i \in DOMAIN exports' : NotBehind(boards'[at'], replica'.rev, exports'[i])
    BY <1>0, <1>3, <2>4, <2>5 DEF InOrder
  <2>7. ASSUME NEW i \in DOMAIN exports, Live(boards[at].names, exports[i])
        PROVE  InTurn(exports[i], e)
    <3>1. exports[i].status.rev <= e.status.rev
      BY <1>0, <2>2 DEF InOrder, NotBehind
    <3>2. e.todo \in SUBSET Ids /\ exports[i].todo \subseteq e.todo
      BY <2>2, <2>7 DEF Refresh, Live
    <3>3. Left(exports[i]) <= Left(e)
      BY <1>1, <3>2, LeftIs DEF Left
    <3>4. QED
      BY <3>1, <3>3 DEF InTurn
  <2>8. Ordered(boards[at].names, Append(exports, e))
    BY <1>0, <2>2, <2>7, OrderedGrows DEF InOrder
  <2>9. QED
    BY <1>0, <1>3, <2>1, <2>6, <2>8 DEF InOrder, e
<1>4. QED
  BY <1>2, <1>3, Polled

\* A refresh that has exported one more command stays in turn, behind the others.
LEMMA TurnsInTurn ==
  ASSUME NEW d \in Refresh, NEW e \in Refresh, NEW f \in Refresh, NEW c \in e.todo,
         f.status = e.status, f.todo = e.todo \ {c}, InTurn(e, d)
  PROVE  InTurn(d, f)
<1>1. Left(f) = Left(e) - 1
  BY LeftIs DEF Left
<1>2. Left(e) \in Nat /\ Left(d) \in Nat /\ e.status.rev \in Nat /\ d.status.rev \in Nat
  BY LeftIs
<1>3. f.status.rev = e.status.rev
  OBVIOUS
<1>4. QED
  BY <1>1, <1>2, <1>3 DEF InTurn

LEMMA AnswerAdvances ==
  ASSUME TypeOK, WholeInv, AdvanceInv, AnswerExport
  PROVE  NotAhead' /\ InOrder'
<1>0. /\ OneStands /\ NotAhead /\ InOrder
      /\ exports # <<>> /\ at \in Boards /\ Head(exports) \in Refresh
      /\ UNCHANGED <<boards, at, stored, replaced, flow>>
      /\ exports \in Seq(Refresh) /\ boards[at] \in Registry
  BY Answered DEF AdvanceInv, AnswerExport, boardVars, entryVars, TypeOK
<1>1. /\ Tail(exports) \in Seq(Refresh)
      /\ \A i \in DOMAIN Tail(exports) : /\ i + 1 \in DOMAIN exports
                                         /\ Tail(exports)[i] = exports[i + 1]
                                         /\ Tail(exports)[i] \in Refresh
      /\ Head(exports) = exports[1] /\ 1 \in DOMAIN exports
  BY <1>0, QueueMovesUp, QueueProperties, Revisions
<1>2. /\ Ordered(boards[at].names, exports) /\ Ordered(boards[at].names, Tail(exports))
      /\ \A i \in DOMAIN exports : NotBehind(boards[at], replica.rev, exports[i])
  BY <1>0, OrderedMovesUp DEF InOrder
<1>3. CASE Drops
  <2>1. NotAhead'
    BY <1>0, <1>3 DEF Drops, NotAhead, Stands, Restoring, Loaded
  <2>2. \A i \in DOMAIN exports' : NotBehind(boards'[at'], replica'.rev, exports'[i])
    BY <1>0, <1>1, <1>2, <1>3 DEF Drops
  <2>3. Ordered(boards'[at'].names, exports')
    BY <1>0, <1>2, <1>3 DEF Drops
  <2>4. QED
    BY <2>1, <2>2, <2>3 DEF InOrder
<1>4. ASSUME NEW c \in Head(exports).todo, at \in up, boards[at].names[c] # NoName,
             GoesOn(Exported(Head(exports), c)) \/ Finishes(Exported(Head(exports), c))
      PROVE  NotAhead' /\ InOrder'
  <2> DEFINE e == Head(exports)
             f == Exported(e, c)
             q == Tail(exports)
  <2>1. c \in Ids /\ e \in Refresh /\ c \in e.todo
    BY <1>0, <1>4 DEF Refresh
  <2>2. f \in Refresh /\ f.status = e.status /\ f.todo = e.todo \ {c}
    BY <1>0, <2>1, ExportedIs
  <2>3. NotBehind(boards[at], replica.rev, e)
    BY <1>1, <1>2
  <2>4. boards[at].id = Ours /\ ~boards[at].restoring /\ c \in Listed(boards[at].names)
    BY <1>0, <1>4, <2>1 DEF WholeInv, RefreshesWhole, Listed
  <2> HIDE DEF e, f
  <2>5. Live(boards[at].names, f) => Live(boards[at].names, e)
    BY <2>1, <2>2, <2>4 DEF Live
  <2>6. ASSUME NEW i \in DOMAIN q, Live(boards[at].names, q[i]), Live(boards[at].names, e)
        PROVE  InTurn(e, q[i])
    BY <1>0, <1>2, <2>6, FirstInTurn DEF e
  <2>7. CASE GoesOn(f)
    <3>1. replica' = replica /\ exports' = Append(q, f)
      BY <2>7 DEF GoesOn
    <3>2. NotAhead'
      BY <1>0, <3>1 DEF NotAhead, Stands, Restoring, Loaded
    <3>3. NotBehind(boards[at], replica.rev, f)
      BY <2>2, <2>3, <2>5 DEF NotBehind
    <3>4. \A i \in DOMAIN exports' :
            (i \in DOMAIN q /\ exports'[i] = q[i]) \/ exports'[i] = f
      BY <1>1, <2>2, <3>1, QueueGrows
    <3>5. \A i \in DOMAIN exports' : NotBehind(boards'[at'], replica'.rev, exports'[i])
      BY <1>0, <1>1, <1>2, <3>1, <3>3, <3>4
    <3>6. ASSUME NEW i \in DOMAIN q, Live(boards[at].names, f), Live(boards[at].names, q[i])
          PROVE  InTurn(q[i], f)
      BY <1>1, <2>1, <2>2, <2>5, <2>6, <3>6, TurnsInTurn
    <3>7. Ordered(boards[at].names, Append(q, f))
      BY <1>1, <1>2, <2>2, <3>6, OrderedGrows
    <3>8. QED
      BY <1>0, <3>1, <3>2, <3>5, <3>7 DEF InOrder
  <2>8. CASE Finishes(f)
    <3>1. replica' = Snapshot(f) /\ exports' = q /\ e.todo = {c}
      BY <2>1, <2>2, <2>8 DEF Finishes
    <3>2. /\ replica' \in Copy /\ replica'.rev = e.status.rev
      BY <2>2, <3>1, SnapshotIsCopy
    <3>3. Live(boards[at].names, e)
      BY <2>4, <3>1 DEF Live
    <3>4. replica.rev <= replica'.rev /\ replica'.rev <= boards[at].rev
      BY <2>3, <2>4, <3>2, <3>3 DEF NotBehind
    <3>5. NotAhead'
      BY <1>0, <1>4, <2>4, <3>2, <3>4, ReplicaAdvances
    <3>6. ASSUME NEW i \in DOMAIN q PROVE NotBehind(boards[at], replica'.rev, q[i])
      <4>1. q[i] \in Refresh /\ q[i].todo # {} /\ NotBehind(boards[at], replica.rev, q[i])
        BY <1>1, <1>2 DEF WholeInv, RefreshesWhole, RefreshWhole
      <4>2. ASSUME Live(boards[at].names, q[i]) PROVE e.status.rev <= q[i].status.rev
        <5>1. InTurn(e, q[i])
          BY <2>6, <3>3, <4>2
        <5>2. Left(e) = 1
          <6>1. Left(e) = Cardinality({c})
            BY <3>1 DEF Left
          <6>2. QED
            BY <6>1, FS_Singleton
        <5>3. Left(q[i]) >= 1 /\ Left(q[i]) \in Nat
          BY <4>1, LeftIs
        <5>4. QED
          BY <5>1, <5>2, <5>3 DEF InTurn
      <4>3. QED
        BY <3>2, <4>1, <4>2 DEF NotBehind
    <3>7. QED
      BY <1>0, <1>2, <3>1, <3>5, <3>6 DEF InOrder
  <2>9. QED
    BY <1>4, <2>7, <2>8 DEF e, f
<1>5. QED
  BY <1>3, <1>4, Answered

\* Where the queue and the replica are as they were and the board that is read has kept what a
\* live refresh needs, the refreshes stay in order.
LEMMA OrderStays ==
  ASSUME InOrder, exports' = exports, replica' = replica, at' = at,
         \A i \in DOMAIN exports :
           /\ boards'[at].id = Ours =>
                /\ boards[at].id = Ours /\ boards[at].next <= boards'[at].next
                /\ boards[at].rev <= boards'[at].rev
           /\ Live(boards'[at].names, exports[i]) => Live(boards[at].names, exports[i]),
         \A i \in DOMAIN exports : exports[i] \in Refresh,
         exports # <<>> => /\ boards[at].rev \in Nat /\ boards'[at].rev \in Nat
                           /\ boards[at].next \in Nat /\ boards'[at].next \in Nat
  PROVE  InOrder'
<1>1. ASSUME NEW i \in DOMAIN exports
      PROVE  NotBehind(boards'[at], replica.rev, exports[i])
  <2>1. exports # <<>>
    BY <1>1
  <2>2. exports[i].todo \subseteq Nat /\ exports[i].status.rev \in Nat
    BY RegistryAssumption DEF Refresh, Ids, Registry
  <2>3. NotBehind(boards[at], replica.rev, exports[i])
    BY DEF InOrder
  <2>4. boards'[at].id = Ours =>
          exports[i].status.rev <= boards'[at].rev /\ \A c \in exports[i].todo : c < boards'[at].next
    <3> SUFFICES ASSUME boards'[at].id = Ours, NEW c \in exports[i].todo
                 PROVE  exports[i].status.rev <= boards'[at].rev /\ c < boards'[at].next
      <4>1. boards'[at].id = Ours => exports[i].status.rev <= boards'[at].rev
        BY <2>1, <2>2, <2>3 DEF NotBehind
      <4>2. QED
        BY <4>1
    <3>1. exports[i].status.rev <= boards[at].rev /\ c < boards[at].next
      BY <2>3 DEF NotBehind
    <3>2. boards[at].next <= boards'[at].next /\ boards[at].rev <= boards'[at].rev
      OBVIOUS
    <3>3. c \in Nat
      BY <2>2
    <3>4. QED
      BY <2>1, <2>2, <3>1, <3>2, <3>3
  <2>5. QED
    BY <2>3, <2>4 DEF NotBehind
<1>2. Ordered(boards'[at].names, exports)
  BY DEF InOrder, Ordered
<1>3. QED
  BY <1>1, <1>2 DEF InOrder

LEMMA WrittenAdvances ==
  ASSUME TypeOK, WholeInv, AdvanceInv, ~Abandoning,
         NEW b \in Boards, NEW s \in Registry, Written(b, s)
  PROVE  AdvanceInv'
<1>0. /\ OneStands /\ NotAhead /\ InOrder /\ b \in up /\ boards[b] \in Registry
      /\ UNCHANGED <<at, exports, replica, stored, up, replaced>>
  BY DEF AdvanceInv, Written, Changes, entryVars, copyVars, TypeOK
<1>1. \A o \in Boards : boards'[o] = IF o = b THEN s ELSE boards[o]
  BY ItBecomes DEF Written, Changes
<1>2. /\ flow'.st = flow.st /\ flow'.board = flow.board /\ flow'.copy = flow.copy
      /\ flow.board \in Boards
  BY DEF Written, Changes, TypeOK, Flow
<1>3. s.id = Ours => /\ Edits(boards[b], s) /\ boards[b].id = Ours
                     /\ boards[b].restoring => s.restoring
                     /\ boards[b].rev <= s.rev /\ boards[b].next <= s.next
  BY DEF Written, Edits
<1>4. OneStands'
  <2>1. \A o \in Boards : boards'[o].id = Ours => boards[o].id = Ours
    BY <1>1, <1>3
  <2>2. \A o, c \in Boards : Stands(o)' /\ Stands(c)' => o = c
    BY <1>0, <2>1 DEF OneStands, Stands
  <2>3. flow.st = "import" /\ boards'[flow.board].id = Ours => boards'[flow.board].restoring
    BY <1>0, <1>1, <1>2, <1>3 DEF OneStands
  <2>4. Restoring => \A o \in up \ {flow.board} : boards'[o].id # Ours
    BY <1>0, <2>1 DEF OneStands, TypeOK
  <2>5. QED
    BY <1>0, <1>2, <2>2, <2>3, <2>4 DEF OneStands, Restoring
<1>5. NotAhead'
  <2>1. ASSUME s.id = Ours, b \notin replaced, ~s.restoring
        PROVE  stored.rev <= s.rev /\ replica.rev <= s.rev
    <3>1. stored.rev <= boards[b].rev /\ replica.rev <= boards[b].rev /\ boards[b].rev <= s.rev
      BY <1>0, <1>3, <2>1 DEF NotAhead, Stands
    <3>2. s.rev \in Nat
      BY DEF Registry
    <3>3. QED
      BY <3>1, <3>2, Revisions
  <2>2. QED
    BY <1>0, <1>1, <1>2, <2>1 DEF NotAhead, Stands, Restoring, Loaded
<1>6. InOrder'
  <2>1. ASSUME NEW i \in DOMAIN exports
        PROVE  /\ at \in Boards /\ exports # <<>> /\ exports[i].todo \subseteq Ids
               /\ exports[i].todo # {}
               /\ boards[at].id = Ours => \A c \in exports[i].todo : c < boards[at].next
    <3>1. exports # <<>>
      BY <2>1
    <3>2. at \in Boards /\ exports[i] \in Refresh
      BY <3>1, Revisions DEF TypeOK
    <3>3. QED
      BY <1>0, <3>1, <3>2 DEF Refresh, InOrder, NotBehind, WholeInv, RefreshesWhole, RefreshWhole
  <2>2. ASSUME NEW i \in DOMAIN exports, b = at, Live(s.names, exports[i])
        PROVE  Live(boards[at].names, exports[i])
    <3>1. CASE Edits(boards[b], s)
      <4>1. \A c \in exports[i].todo : c \in Ids /\ s.names[c] # NoName
        BY <2>1, <2>2 DEF Live, Listed
      <4>2. \A c \in exports[i].todo : boards[b].names[c] # NoName
        <5>1. CASE boards[b].id = Ours
          BY <2>1, <2>2, <3>1, <4>1, <5>1 DEF Edits
        <5>2. CASE boards[b].id # Ours
          BY <2>1, <2>2, <4>1, <5>2 DEF Written
        <5>3. QED
          BY <5>1, <5>2
      <4>3. QED
        BY <2>2, <4>1, <4>2 DEF Live, Listed
    <3>2. CASE s.names = Nothing
      BY <2>1, <2>2, <3>2, NothingListed DEF Live
    <3>3. QED
      BY <3>1, <3>2 DEF Written
  <2>3. ASSUME NEW i \in DOMAIN exports
        PROVE  /\ boards'[at].id = Ours =>
                    /\ boards[at].id = Ours /\ boards[at].next <= boards'[at].next
                    /\ boards[at].rev <= boards'[at].rev
               /\ Live(boards'[at].names, exports[i]) => Live(boards[at].names, exports[i])
    <3>1. CASE b = at
      BY <1>1, <1>3, <2>1, <2>2, <3>1
    <3>2. CASE b # at
      <4>1. boards'[at] = boards[at] /\ boards[at].rev \in Nat /\ boards[at].next \in Nat
        BY <1>1, <2>1, <3>2, Revisions
      <4>2. QED
        BY <4>1
    <3>3. QED
      BY <3>1, <3>2
  <2>4. exports # <<>> => /\ boards[at].rev \in Nat /\ boards'[at].rev \in Nat
                          /\ boards[at].next \in Nat /\ boards'[at].next \in Nat
    <3>1. s.rev \in Nat /\ s.next \in Nat
      BY RegistryAssumption DEF Registry
    <3>2. exports # <<>> => at \in Boards
      BY DEF TypeOK
    <3>3. QED
      BY <1>1, <3>1, <3>2, Revisions
  <2>5. QED
    BY <1>0, <2>3, <2>4, OrderStays, Revisions
<1>7. QED
  BY <1>4, <1>5, <1>6 DEF AdvanceInv

\* A call of the restore leaves the refreshes alone: they read another board.
LEMMA RestoreOrder ==
  ASSUME TypeOK, WholeInv, InOrder, NEW s \in Registry, Becomes(flow.board, s),
         UNCHANGED <<at, exports, replica>>,
         s = boards[flow.board] \/ flow.st = "begin" \/ boards[flow.board].restoring
  PROVE  InOrder'
<1>1. /\ flow.board \in Boards
      /\ \A o \in Boards : boards'[o] = IF o = flow.board THEN s ELSE boards[o]
  BY ItBecomes DEF TypeOK, Flow
<1>2. exports # <<>> => at \in Boards /\ boards'[at] = boards[at]
  BY <1>1 DEF TypeOK, WholeInv, FlowWhole, RefreshesWhole
<1>3. ASSUME NEW i \in DOMAIN exports
      PROVE  /\ at \in Boards /\ boards'[at] = boards[at]
             /\ boards[at].rev \in Nat /\ boards[at].next \in Nat
  <2>1. exports # <<>>
    BY <1>3
  <2>2. QED
    BY <1>2, <2>1, Revisions
<1>4. \A i \in DOMAIN exports :
        /\ boards'[at].id = Ours =>
             /\ boards[at].id = Ours /\ boards[at].next <= boards'[at].next
             /\ boards[at].rev <= boards'[at].rev
        /\ Live(boards'[at].names, exports[i]) => Live(boards[at].names, exports[i])
  BY <1>3
<1>5. exports # <<>> => /\ boards[at].rev \in Nat /\ boards'[at].rev \in Nat
                        /\ boards[at].next \in Nat /\ boards'[at].next \in Nat
  BY <1>2, Revisions
<1>6. QED
  BY <1>4, <1>5, OrderStays, Revisions

LEMMA RestoreAdvances ==
  ASSUME TypeOK, WholeInv, AdvanceInv, RestoreBegin \/ RestoreImport \/ RestoreCommit
  PROVE  AdvanceInv'
<1>0. /\ OneStands /\ NotAhead /\ InOrder
      /\ flow.board \in Boards /\ boards[flow.board] \in Registry /\ flow \in Flow
      /\ flow.board \in up /\ UNCHANGED <<at, exports, replica, stored, up>>
      /\ flow.copy.rev \in Nat /\ flow.copy.next \in 1..(MaxId + 1) /\ Ours \in Identities
  BY ReplicaAssumption
  DEF AdvanceInv, TypeOK, Flow, Copy, RestoreBegin, RestoreImport, RestoreCommit, entryVars, copyVars
<1>1. ASSUME NEW s \in Registry, Becomes(flow.board, s)
      PROVE  \A o \in Boards : boards'[o] = IF o = flow.board THEN s ELSE boards[o]
  BY <1>0, <1>1, ItBecomes
<1>2. CASE RestoreBegin
  <2> DEFINE s == RestoreBegun(boards[flow.board], Ours, flow.copy.next)
  <2>1. /\ s \in Registry /\ Becomes(flow.board, s) /\ flow.st = "begin" /\ flow'.st = "import"
        /\ flow'.board = flow.board /\ flow'.copy = flow.copy
        /\ replaced' = replaced \cup {b \in Boards \ {flow.board} : boards[b].id = Ours}
    BY <1>0, <1>2, RestoreWrites DEF RestoreBegin, Flow
  <2>2. s = boards[flow.board] \/ (s.id = Ours /\ s.restoring)
    BY <1>0, BegunIs
  <2>3. boards[flow.board].id # Ours
    BY <2>1 DEF WholeInv, FlowWhole
  <2> HIDE DEF s
  <2>4. \A o \in Boards : boards'[o] = IF o = flow.board THEN s ELSE boards[o]
    BY <1>1, <2>1
  <2>5. \A o \in Boards : Stands(o)' => o = flow.board
    BY <2>1, <2>4 DEF Stands
  <2>6. \A o \in up \ {flow.board} : boards[o].id # Ours
    BY <1>0, <2>1 DEF OneStands, Restoring
  <2>7. up' \cap replaced' = {}
    BY <1>0, <2>1, <2>6 DEF OneStands
  <2>8. OneStands'
    <3>1. \A o \in up \ {flow.board} : boards'[o].id # Ours
      BY <2>4, <2>6 DEF TypeOK
    <3>2. boards'[flow.board].id = Ours => boards'[flow.board].restoring
      BY <1>0, <2>2, <2>3, <2>4
    <3>3. \A b, c \in Boards : Stands(b)' /\ Stands(c)' => b = c
      BY <2>5
    <3>4. QED
      BY <1>0, <2>1, <2>7, <3>1, <3>2, <3>3 DEF OneStands
  <2>9. NotAhead'
    <3>1. \A o \in Boards : Stands(o)' => boards'[o].restoring
      BY <1>0, <2>2, <2>3, <2>4, <2>5 DEF Stands
    <3>2. stored.rev <= flow.copy.rev /\ replica.rev <= flow.copy.rev
      BY <1>0, <2>1 DEF NotAhead, Restoring
    <3>3. QED
      BY <1>0, <2>1, <3>1, <3>2 DEF NotAhead, Loaded
  <2>10. QED
    BY <1>0, <2>1, <2>8, <2>9, RestoreOrder DEF AdvanceInv
<1>3. CASE RestoreImport
  <2>1. PICK c \in flow.todo :
          /\ Becomes(flow.board,
                     Imported(boards[flow.board], c, flow.copy.names[c], Room[flow.board]))
          /\ flow' = [flow EXCEPT !.todo = @ \ {c}]
    BY <1>3 DEF RestoreImport
  <2> DEFINE r == boards[flow.board]
             s == Imported(r, c, flow.copy.names[c], Room[flow.board])
  <2>2. c \in Ids /\ flow.copy.names[c] \in Names \cup {NoName} /\ s \in Registry
    BY RestoreWrites
  <2>3. /\ Becomes(flow.board, s) /\ flow.st = "import" /\ flow'.st = "import"
        /\ flow'.board = flow.board /\ flow'.copy = flow.copy /\ replaced' = replaced
    BY <1>0, <1>3, <2>1 DEF RestoreImport, Flow
  <2>4. s = r \/ (r.restoring /\ s.restoring /\ s.id = r.id)
    BY <1>0, <2>2, ImportedIs
  <2> HIDE DEF s
  <2>5. \A o \in Boards : boards'[o] = IF o = flow.board THEN s ELSE boards[o]
    BY <1>1, <2>2, <2>3
  <2>6. \A o \in Boards : /\ boards'[o].id = boards[o].id
                          /\ ~boards'[o].restoring => boards'[o] = boards[o]
    BY <2>4, <2>5
  <2>7. OneStands'
    <3>1. \A b, c1 \in Boards : Stands(b)' /\ Stands(c1)' => b = c1
      BY <1>0, <2>3, <2>6 DEF OneStands, Stands
    <3>2. boards'[flow.board].id = Ours => boards'[flow.board].restoring
      BY <1>0, <2>3, <2>4, <2>5 DEF OneStands
    <3>3. \A o \in up \ {flow.board} : boards'[o].id # Ours
      BY <1>0, <2>3, <2>6 DEF OneStands, Restoring, TypeOK
    <3>4. QED
      BY <1>0, <2>3, <3>1, <3>2, <3>3 DEF OneStands
  <2>8. NotAhead'
    <3>1. \A o \in Boards : Stands(o)' /\ ~boards'[o].restoring =>
                              stored.rev <= boards'[o].rev /\ replica.rev <= boards'[o].rev
      BY <1>0, <2>3, <2>6 DEF NotAhead, Stands
    <3>2. QED
      BY <1>0, <2>3, <3>1 DEF NotAhead, Restoring, Loaded
  <2>9. QED
    BY <1>0, <2>2, <2>3, <2>4, <2>7, <2>8, RestoreOrder DEF AdvanceInv
<1>4. CASE RestoreCommit
  <2> DEFINE r == boards[flow.board]
             s == RestoreCommitted(r, flow.copy.rev)
  <2>1. /\ s \in Registry /\ Becomes(flow.board, s) /\ flow.st = "import" /\ flow'.st = "verify"
        /\ replaced' = replaced
    BY <1>0, <1>4, RestoreWrites DEF RestoreCommit, Flow
  <2>2. s = r \/ (r.restoring /\ s.id = r.id /\ s.rev > flow.copy.rev)
    BY <1>0, CommittedIs
  <2>3. \A o \in Boards : boards'[o] = IF o = flow.board THEN s ELSE boards[o]
    BY <1>1, <2>1
  <2> HIDE DEF s
  <2>4. \A o \in Boards : boards'[o].id = boards[o].id
    BY <2>2, <2>3
  <2>5. OneStands'
    BY <1>0, <2>1, <2>4 DEF OneStands, Stands, Restoring
  <2>6. NotAhead'
    <3>1. s # r => stored.rev <= s.rev /\ replica.rev <= s.rev
      <4>1. stored.rev <= flow.copy.rev /\ replica.rev <= flow.copy.rev
        BY <1>0, <2>1 DEF NotAhead, Restoring
      <4>2. s.rev \in Nat
        BY <2>1 DEF Registry
      <4>3. QED
        BY <2>2, <4>1, <4>2, Revisions
    <3>2. \A o \in Boards : Stands(o)' /\ ~boards'[o].restoring =>
                              stored.rev <= boards'[o].rev /\ replica.rev <= boards'[o].rev
      BY <1>0, <2>1, <2>3, <2>4, <3>1 DEF NotAhead, Stands
    <3>3. QED
      BY <1>0, <2>1, <3>2 DEF NotAhead, Restoring, Loaded
  <2>7. QED
    BY <1>0, <2>1, <2>2, <2>5, <2>6, RestoreOrder DEF AdvanceInv
<1>5. QED
  BY <1>2, <1>3, <1>4

LEMMA AdvanceStep ==
  TypeOK /\ WholeInv /\ AdvanceInv /\ ~Abandoning /\ [Next]_vars => AdvanceInv'
<1> SUFFICES ASSUME TypeOK, WholeInv, AdvanceInv, ~Abandoning, [Next]_vars PROVE AdvanceInv'
  OBVIOUS
<1>0. OneStands /\ NotAhead /\ InOrder /\ flow \in Flow
  BY DEF AdvanceInv, TypeOK
\* No restore is under way after the step, and nothing but the flow is touched.
<1>1. ASSUME UNCHANGED <<boards, at, exports, replica, stored, replaced, up>>,
             flow'.st \notin {"begin", "import"}
      PROVE  AdvanceInv'
  <2>1. OneStands'
    BY <1>0, <1>1 DEF OneStands, Stands, Restoring
  <2>2. NotAhead'
    BY <1>0, <1>1 DEF NotAhead, Stands, Restoring, Loaded
  <2>3. InOrder'
    BY <1>0, <1>1 DEF InOrder
  <2>4. QED
    BY <2>1, <2>2, <2>3 DEF AdvanceInv
<1>2. CASE Poll \/ AnswerExport
  <2>1. UNCHANGED <<boards, up, replaced, flow>>
    BY <1>2 DEF Poll, AnswerExport, boardVars
  <2>2. OneStands'
    BY <1>0, <2>1 DEF OneStands, Stands, Restoring
  <2>3. QED
    BY <1>2, <2>2, PollAdvances, AnswerAdvances DEF AdvanceInv
<1>3. CASE Save
  <2>1. /\ UNCHANGED <<boards, up, replaced, flow, at, replica, exports>>
        /\ stored' = replica /\ replica.rev \in Nat
    BY <1>3, Revisions DEF Save, boardVars, entryVars
  <2>2. OneStands'
    BY <1>0, <2>1 DEF OneStands, Stands, Restoring
  <2>3. NotAhead'
    BY <1>0, <2>1 DEF NotAhead, Stands, Restoring, Loaded
  <2>4. QED
    BY <1>0, <2>1, <2>2, <2>3 DEF AdvanceInv, InOrder
<1>4. CASE Load \/ Reload \/ HomeAssistantRestarts
  <2>1. /\ UNCHANGED <<boards, up, replaced, stored>> /\ exports' = <<>>
        /\ flow' = flow \/ flow' = NoFlow
        /\ \/ replica' = stored
           \/ replica' = NoCopy /\ at' = Nobody
    BY <1>4 DEF Load, Reload, HomeAssistantRestarts, Unloaded, Loaded, boardVars, TypeOK
  <2>2. flow' # flow => flow'.st = "idle"
    BY <2>1, NoFlowIsFlow
  <2>3. OneStands'
    BY <1>0, <2>1, <2>2 DEF OneStands, Stands, Restoring
  <2>4. /\ stored.rev \in Nat /\ replica'.rev <= stored.rev
        /\ at' # Nobody => stored.rev <= replica'.rev
    BY <2>1, NoCopyIsCopy, Revisions
  <2>5. replica'.rev \in Nat
    BY <2>1, NoCopyIsCopy, Revisions
  <2>6. ASSUME NEW b \in Boards, Stands(b), ~boards[b].restoring
        PROVE  stored.rev <= boards[b].rev /\ replica'.rev <= boards[b].rev
    <3>1. stored.rev <= boards[b].rev /\ boards[b].rev \in Nat
      BY <1>0, <2>6, Revisions DEF NotAhead
    <3>2. QED
      BY <2>4, <2>5, <3>1
  <2>7. Restoring' => stored.rev <= flow'.copy.rev /\ replica'.rev <= flow'.copy.rev
    <3>1. Restoring' => flow' = flow /\ Restoring
      BY <2>2 DEF Restoring
    <3>2. Restoring => stored.rev <= flow.copy.rev /\ flow.copy.rev \in Nat
      BY <1>0, Revisions DEF NotAhead
    <3>3. QED
      BY <2>4, <2>5, <3>1, <3>2
  <2>8. NotAhead'
    BY <2>1, <2>4, <2>6, <2>7 DEF NotAhead, Stands, Loaded
  <2>9. DOMAIN exports' = {}
    BY <2>1
  <2>10. InOrder'
    BY <2>9 DEF InOrder, Ordered
  <2>11. QED
    BY <2>3, <2>8, <2>10 DEF AdvanceInv
<1>5. ASSUME NEW b \in Boards, Reconfigure(b) PROVE AdvanceInv'
  <2>1. UNCHANGED <<boards, at, exports, replica, stored, replaced, up>>
    BY <1>5 DEF Reconfigure, boardVars, copyVars
  <2>2. flow'.st \in {"idle", "offered"}
    BY <1>5, NoFlowIsFlow DEF Reconfigure, NoFlow
  <2>3. QED
    BY <1>0, <1>1, <2>1, <2>2 DEF OneStands, Restoring
<1>6. CASE Confirm
  <2>1. /\ UNCHANGED <<boards, at, exports, replica, stored, replaced, up>>
        /\ flow.st = "offered" /\ ~OtherLives(flow.board)
    BY <1>6 DEF Confirm, boardVars, copyVars, entryVars
  <2>2. CASE flow' = NoFlow
    BY <1>0, <1>1, <2>1, <2>2, NoFlowIsFlow DEF OneStands, Restoring
  <2>3. CASE /\ Loaded
             /\ flow' = [flow EXCEPT !.st = "begin", !.copy = replica, !.todo = Listed(replica.names)]
    <3>1. flow'.st = "begin" /\ flow'.board = flow.board /\ flow'.copy = replica
      BY <1>0, <2>3 DEF Flow
    <3>2. OneStands'
      BY <1>0, <2>1, <3>1 DEF OneStands, Stands, Restoring, OtherLives
    <3>3. stored.rev <= replica.rev /\ replica.rev <= replica.rev
      BY <1>0, <2>3, Revisions DEF NotAhead
    <3>4. NotAhead'
      BY <1>0, <2>1, <3>1, <3>3 DEF NotAhead, Stands, Loaded
    <3>5. QED
      BY <1>0, <2>1, <3>2, <3>4 DEF AdvanceInv, InOrder
  <2>4. QED
    BY <1>6, <2>2, <2>3 DEF Confirm
<1>7. CASE Dismiss \/ RestoreStops \/ RestoreVerify
  <2>1. UNCHANGED <<boards, at, exports, replica, stored, replaced, up>>
    BY <1>7 DEF Dismiss, RestoreStops, RestoreVerify, boardVars, copyVars, entryVars
  <2>2. flow' = NoFlow \/ flow' = [flow EXCEPT !.st = "restored"]
    BY <1>7 DEF Dismiss, RestoreStops, RestoreVerify
  <2>3. flow'.st \in {"idle", "restored"}
    BY <1>0, <2>2, NoFlowIsFlow DEF Flow
  <2>4. QED
    BY <1>0, <1>1, <2>1, <2>3 DEF OneStands, Restoring
<1>8. CASE RestoreBegin \/ RestoreImport \/ RestoreCommit
  BY <1>8, RestoreAdvances
<1>9. ASSUME NEW b \in Boards, OtherStep(b) PROVE AdvanceInv'
  BY <1>9, OthersWrite, WrittenAdvances
\* Only the power of a board changes.
<1>10. ASSUME UNCHANGED <<boards, at, exports, replica, stored, replaced, flow>>,
              up' \cap replaced = {},
              Restoring => \A b \in up' \ {flow.board} : boards[b].id # Ours
       PROVE  AdvanceInv'
  <2>1. OneStands'
    BY <1>0, <1>10 DEF OneStands, Stands, Restoring
  <2>2. NotAhead'
    BY <1>0, <1>10 DEF NotAhead, Stands, Restoring, Loaded
  <2>3. QED
    BY <1>0, <1>10, <2>1, <2>2 DEF AdvanceInv, InOrder
<1>11. ASSUME NEW b \in Boards, GoesDown(b) PROVE AdvanceInv'
  BY <1>0, <1>10, <1>11 DEF GoesDown, boardVars, copyVars, entryVars, OneStands
<1>12. ASSUME NEW b \in Boards, ComesUp(b) PROVE AdvanceInv'
  BY <1>0, <1>10, <1>12 DEF ComesUp, boardVars, copyVars, entryVars, OneStands, Restoring
<1>13. CASE UNCHANGED vars
  BY <1>0, <1>10, <1>13 DEF vars, boardVars, copyVars, entryVars, OneStands
<1>14. QED
  BY <1>2, <1>3, <1>4, <1>5, <1>6, <1>7, <1>8, <1>9, <1>11, <1>12, <1>13 DEF Next, OtherStep

LEMMA AdvanceInit == Init => AdvanceInv
<1> SUFFICES ASSUME Init PROVE AdvanceInv
  OBVIOUS
<1>1. /\ \A b \in Boards : boards[b].id = Ours <=> b = First
      /\ replaced = {} /\ at = Nobody /\ replica = NoCopy /\ stored = NoCopy
      /\ flow = NoFlow /\ exports = <<>>
  BY DEF Init
<1>2. OneStands
  BY <1>1, NoFlowIsFlow DEF OneStands, Stands, Restoring
<1>3. \A b \in Boards : boards[b].rev \in Nat
  BY TypeInit, Revisions
<1>4. NotAhead
  BY <1>1, <1>3, NoFlowIsFlow, NoCopyIsCopy DEF NotAhead, Restoring, Loaded
<1>5. DOMAIN exports = {}
  BY <1>1
<1>6. InOrder
  BY <1>5 DEF InOrder, Ordered
<1>7. QED
  BY <1>2, <1>4, <1>6 DEF AdvanceInv

\* Unless a restore that was interrupted is given up by clearing the board, what is stored never
\* goes back to an older revision: not by refreshes that overlap and are answered in turn, not
\* by a reload, and not by a restore, which goes on from the later of the two revisions
\* (CommandStore::commit_restore).
THEOREM RevisionsNeverGoBack ==
  ASSUME ~Abandoning
  PROVE  Spec => RevisionsAdvance
<1> DEFINE A == [stored'.rev >= stored.rev]_vars
<1>1. TypeOK /\ AdvanceInv /\ [Next]_vars => A
  <2> SUFFICES ASSUME TypeOK, AdvanceInv, [Next]_vars PROVE stored'.rev >= stored.rev
    OBVIOUS
  <2>1. stored.rev \in Nat /\ replica.rev \in Nat
    BY Revisions
  <2>2. CASE Save
    <3>1. stored' = replica /\ stored.rev <= replica.rev
      BY <2>2 DEF Save, AdvanceInv, NotAhead
    <3>2. QED
      BY <2>1, <3>1
  <2>3. CASE ~Save
    <3>1. ASSUME NEW b \in Boards, OtherStep(b) PROVE stored' = stored
      BY <3>1, OthersWrite DEF Written, Changes, copyVars
    <3>2. stored' = stored
      BY <2>3, <3>1
      DEF Next, OtherStep, Poll, AnswerExport, Load, Reload, HomeAssistantRestarts, Confirm,
          Dismiss, RestoreBegin, RestoreImport, RestoreCommit, RestoreVerify, RestoreStops,
          Reconfigure, GoesDown, ComesUp, vars, copyVars
    <3>3. QED
      BY <2>1, <3>2
  <2>4. QED
    BY <2>2, <2>3
<1>2. TypeOK /\ WholeInv /\ AdvanceInv /\ [Next]_vars => AdvanceInv'
  BY AdvanceStep
<1>3. QED
  BY <1>1, <1>2, AdvanceInit, WholeAlways, PTL DEF Spec, RevisionsAdvance

-----------------------------------------------------------------------------
(* What is stored is kept *)

\* What is listed in P is listed in Q, but for the ids in G.
Keeps(G, P, Q) == Listed(P) \ G \subseteq Listed(Q)

\* A board that was damaged at the revision that is stored: no refresh reads it again.
Frozen(b) == boards[b].readOnly /\ boards[b].rev = stored.rev

\* The replica has everything that is stored.
CopiesKeep == Loaded => Keeps(gone, stored.names, replica.names)

\* The board that stands for the bridge has everything that is stored and everything of the
\* replica. What was shown lists only ids it had given.
BoardsKeep ==
  /\ \A b \in Boards : boards[b].rev >= 1
  /\ \A p \in published : Listed(p.names) \subseteq 1..(p.next - 1)
  /\ \A b \in Boards : Stands(b) /\ ~boards[b].restoring /\ ~Frozen(b) =>
       Keeps(gone, stored.names, boards[b].names) /\ Keeps(gone, replica.names, boards[b].names)

\* Of two refreshes the later one has everything of the earlier one, and so have the replica
\* before them and the board after them. The board never grows but under a new revision.
Statuses == {exports[i].status : i \in DOMAIN exports}
RefreshesKeep ==
  \A e \in Statuses :
    /\ replica.rev <= e.rev => Keeps(gone, replica.names, e.names)
    /\ \A d \in Statuses : e.rev <= d.rev => Keeps(gone, e.names, d.names)
    /\ Stands(at) =>
         /\ ~Frozen(at) => Keeps(gone, e.names, boards[at].names)
         /\ e.rev = boards[at].rev => Listed(boards[at].names) \subseteq Listed(e.names)

\* The snapshot a restore brings back has everything, fits the board, and is on the board but
\* for what is still to be imported.
FlowKeeps ==
  Restoring =>
    LET r == boards[flow.board]
    IN  /\ Keeps(gone, stored.names, flow.copy.names) /\ Keeps(gone, replica.names, flow.copy.names)
        /\ Listed(flow.copy.names) \subseteq 1..(flow.copy.next - 1)
        /\ Count(flow.copy.names) <= Slots[flow.board]
        /\ flow.st = "begin" => flow.todo = Listed(flow.copy.names)
        /\ flow.st = "import" /\ r.id = Ours /\ ~r.readOnly =>
             /\ r.next = flow.copy.next
             /\ Listed(flow.copy.names) \ gone \subseteq flow.todo \cup Listed(r.names)
             /\ Listed(r.names) \subseteq Listed(flow.copy.names) \ flow.todo

KeptInv == CopiesKeep /\ BoardsKeep /\ RefreshesKeep /\ FlowKeeps

LEMMA KeepsMore ==
  ASSUME NEW G, NEW H, G \subseteq H, NEW P, NEW Q, Keeps(G, P, Q)
  PROVE  Keeps(H, P, Q)
BY DEF Keeps

LEMMA KeepsOn ==
  ASSUME NEW G, NEW P, NEW Q, NEW R, Keeps(G, P, Q), Keeps(G, Q, R)
  PROVE  Keeps(G, P, R)
BY DEF Keeps

LEMMA KeepsItself ==
  ASSUME NEW G, NEW P PROVE Keeps(G, P, P)
BY DEF Keeps

LEMMA NothingKeeps ==
  ASSUME NEW G, NEW P, NEW Q, Listed(P) = {} PROVE Keeps(G, P, Q)
BY DEF Keeps

LEMMA LearnedLists ==
  ASSUME NEW r \in Registry, NEW n \in Names, NEW room, NEW s, s = Learned(r, n, room), s # r
  PROVE  /\ ~r.readOnly /\ ~r.restoring /\ s.rev = r.rev + 1
         /\ Listed(r.names) \subseteq Listed(s.names)
<1> DEFINE ns == [r.names EXCEPT ![r.next] = n]
           m  == [r EXCEPT !.names[r.next] = n, !.next = @ + 1]
<1>1. /\ ~r.readOnly /\ ~r.restoring /\ r.next \in Ids /\ s = Advanced(m)
  BY DEF Learned, Writable
<1>2. ns \in Listing /\ \A c \in Ids : ns[c] = IF c = r.next THEN n ELSE r.names[c]
  BY <1>1 DEF Registry, Listing
<1>3. m = [r EXCEPT !.names = ns, !.next = r.next + 1]
  OBVIOUS
<1>4. r.next + 1 \in 1..(MaxId + 1)
  BY <1>1, RegistryAssumption DEF Ids
<1> HIDE DEF ns, m
<1>5. m \in Registry /\ m.names = ns /\ m.rev = r.rev
  BY <1>2, <1>3, <1>4 DEF Registry
<1>6. s.names = ns /\ s.rev = r.rev + 1
  BY <1>1, <1>5, AdvancedIs
<1>7. \A c \in Ids : r.names[c] # NoName => ns[c] # NoName
  BY <1>2, RegistryAssumption
<1>8. QED
  BY <1>1, <1>6, <1>7 DEF Listed

LEMMA RenamedLists ==
  ASSUME NEW r \in Registry, NEW c \in Ids, NEW n \in Names, NEW s, s = Renamed(r, c, n), s # r
  PROVE  /\ ~r.readOnly /\ ~r.restoring /\ s.rev = r.rev + 1
         /\ Listed(r.names) \subseteq Listed(s.names)
<1> DEFINE m == [r EXCEPT !.names[c] = n]
<1>1. ~r.readOnly /\ ~r.restoring /\ s = Advanced(m)
  BY DEF Renamed, Writable
<1>2. /\ m \in Registry /\ m.rev = r.rev
      /\ \A d \in Ids : m.names[d] = IF d = c THEN n ELSE r.names[d]
  BY Relisted
<1> HIDE DEF m
<1>3. s.names = m.names /\ s.rev = r.rev + 1
  BY <1>1, <1>2, AdvancedIs
<1>4. QED
  BY <1>1, <1>2, <1>3, RegistryAssumption DEF Listed

LEMMA RemovedLists ==
  ASSUME NEW r \in Registry, NEW c \in Ids, NEW s, s = Removed(r, c), s # r
  PROVE  /\ ~r.readOnly /\ ~r.restoring /\ s.rev = r.rev + 1
         /\ Listed(r.names) \ {c} \subseteq Listed(s.names)
<1> DEFINE m == [r EXCEPT !.names[c] = NoName]
<1>1. ~r.readOnly /\ ~r.restoring /\ s = Advanced(m)
  BY DEF Removed, Writable
<1>2. /\ m \in Registry /\ m.rev = r.rev
      /\ \A d \in Ids : m.names[d] = IF d = c THEN NoName ELSE r.names[d]
  BY Relisted
<1> HIDE DEF m
<1>3. s.names = m.names /\ s.rev = r.rev + 1
  BY <1>1, <1>2, AdvancedIs
<1>4. QED
  BY <1>1, <1>2, <1>3 DEF Listed

LEMMA ClearedLists ==
  ASSUME NEW r \in Registry, NEW s, s = Cleared(r), s # r
  PROVE  ~r.readOnly /\ s.rev = r.rev + 1
<1> DEFINE m == [r EXCEPT !.names = Nothing, !.restoring = FALSE]
<1>1. ~r.readOnly /\ s = Advanced(m)
  BY DEF Cleared
<1>2. m \in Registry /\ m.rev = r.rev
  BY NothingListed DEF Registry
<1> HIDE DEF m
<1>3. QED
  BY <1>1, <1>2, AdvancedIs

LEMMA DamagedLists ==
  ASSUME NEW r \in Registry, NEW c \in Ids, NEW s, s = Damaged(r, c)
  PROVE  /\ s.readOnly /\ s.rev = r.rev
         /\ Listed(r.names) \ {c} \subseteq Listed(s.names)
         /\ Listed(s.names) \subseteq Listed(r.names)
<1> DEFINE m == [r EXCEPT !.names[c] = NoName]
<1>1. /\ m \in Registry /\ m.rev = r.rev
      /\ \A d \in Ids : m.names[d] = IF d = c THEN NoName ELSE r.names[d]
  BY Relisted
<1>2. s = [m EXCEPT !.readOnly = TRUE]
  BY DEF Damaged
<1> HIDE DEF m
<1>3. s.names = m.names /\ s.readOnly /\ s.rev = r.rev
  BY <1>1, <1>2 DEF Registry
<1>4. QED
  BY <1>1, <1>3 DEF Listed

\* A board somebody other than a restore has written to is still the bridge's only if it was,
\* and then it lost only what is gone, unless it was damaged at the revision that is stored; it
\* grew only under a new revision, and one that is open for a restore was damaged.
Spared(b) ==
  LET r == boards[b]
      s == boards'[b]
  IN  /\ gone \subseteq gone' /\ s.rev >= 1
      /\ s.id = Ours =>
           /\ r.id = Ours /\ ~r.readOnly
           /\ Keeps(gone', r.names, s.names) \/ (s.readOnly /\ s.rev = stored.rev)
           /\ s.rev > r.rev \/ (s.rev = r.rev /\ Listed(s.names) \subseteq Listed(r.names))
           /\ s.readOnly \/ ~r.restoring

LEMMA OthersSpare ==
  ASSUME TypeOK, ~Abandoning, NEW b \in Boards, boards[b].rev >= 1, OtherStep(b)
  PROVE  Spared(b)
<1> DEFINE r == boards[b]
           s == boards'[b]
<1>0. r \in Registry /\ r.rev \in Nat
  BY DEF TypeOK, Registry
<1>1. ASSUME NEW t, Changes(b, t) PROVE s = t /\ t # r
  BY <1>1 DEF Changes, Becomes, TypeOK
<1>2. ASSUME s.rev = r.rev + 1, ~r.readOnly, s.id = r.id, gone \subseteq gone',
             s.id = Ours => Keeps(gone', r.names, s.names), ~r.restoring
      PROVE  Spared(b)
  BY <1>0, <1>2 DEF Spared
<1>3. CASE Learn(b)
  <2>1. PICK n \in Names :
          Changes(b, Learned(r, n, IF Slots[b] < Room[b] THEN Slots[b] ELSE Room[b]))
    BY <1>3 DEF Learn
  <2> DEFINE room == IF Slots[b] < Room[b] THEN Slots[b] ELSE Room[b]
  <2> HIDE DEF room
  <2>2. s = Learned(r, n, room) /\ s # r
    BY <1>1, <2>1 DEF room
  <2>3. s.id = r.id /\ gone' = gone
    <3>1. Edits(r, Learned(r, n, room))
      BY <1>0, LearnedEdits
    <3>2. QED
      BY <1>3, <2>2, <3>1 DEF Edits, Learn
  <2>4. ~r.readOnly /\ ~r.restoring /\ s.rev = r.rev + 1 /\ Listed(r.names) \subseteq Listed(s.names)
    <3> DEFINE t == Learned(r, n, room)
    <3> HIDE DEF t
    <3>1. t # r => /\ ~r.readOnly /\ ~r.restoring /\ t.rev = r.rev + 1
                   /\ Listed(r.names) \subseteq Listed(t.names)
      BY <1>0, LearnedLists DEF t
    <3>2. QED
      BY <2>2, <3>1 DEF t
  <2>5. QED
    BY <1>2, <2>3, <2>4 DEF Keeps
<1>4. CASE Rename(b)
  <2>1. PICK c \in Ids, n \in Names : Changes(b, Renamed(r, c, n))
    BY <1>4 DEF Rename
  <2>2. s = Renamed(r, c, n) /\ s # r
    BY <1>1, <2>1
  <2>3. s.id = r.id /\ gone' = gone
    BY <1>0, <1>4, <2>2, RenamedEdits DEF Edits, Rename
  <2>4. ~r.readOnly /\ ~r.restoring /\ s.rev = r.rev + 1 /\ Listed(r.names) \subseteq Listed(s.names)
    BY <1>0, <2>2, RenamedLists
  <2>5. QED
    BY <1>2, <2>3, <2>4 DEF Keeps
<1>5. CASE Remove(b)
  <2>1. PICK c \in Listed(r.names) : Changes(b, Removed(r, c)) /\ Forgotten(b, {c})
    BY <1>5 DEF Remove
  <2>2. s = Removed(r, c) /\ s # r /\ c \in Ids
    BY <1>1, <2>1 DEF Listed
  <2>3. s.id = r.id
    BY <1>0, <2>2, RemovedEdits DEF Edits
  <2>4. ~r.readOnly /\ ~r.restoring /\ s.rev = r.rev + 1
        /\ Listed(r.names) \ {c} \subseteq Listed(s.names)
    BY <1>0, <2>2, RemovedLists
  <2>5. gone \subseteq gone' /\ (r.id = Ours => gone' = gone \cup {c})
    BY <2>1 DEF Forgotten
  <2>6. QED
    BY <1>2, <2>3, <2>4, <2>5 DEF Keeps
<1>6. CASE Clear(b)
  <2>1. s = Cleared(r) /\ s # r /\ ~r.restoring
    BY <1>1, <1>6 DEF Clear
  <2>2. s.id = r.id
    BY <1>0, <2>1, ClearedEdits DEF Edits
  <2>3. ~r.readOnly /\ s.rev = r.rev + 1
    BY <1>0, <2>1, ClearedLists
  <2>4. gone \subseteq gone' /\ (r.id = Ours => gone' = gone \cup Listed(r.names))
    BY <1>6 DEF Clear, Forgotten
  <2>5. QED
    BY <1>2, <2>1, <2>2, <2>3, <2>4 DEF Keeps
<1>7. CASE FactoryReset(b)
  <2>1. PICK i \in Identities \ {Ours} : Changes(b, Minted(i))
    BY <1>7 DEF FactoryReset
  <2>2. s = Minted(i) /\ gone' = gone
    BY <1>1, <1>7, <2>1 DEF FactoryReset
  <2>3. s.id # Ours /\ s.rev = 1
    BY <2>2, MintedIsRegistry DEF Minted
  <2>4. QED
    BY <2>2, <2>3 DEF Spared
<1>8. CASE Damage(b)
  <2>1. PICK c \in Listed(r.names) :
          /\ Changes(b, Damaged(r, c)) /\ ~r.readOnly
          /\ IF stored.rev = r.rev THEN UNCHANGED gone ELSE Forgotten(b, {c})
    BY <1>8 DEF Damage
  <2>2. s = Damaged(r, c) /\ c \in Ids
    BY <1>1, <2>1 DEF Listed
  <2>3. s.id = r.id
    BY <1>0, <2>2, DamagedEdits DEF Edits
  <2>4. /\ s.readOnly /\ s.rev = r.rev
        /\ Listed(r.names) \ {c} \subseteq Listed(s.names)
        /\ Listed(s.names) \subseteq Listed(r.names)
    BY <1>0, <2>2, DamagedLists
  <2>5. gone \subseteq gone' /\ (r.id = Ours /\ stored.rev # r.rev => gone' = gone \cup {c})
    BY <2>1 DEF Forgotten
  <2>6. s.id = Ours => Keeps(gone', r.names, s.names) \/ (s.readOnly /\ s.rev = stored.rev)
    BY <2>3, <2>4, <2>5 DEF Keeps
  <2>7. QED
    BY <1>0, <2>1, <2>3, <2>4, <2>5, <2>6 DEF Spared
<1>9. QED
  BY <1>3, <1>4, <1>5, <1>6, <1>7, <1>8 DEF OtherStep

\* What is shown is on a board, which lists only what it has given.
LEMMA ShownNumbered ==
  ASSUME TypeOK, BoardsKeep, BoardsWhole', NEW b \in Boards, NEW s \in Registry, Becomes(b, s)
  PROVE  \A p \in published' : Listed(p.names) \subseteq 1..(p.next - 1)
<1>1. boards'[b] = s
  BY ItBecomes
<1>2. Listed(s.names) \subseteq 1..(s.next - 1)
  BY <1>1 DEF BoardsWhole, BoardWhole
<1>3. CopyOf(s).names = s.names /\ CopyOf(s).next = s.next
  BY CopyOfIsCopy
<1>4. \A p \in published' : p \in published \/ p = CopyOf(s)
  BY DEF Becomes
<1>5. QED
  BY <1>2, <1>3, <1>4 DEF BoardsKeep

LEMMA WrittenKeeps ==
  ASSUME TypeOK, AdvanceInv, KeptInv, BoardsWhole', ~Abandoning,
         NEW b \in Boards, OtherStep(b)
  PROVE  KeptInv'
<1> DEFINE r == boards[b]
           t == boards'[b]
<1>0. /\ CopiesKeep /\ BoardsKeep /\ RefreshesKeep /\ FlowKeeps /\ OneStands /\ NotAhead /\ InOrder
      /\ r \in Registry /\ r.rev >= 1
  BY DEF AdvanceInv, KeptInv, BoardsKeep, TypeOK
<1>1. Spared(b)
  BY <1>0, OthersSpare
<1>2. PICK s \in Registry : Written(b, s)
  BY OthersWrite
<1>3. /\ s = t /\ t \in Registry /\ Becomes(b, t)
      /\ \A o \in Boards : boards'[o] = IF o = b THEN t ELSE boards[o]
      /\ UNCHANGED <<up, replaced, at, replica, stored, exports>>
      /\ r.restoring => t.restoring \/ t.id # Ours
  BY <1>2, ItBecomes DEF Written, Changes, entryVars, copyVars
<1>4. gone \subseteq gone' /\ t.rev >= 1 /\ Statuses' = Statuses
  BY <1>1, <1>3 DEF Spared, Statuses
\* A board that is still the bridge's, and not damaged at the stored revision, kept all it had.
<1>5. ASSUME Stands(b)', ~t.restoring, ~Frozen(b)'
      PROVE  Stands(b) /\ ~r.restoring /\ ~Frozen(b) /\ Keeps(gone', r.names, t.names)
  BY <1>1, <1>3, <1>5 DEF Spared, Stands, Frozen
<1>6. ASSUME NEW P, Keeps(gone, P, r.names), Keeps(gone', r.names, t.names)
      PROVE  Keeps(gone', P, t.names)
  BY <1>4, <1>6, KeepsMore, KeepsOn
<1>7. CopiesKeep'
  BY <1>0, <1>3, <1>4, KeepsMore DEF CopiesKeep, Loaded
<1>8. BoardsKeep'
  <2>1. \A p \in published' : Listed(p.names) \subseteq 1..(p.next - 1)
    BY <1>0, <1>3, ShownNumbered
  <2>2. \A o \in Boards : boards'[o].rev >= 1
    BY <1>0, <1>3, <1>4 DEF BoardsKeep
  <2>3. ASSUME NEW o \in Boards, Stands(o)', ~boards'[o].restoring, ~Frozen(o)'
        PROVE  Keeps(gone', stored.names, boards'[o].names) /\ Keeps(gone', replica.names, boards'[o].names)
    <3>1. CASE o = b
      BY <1>0, <1>3, <1>5, <1>6, <2>3, <3>1 DEF BoardsKeep
    <3>2. CASE o # b
      <4>1. Stands(o) /\ ~boards[o].restoring /\ ~Frozen(o) /\ boards'[o] = boards[o]
        BY <1>3, <2>3, <3>2 DEF Stands, Frozen
      <4>2. QED
        BY <1>0, <1>4, <4>1, KeepsMore DEF BoardsKeep
    <3>3. QED
      BY <3>1, <3>2
  <2>4. QED
    BY <1>3, <2>1, <2>2, <2>3 DEF BoardsKeep
<1>9. RefreshesKeep'
  <2> SUFFICES ASSUME NEW e \in Statuses
               PROVE  /\ replica.rev <= e.rev => Keeps(gone', replica.names, e.names)
                      /\ \A d \in Statuses : e.rev <= d.rev => Keeps(gone', e.names, d.names)
                      /\ Stands(at)' =>
                           /\ ~Frozen(at)' => Keeps(gone', e.names, boards'[at].names)
                           /\ e.rev = boards'[at].rev =>
                                Listed(boards'[at].names) \subseteq Listed(e.names)
    BY <1>3, <1>4 DEF RefreshesKeep, Stands, Frozen
  <2>1. replica.rev <= e.rev => Keeps(gone', replica.names, e.names)
    BY <1>0, <1>4, KeepsMore DEF RefreshesKeep
  <2>2. \A d \in Statuses : e.rev <= d.rev => Keeps(gone', e.names, d.names)
    BY <1>0, <1>4, KeepsMore DEF RefreshesKeep
  <2>3. at \in Boards
    BY DEF TypeOK, Statuses
  <2>4. CASE at # b
    <3>1. boards'[at] = boards[at] /\ (Stands(at)' => Stands(at)) /\ (Frozen(at) => Frozen(at)')
      BY <1>3, <2>3, <2>4 DEF Stands, Frozen
    <3>2. QED
      BY <1>0, <1>4, <2>1, <2>2, <3>1, KeepsMore DEF RefreshesKeep
  <2>5. CASE at = b
    <3> SUFFICES ASSUME Stands(b)'
                 PROVE  /\ ~Frozen(b)' => Keeps(gone', e.names, t.names)
                        /\ e.rev = t.rev => Listed(t.names) \subseteq Listed(e.names)
      BY <1>3, <2>1, <2>2, <2>5 DEF Stands, Frozen
    <3>1. Stands(b) /\ t.id = Ours /\ r.id = Ours
      BY <1>1, <1>3 DEF Stands, Spared
    <3>2. PICK i \in DOMAIN exports : e = exports[i].status
      BY DEF Statuses
    <3>3. e.rev <= r.rev /\ e.rev \in Nat /\ r.rev \in Nat /\ t.rev \in Nat
      BY <1>0, <1>3, <2>5, <3>1, <3>2, Revisions DEF InOrder, NotBehind, Refresh, Registry
    <3>4. e.rev = t.rev => Listed(t.names) \subseteq Listed(e.names)
      BY <1>0, <1>1, <2>5, <3>1, <3>3 DEF RefreshesKeep, Spared
    <3>5. ~Frozen(b)' => Keeps(gone', e.names, t.names)
      <4> SUFFICES ASSUME ~Frozen(b)' PROVE Keeps(gone', e.names, t.names)
        OBVIOUS
      <4>1. ~Frozen(b) /\ Keeps(gone', r.names, t.names)
        BY <1>1, <1>3, <3>1 DEF Spared, Frozen
      <4>2. Keeps(gone, e.names, r.names)
        BY <1>0, <2>5, <3>1, <4>1 DEF RefreshesKeep
      <4>3. QED
        BY <1>6, <4>1, <4>2
    <3>6. QED
      BY <3>4, <3>5
  <2>6. QED
    BY <2>4, <2>5
<1>10. FlowKeeps'
  <2>1. /\ flow'.st = flow.st /\ flow'.board = flow.board /\ flow'.copy = flow.copy
        /\ flow'.todo = flow.todo /\ flow.board \in Boards
    BY <1>2 DEF Written, Changes, TypeOK, Flow
  <2> SUFFICES ASSUME Restoring PROVE FlowKeeps'
    BY <2>1 DEF FlowKeeps, Restoring
  <2>2. /\ Keeps(gone', stored.names, flow.copy.names) /\ Keeps(gone', replica.names, flow.copy.names)
        /\ Listed(flow.copy.names) \subseteq 1..(flow.copy.next - 1)
        /\ Count(flow.copy.names) <= Slots[flow.board]
        /\ flow.st = "begin" => flow.todo = Listed(flow.copy.names)
    BY <1>0, <1>4, KeepsMore DEF FlowKeeps
  <2>3. ASSUME flow.st = "import", boards'[flow.board].id = Ours, ~boards'[flow.board].readOnly
        PROVE  boards'[flow.board] = boards[flow.board]
    <3>1. flow.board # b
      BY <1>0, <1>1, <2>3 DEF Spared, OneStands
    <3>2. QED
      BY <1>3, <2>1, <3>1
  <2>4. QED
    BY <1>0, <1>3, <1>4, <2>1, <2>2, <2>3 DEF FlowKeeps, Restoring
<1>11. QED
  BY <1>7, <1>8, <1>9, <1>10 DEF KeptInv

\* The replica takes on a copy that has everything of the one before, and that the board it was
\* read from and the refreshes after it have everything of.
LEMMA ReplicaKeeps ==
  ASSUME TypeOK, WholeInv, AdvanceInv, KeptInv,
         at \in up, at \in Boards, boards[at].id = Ours, ~boards[at].restoring,
         UNCHANGED <<boards, at, stored, replaced, flow, published, gone>>,
         Statuses' \subseteq Statuses,
         Keeps(gone, replica.names, replica'.names),
         ~Frozen(at) => Keeps(gone, replica'.names, boards[at].names),
         \A e \in Statuses : replica'.rev <= e.rev => Keeps(gone, replica'.names, e.names)
  PROVE  KeptInv'
<1>0. CopiesKeep /\ BoardsKeep /\ RefreshesKeep /\ OneStands
  BY DEF KeptInv, AdvanceInv
<1>1. Stands(at) /\ ~Restoring /\ \A b \in Boards : Stands(b) => b = at
  BY <1>0, ReadStands DEF OneStands
<1>2. CopiesKeep'
  BY <1>0, KeepsOn, ReplicaAssumption DEF CopiesKeep, Loaded
<1>3. BoardsKeep'
  BY <1>0, <1>1 DEF BoardsKeep, Stands, Frozen
<1>4. RefreshesKeep'
  BY <1>0 DEF RefreshesKeep, Stands, Frozen
<1>5. FlowKeeps'
  BY <1>1 DEF FlowKeeps, Restoring
<1>6. QED
  BY <1>2, <1>3, <1>4, <1>5 DEF KeptInv

\* A board that was damaged at the revision that is stored is not read again.
LEMMA FrozenUnread ==
  ASSUME TypeOK, WholeInv, AdvanceInv, KeptInv, Poll
  PROVE  ~Frozen(at)
<1>1. /\ Refreshable(boards[at]) /\ at \in up /\ at \in Boards /\ boards[at] \in Registry
      /\ Stands(at) /\ ~boards[at].restoring
  BY Polled, ReadStands DEF Poll, AdvanceInv
<1>2. /\ stored.rev <= replica.rev /\ replica.rev <= boards[at].rev /\ boards[at].rev >= 1
      /\ stored.rev \in Nat /\ replica.rev \in Nat /\ boards[at].rev \in Nat
  BY <1>1, Revisions, ReplicaAssumption DEF AdvanceInv, NotAhead, KeptInv, BoardsKeep, Loaded
<1>3. ASSUME Frozen(at) PROVE replica.rev = boards[at].rev /\ replica # NoCopy
  BY <1>2, <1>3, NoCopyIsCopy DEF Frozen
<1>4. QED
  BY <1>1, <1>3 DEF Refreshable

LEMMA PollKeeps ==
  ASSUME TypeOK, WholeInv, AdvanceInv, KeptInv, Poll
  PROVE  KeptInv'
<1> DEFINE s == boards[at]
<1>0. /\ CopiesKeep /\ BoardsKeep /\ RefreshesKeep /\ OneStands /\ InOrder
      /\ at \in up /\ at \in Boards /\ s \in Registry /\ s.id = Ours /\ ~s.restoring
      /\ UNCHANGED <<boards, at, stored, replaced, flow, published, gone>>
      /\ exports \in Seq(Refresh) /\ ~Frozen(at)
  BY Polled, FrozenUnread DEF AdvanceInv, KeptInv, Poll, boardVars, entryVars, TypeOK
<1>1. Stands(at) /\ ~Restoring
  BY <1>0, ReadStands
<1>2. Keeps(gone, stored.names, s.names) /\ Keeps(gone, replica.names, s.names)
  BY <1>0, <1>1 DEF BoardsKeep
<1>3. CASE Listed(s.names) = {} /\ replica' = CopyOf(s) /\ exports' = exports
  <2>1. replica'.names = s.names /\ Statuses' = Statuses
    BY <1>0, <1>3, CopyOfIsCopy DEF Statuses
  <2>2. QED
    BY <1>0, <1>2, <1>3, <2>1, KeepsItself, NothingKeeps, ReplicaKeeps
<1>4. CASE exports' = Append(exports, Begun(s)) /\ replica' = replica
  <2>1. Begun(s) \in Refresh /\ Begun(s).status = s
    BY <1>0, BegunIsRefresh
  <2>2. Statuses' \subseteq Statuses \cup {s}
    BY <1>0, <1>4, <2>1, QueueGrows DEF Statuses
  <2>3. ASSUME NEW d \in Statuses
        PROVE  /\ Keeps(gone, d.names, s.names)
               /\ s.rev <= d.rev => Keeps(gone, s.names, d.names)
    <3>1. PICK i \in DOMAIN exports : d = exports[i].status
      BY DEF Statuses
    <3>2. d.rev <= s.rev /\ d.rev \in Nat /\ s.rev \in Nat
      BY <1>0, <3>1, Revisions DEF InOrder, NotBehind, Refresh, Registry
    <3>3. Keeps(gone, d.names, s.names)
      BY <1>0, <1>1 DEF RefreshesKeep
    <3>4. s.rev <= d.rev => Listed(s.names) \subseteq Listed(d.names)
      BY <1>0, <1>1, <3>2 DEF RefreshesKeep
    <3>5. QED
      BY <3>3, <3>4 DEF Keeps
  <2>4. RefreshesKeep'
    <3> SUFFICES ASSUME NEW e \in Statuses \cup {s}
                 PROVE  /\ replica.rev <= e.rev => Keeps(gone, replica.names, e.names)
                        /\ \A d \in Statuses \cup {s} : e.rev <= d.rev => Keeps(gone, e.names, d.names)
                        /\ ~Frozen(at) => Keeps(gone, e.names, s.names)
                        /\ e.rev = s.rev => Listed(s.names) \subseteq Listed(e.names)
      BY <1>0, <1>4, <2>2 DEF RefreshesKeep, Stands, Frozen
    <3>1. CASE e = s
      BY <1>2, <2>3, <3>1, KeepsItself
    <3>2. CASE e \in Statuses
      BY <1>0, <1>1, <2>3, <3>2 DEF RefreshesKeep
    <3>3. QED
      BY <3>1, <3>2
  <2>5. CopiesKeep' /\ BoardsKeep' /\ FlowKeeps'
    BY <1>0, <1>1, <1>4 DEF CopiesKeep, BoardsKeep, FlowKeeps, Loaded, Stands, Frozen, Restoring
  <2>6. QED
    BY <2>4, <2>5 DEF KeptInv
<1>5. QED
  BY <1>3, <1>4, Polled

LEMMA AnswerKeeps ==
  ASSUME TypeOK, WholeInv, AdvanceInv, KeptInv, AnswerExport
  PROVE  KeptInv'
<1>0. /\ CopiesKeep /\ BoardsKeep /\ RefreshesKeep /\ FlowKeeps /\ InOrder
      /\ exports # <<>> /\ at \in Boards /\ Head(exports) \in Refresh
      /\ UNCHANGED <<boards, at, stored, replaced, flow, published, gone>>
      /\ exports \in Seq(Refresh)
  BY Answered DEF AdvanceInv, KeptInv, AnswerExport, boardVars, entryVars, TypeOK
<1>1. /\ Tail(exports) \in Seq(Refresh) /\ Head(exports) = exports[1] /\ 1 \in DOMAIN exports
      /\ \A i \in DOMAIN Tail(exports) : i + 1 \in DOMAIN exports /\ Tail(exports)[i] = exports[i + 1]
  BY <1>0, QueueMovesUp, QueueProperties
<1>2. Head(exports).status \in Statuses
  BY <1>1 DEF Statuses
<1>3. ASSUME Statuses' \subseteq Statuses, replica' = replica PROVE KeptInv'
  <2>1. CopiesKeep' /\ BoardsKeep' /\ FlowKeeps'
    BY <1>0, <1>3 DEF CopiesKeep, BoardsKeep, FlowKeeps, Loaded, Stands, Frozen, Restoring
  <2>2. RefreshesKeep'
    BY <1>0, <1>3 DEF RefreshesKeep, Stands, Frozen
  <2>3. QED
    BY <2>1, <2>2 DEF KeptInv
<1>4. exports' = Tail(exports) => Statuses' \subseteq Statuses
  BY <1>1 DEF Statuses
<1>5. CASE Drops
  BY <1>3, <1>4, <1>5 DEF Drops
<1>6. ASSUME NEW c \in Head(exports).todo, at \in up, boards[at].names[c] # NoName,
             GoesOn(Exported(Head(exports), c)) \/ Finishes(Exported(Head(exports), c))
      PROVE  KeptInv'
  <2> DEFINE e == Head(exports)
             f == Exported(e, c)
  <2>1. c \in Ids /\ e \in Refresh /\ c \in e.todo /\ e.status \in Statuses
    BY <1>0, <1>2, <1>6 DEF Refresh
  <2>2. /\ f \in Refresh /\ f.status = e.status /\ f.todo = e.todo \ {c}
        /\ \A d \in Ids : f.got[d] = IF d = c THEN boards[at].names[c] ELSE e.got[d]
    BY <1>0, <2>1, ExportedIs
  <2>3. NotBehind(boards[at], replica.rev, e) /\ RefreshWhole(published, e)
    BY <1>0, <1>1 DEF InOrder, WholeInv, RefreshesWhole
  <2>4. boards[at].id = Ours /\ ~boards[at].restoring /\ c \in Listed(boards[at].names)
    BY <1>0, <1>6, <2>1 DEF WholeInv, RefreshesWhole, Listed
  <2> HIDE DEF e, f
  <2>5. CASE GoesOn(f)
    <3>1. Statuses' \subseteq Statuses
      BY <1>1, <2>1, <2>2, <2>5, QueueGrows DEF GoesOn, Statuses, e
    <3>2. QED
      BY <1>3, <2>5, <3>1 DEF GoesOn
  <2>6. CASE Finishes(f)
    <3>1. /\ exports' = Tail(exports) /\ replica'.rev = e.status.rev /\ replica'.names = f.got
          /\ e.todo = {c}
      BY <2>1, <2>2, <2>6, SnapshotIsCopy DEF Finishes
    <3>2. Listed(f.got) = Listed(e.status.names)
      <4>1. Listed(f.got) = {c} \cup Listed(e.got)
        BY <1>6, <2>1, <2>2 DEF Listed
      <4>2. QED
        BY <2>3, <3>1, <4>1 DEF RefreshWhole
    <3>3. replica.rev <= e.status.rev
      BY <2>3, <2>4, <3>1 DEF NotBehind, Live
    <3>4. Keeps(gone, replica.names, e.status.names)
      BY <1>0, <2>1, <3>3 DEF RefreshesKeep
    <3>5. ~Frozen(at) => Keeps(gone, e.status.names, boards[at].names)
      BY <1>0, <1>6, <2>1, <2>4, ReadStands DEF RefreshesKeep, AdvanceInv
    <3>6. \A d \in Statuses : e.status.rev <= d.rev => Keeps(gone, e.status.names, d.names)
      BY <1>0, <2>1 DEF RefreshesKeep
    <3>7. \A P : /\ Keeps(gone, P, f.got) <=> Keeps(gone, P, e.status.names)
                 /\ Keeps(gone, f.got, P) <=> Keeps(gone, e.status.names, P)
      BY <3>2 DEF Keeps
    <3>8. QED
      BY <1>0, <1>4, <1>6, <2>4, <3>1, <3>4, <3>5, <3>6, <3>7, ReplicaKeeps
  <2>7. QED
    BY <1>6, <2>5, <2>6 DEF e, f
<1>7. QED
  BY <1>5, <1>6, Answered

LEMMA BegunStays ==
  ASSUME NEW r \in Registry, NEW i \in Identities, NEW next \in 1..(MaxId + 1),
         NEW s, s = RestoreBegun(r, i, next)
  PROVE  s.rev >= r.rev
<1>1. CASE s = r
  BY <1>1 DEF Registry
<1>2. CASE s # r
  <2> DEFINE m == [r EXCEPT !.id = i, !.next = next, !.restoring = TRUE]
  <2>1. s = Advanced(m)
    BY <1>2 DEF RestoreBegun
  <2>2. m \in Registry /\ m.rev = r.rev
    BY DEF Registry
  <2> HIDE DEF m
  <2>3. QED
    BY <2>1, <2>2, AdvancedIs DEF Registry
<1>3. QED
  BY <1>1, <1>2

\* An import that changes nothing was refused, for one of the reasons there are.
LEMMA ImportedStays ==
  ASSUME NEW r \in Registry, NEW c \in Ids, NEW n \in Names \cup {NoName}, NEW room,
         NEW s, s = Imported(r, c, n, room)
  PROVE  /\ s.rev >= r.rev /\ s.readOnly = r.readOnly /\ s.id = r.id
         /\ s = r => \/ r.readOnly \/ ~r.restoring \/ ~(c < r.next) \/ c \in Listed(r.names)
                     \/ n \in NamesIn(r.names) \/ ~(Count(r.names) < room)
<1> DEFINE m == [r EXCEPT !.names[c] = n]
<1>1. m \in Registry /\ m.rev = r.rev /\ m.id = r.id /\ m.readOnly = r.readOnly /\ r.rev \in Nat
  <2>1. m \in Registry /\ m.rev = r.rev /\ m.id = r.id
    BY Relisted
  <2>2. m.readOnly = r.readOnly
    BY DEF Registry
  <2>3. QED
    BY <2>1, <2>2 DEF Registry
<1>2. Advanced(m).rev = r.rev + 1 /\ Advanced(m).id = r.id /\ Advanced(m).readOnly = r.readOnly
  <2> HIDE DEF m
  <2>1. Advanced(m).readOnly = m.readOnly
    BY <1>1 DEF Advanced, Registry
  <2>2. QED
    BY <1>1, <2>1, AdvancedIs
<1>3. s = Advanced(m) \/ s = r
  BY DEF Imported
<1>4. Advanced(m) # r
  BY <1>1, <1>2
<1> HIDE DEF m
<1>5. s = r => \/ r.readOnly \/ ~r.restoring \/ ~(c < r.next) \/ c \in Listed(r.names)
               \/ n \in NamesIn(r.names) \/ ~(Count(r.names) < room)
  BY <1>4 DEF Imported, m
<1>6. QED
  BY <1>1, <1>2, <1>3, <1>5

LEMMA CommittedStays ==
  ASSUME NEW r \in Registry, NEW source \in Nat, NEW s, s = RestoreCommitted(r, source)
  PROVE  s.rev >= r.rev /\ (s # r => ~r.readOnly)
<1>1. CASE s = r
  BY <1>1 DEF Registry
<1>2. CASE s # r
  <2> DEFINE rev == IF source > r.rev THEN source ELSE r.rev
             m   == [r EXCEPT !.restoring = FALSE, !.rev = rev]
  <2>1. s = Advanced(m) /\ ~r.readOnly
    BY <1>2 DEF RestoreCommitted
  <2>2. rev \in Nat /\ rev >= r.rev
    BY DEF Registry
  <2> HIDE DEF rev
  <2>3. m \in Registry /\ m.rev = rev
    BY <2>2 DEF Registry
  <2> HIDE DEF m
  <2>4. s.rev = rev + 1 /\ r.rev \in Nat
    BY <2>1, <2>3, AdvancedIs DEF Registry
  <2>5. QED
    BY <2>1, <2>2, <2>4
<1>3. QED
  BY <1>1, <1>2

\* A board that has not yet imported c has room for it.
LEMMA RoomIsLeft ==
  ASSUME NEW P \in Listing, NEW Q \in Listing, NEW todo, NEW c \in todo,
         todo \subseteq Listed(Q), Listed(P) \subseteq Listed(Q) \ todo
  PROVE  Count(P) < Count(Q)
<1>1. Listed(Q) \in SUBSET Ids /\ Listed(P) \in SUBSET Listed(Q)
  BY DEF Listed
<1>2. IsFiniteSet(Listed(Q)) /\ Count(Q) \in Nat
  BY <1>1, ListedIsFinite DEF Count
<1>3. Listed(P) # Listed(Q)
  OBVIOUS
<1>4. Count(P) \in Nat /\ Count(P) <= Count(Q) /\ Count(P) # Count(Q)
  BY <1>1, <1>2, <1>3, FS_Subset, FS_CardinalityType DEF Count
<1>5. QED
  BY <1>2, <1>4

\* A call of a restore turns the registry of its board into s, which lists nothing to those who
\* ask, or everything of the snapshot.
LEMMA RestoredKeeps ==
  ASSUME TypeOK, WholeInv, AdvanceInv, KeptInv, WholeInv', FlowKeeps', flow.board \in Boards,
         NEW s \in Registry, Becomes(flow.board, s), s.rev >= boards[flow.board].rev,
         UNCHANGED <<at, exports, replica, stored>>,
         replaced \subseteq replaced', gone \subseteq gone', Restoring,
         \/ s = boards[flow.board]
         \/ s.restoring
         \/ Keeps(gone', flow.copy.names, s.names),
         s = boards[flow.board] \/ flow.st = "begin" \/ boards[flow.board].restoring
  PROVE  KeptInv'
<1> DEFINE b == flow.board
           r == boards[b]
<1>0. CopiesKeep /\ BoardsKeep /\ RefreshesKeep /\ FlowKeeps /\ r \in Registry
  BY DEF KeptInv, TypeOK
<1>1. \A o \in Boards : boards'[o] = IF o = b THEN s ELSE boards[o]
  BY ItBecomes
<1>2. /\ Keeps(gone', stored.names, flow.copy.names) /\ Keeps(gone', replica.names, flow.copy.names)
      /\ Statuses' = Statuses
  BY <1>0, KeepsMore DEF FlowKeeps, Statuses
<1>3. CopiesKeep'
  BY <1>0, KeepsMore DEF CopiesKeep, Loaded
<1>4. BoardsKeep'
  <2>1. \A p \in published' : Listed(p.names) \subseteq 1..(p.next - 1)
    BY <1>0, ShownNumbered DEF WholeInv
  <2>2. \A o \in Boards : boards'[o].rev >= 1
    BY <1>0, <1>1 DEF BoardsKeep, Registry
  <2>3. ASSUME NEW o \in Boards, Stands(o)', ~boards'[o].restoring, ~Frozen(o)'
        PROVE  Keeps(gone', stored.names, boards'[o].names) /\ Keeps(gone', replica.names, boards'[o].names)
    <3>1. CASE boards'[o] = boards[o]
      <4>1. Stands(o) /\ ~boards[o].restoring /\ ~Frozen(o)
        BY <2>3, <3>1 DEF Stands, Frozen
      <4>2. QED
        BY <1>0, <3>1, <4>1, KeepsMore DEF BoardsKeep
    <3>2. CASE boards'[o] # boards[o]
      <4>1. o = b /\ boards'[o] = s /\ Keeps(gone', flow.copy.names, s.names)
        BY <1>1, <2>3, <3>2
      <4>2. QED
        BY <1>2, <4>1, KeepsOn
    <3>3. QED
      BY <3>1, <3>2
  <2>4. QED
    BY <2>1, <2>2, <2>3 DEF BoardsKeep
<1>5. RefreshesKeep'
  <2>1. exports # <<>> => at \in Boards /\ boards'[at] = boards[at]
    BY <1>1 DEF TypeOK, WholeInv, FlowWhole, RefreshesWhole
  <2> SUFFICES ASSUME NEW e \in Statuses
               PROVE  /\ replica.rev <= e.rev => Keeps(gone', replica.names, e.names)
                      /\ \A d \in Statuses : e.rev <= d.rev => Keeps(gone', e.names, d.names)
                      /\ Stands(at)' =>
                           /\ ~Frozen(at)' => Keeps(gone', e.names, boards'[at].names)
                           /\ e.rev = boards'[at].rev =>
                                Listed(boards'[at].names) \subseteq Listed(e.names)
    BY <1>2 DEF RefreshesKeep, Stands, Frozen
  <2>2. exports # <<>>
    BY DEF Statuses
  <2>3. (Stands(at)' => Stands(at)) /\ (Frozen(at) <=> Frozen(at)') /\ boards'[at] = boards[at]
    BY <2>1, <2>2 DEF Stands, Frozen
  <2>4. QED
    BY <1>0, <2>3, KeepsMore DEF RefreshesKeep
<1>6. QED
  BY <1>3, <1>4, <1>5 DEF KeptInv

LEMMA RestoreKeeps ==
  ASSUME TypeOK, WholeInv, AdvanceInv, KeptInv, WholeInv',
         \A b \in Boards : Slots[b] <= Room[b],
         RestoreBegin \/ RestoreImport \/ RestoreCommit
  PROVE  KeptInv'
<1> DEFINE b == flow.board
           r == boards[b]
           copy == flow.copy
<1>0. /\ BoardsKeep /\ FlowKeeps /\ OneStands
      /\ b \in Boards /\ r \in Registry /\ flow \in Flow /\ copy \in Copy
      /\ UNCHANGED <<at, exports, replica, stored>>
      /\ copy.rev \in Nat /\ copy.next \in 1..(MaxId + 1) /\ Ours \in Identities
      /\ copy.names \in Listing /\ r.names \in Listing /\ Restoring
      /\ flow.todo \subseteq Listed(copy.names)
  BY ReplicaAssumption
  DEF AdvanceInv, KeptInv, TypeOK, Flow, Copy, Registry, RestoreBegin, RestoreImport, RestoreCommit,
      Restoring, WholeInv, FlowWhole, entryVars, copyVars
<1>1. ASSUME NEW s \in Registry, Becomes(b, s)
      PROVE  \A o \in Boards : boards'[o] = IF o = b THEN s ELSE boards[o]
  BY <1>0, <1>1, ItBecomes
<1>2. /\ Keeps(gone, stored.names, copy.names) /\ Keeps(gone, replica.names, copy.names)
      /\ Listed(copy.names) \subseteq 1..(copy.next - 1)
      /\ Count(copy.names) <= Slots[b]
      /\ flow.st = "begin" => flow.todo = Listed(copy.names)
  BY <1>0 DEF FlowKeeps
<1>3. CASE RestoreBegin
  <2> DEFINE s == RestoreBegun(r, Ours, copy.next)
  <2>1. /\ s \in Registry /\ Becomes(b, s) /\ flow.st = "begin" /\ flow'.st = "import"
        /\ flow'.board = b /\ flow'.copy = copy /\ flow'.todo = flow.todo
        /\ gone' = gone /\ replaced \subseteq replaced' /\ s.rev >= r.rev
    BY <1>0, <1>3, RestoreWrites, BegunStays DEF RestoreBegin, Flow
  <2>2. s = r \/ (s.id = Ours /\ s.restoring /\ s.next = copy.next /\ Listed(s.names) = {})
    BY <1>0, BegunIs DEF Listed
  <2>3. r.id # Ours
    BY <2>1 DEF WholeInv, FlowWhole
  <2> HIDE DEF s
  <2>4. boards'[b] = s
    BY <1>0, <1>1, <2>1
  <2>5. FlowKeeps'
    BY <1>0, <1>2, <2>1, <2>2, <2>3, <2>4 DEF FlowKeeps
  <2>6. QED
    BY <1>0, <2>1, <2>2, <2>5, RestoredKeeps
<1>4. CASE RestoreImport
  <2>1. PICK c \in flow.todo :
          /\ Becomes(b, Imported(r, c, copy.names[c], Room[b]))
          /\ flow' = [flow EXCEPT !.todo = @ \ {c}]
          /\ gone' = IF r.restoring /\ copy.names[c] \in NamesIn(r.names) THEN gone \cup {c} ELSE gone
    BY <1>4 DEF RestoreImport
  <2> DEFINE n == copy.names[c]
             s == Imported(r, c, n, Room[b])
  <2>2. c \in Ids /\ n \in Names \cup {NoName} /\ s \in Registry
    BY RestoreWrites
  <2>3. /\ Becomes(b, s) /\ flow.st = "import" /\ flow'.st = "import"
        /\ flow'.board = b /\ flow'.copy = copy /\ flow'.todo = flow.todo \ {c}
        /\ replaced' = replaced /\ gone \subseteq gone'
    BY <1>0, <1>4, <2>1 DEF RestoreImport, Flow
  <2>4. \/ s = r
        \/ /\ r.restoring /\ s.restoring /\ s.next = r.next
           /\ \A d \in Ids : s.names[d] = IF d = c THEN n ELSE r.names[d]
    BY <1>0, <2>2, ImportedIs
  <2>5. /\ s.rev >= r.rev /\ s.readOnly = r.readOnly /\ s.id = r.id
        /\ s = r => \/ r.readOnly \/ ~r.restoring \/ ~(c < r.next) \/ c \in Listed(r.names)
                    \/ n \in NamesIn(r.names) \/ ~(Count(r.names) < Room[b])
    BY <1>0, <2>2, ImportedStays
  <2> HIDE DEF s
  <2>6. boards'[b] = s
    BY <1>0, <1>1, <2>2, <2>3
  <2>7. c \in Listed(copy.names) /\ n # NoName
    BY <1>0 DEF Listed
  <2>8. ASSUME s.id = Ours, ~s.readOnly
        PROVE  /\ s.next = copy.next
               /\ Listed(copy.names) \ gone' \subseteq flow'.todo \cup Listed(s.names)
               /\ Listed(s.names) \subseteq Listed(copy.names) \ flow'.todo
    <3>1. /\ r.id = Ours /\ ~r.readOnly /\ r.restoring /\ r.next = copy.next
          /\ Listed(copy.names) \ gone \subseteq flow.todo \cup Listed(r.names)
          /\ Listed(r.names) \subseteq Listed(copy.names) \ flow.todo
      BY <1>0, <2>3, <2>5, <2>8 DEF FlowKeeps, OneStands
    <3>2. CASE s # r
      <4>1. Listed(s.names) = {c} \cup Listed(r.names) /\ s.next = r.next
        BY <2>2, <2>4, <2>7, <3>2 DEF Listed
      <4>2. QED
        BY <2>3, <2>7, <3>1, <4>1
    <3>3. CASE s = r
      <4>1. c < r.next
        <5>1. c \in 1..(copy.next - 1) /\ copy.next \in Nat
          BY <1>0, <1>2, <2>7, RegistryAssumption
        <5>2. QED
          BY <3>1, <5>1
      <4>2. Count(r.names) < Room[b]
        <5>1. Count(r.names) < Count(copy.names)
          BY <1>0, <3>1, RoomIsLeft
        <5>2. /\ Count(r.names) \in Nat /\ Count(copy.names) \in Nat
              /\ Slots[b] \in Nat /\ Room[b] \in Nat /\ Slots[b] <= Room[b]
          BY <1>0, ListedIsFinite, ReplicaAssumption DEF Count, Listed
        <5>3. QED
          BY <1>2, <5>1, <5>2
      <4>3. c \notin Listed(r.names)
        BY <3>1
      <4>4. gone' = gone \cup {c}
        BY <2>1, <2>5, <3>1, <3>3, <4>1, <4>2, <4>3
      <4>5. QED
        BY <2>3, <3>1, <3>3, <4>4
    <3>4. QED
      BY <3>2, <3>3
  <2>9. FlowKeeps'
    <3>1. Keeps(gone', stored.names, copy.names) /\ Keeps(gone', replica.names, copy.names)
      BY <1>2, <2>3, KeepsMore
    <3>2. QED
      BY <1>0, <1>2, <2>3, <2>6, <2>8, <3>1 DEF FlowKeeps
  <2>10. QED
    BY <1>0, <2>2, <2>3, <2>4, <2>5, <2>9, RestoredKeeps
<1>5. CASE RestoreCommit
  <2> DEFINE s == RestoreCommitted(r, copy.rev)
  <2>1. /\ s \in Registry /\ Becomes(b, s) /\ flow.st = "import" /\ flow'.st = "verify"
        /\ flow.todo = {} /\ replaced' = replaced /\ gone' = gone
        /\ s.rev >= r.rev /\ (s # r => ~r.readOnly)
    BY <1>0, <1>5, RestoreWrites, CommittedStays DEF RestoreCommit, Flow
  <2>2. s = r \/ (r.restoring /\ s.names = r.names)
    BY <1>0, CommittedIs
  <2> HIDE DEF s
  <2>3. FlowKeeps'
    BY <2>1 DEF FlowKeeps, Restoring
  <2>4. r.restoring => r.id = Ours
    BY <1>0 DEF WholeInv, BoardsWhole, BoardWhole
  <2>5. s = r \/ Keeps(gone', copy.names, s.names)
    BY <1>0, <2>1, <2>2, <2>4 DEF FlowKeeps, Keeps
  <2>6. QED
    BY <1>0, <2>1, <2>2, <2>3, <2>5, RestoredKeeps
<1>6. QED
  BY <1>3, <1>4, <1>5

LEMMA KeptStep ==
  ASSUME ~Abandoning, \A b \in Boards : Slots[b] <= Room[b]
  PROVE  TypeOK /\ WholeInv /\ AdvanceInv /\ KeptInv /\ [Next]_vars => KeptInv'
<1> SUFFICES ASSUME TypeOK, WholeInv, AdvanceInv, KeptInv, [Next]_vars PROVE KeptInv'
  OBVIOUS
<1>0. /\ CopiesKeep /\ BoardsKeep /\ RefreshesKeep /\ FlowKeeps /\ OneStands /\ NotAhead
      /\ flow \in Flow /\ WholeInv'
  BY WholeStep DEF KeptInv, AdvanceInv, TypeOK
\* Nothing but the flow and the power of a board is touched.
<1>1. ASSUME UNCHANGED <<boards, at, exports, replica, stored, replaced, published, gone>>, FlowKeeps'
      PROVE  KeptInv'
  <2>1. CopiesKeep' /\ BoardsKeep'
    BY <1>0, <1>1 DEF CopiesKeep, BoardsKeep, Loaded, Stands, Frozen
  <2>2. RefreshesKeep'
    BY <1>0, <1>1 DEF RefreshesKeep, Statuses, Stands, Frozen
  <2>3. QED
    BY <1>1, <2>1, <2>2 DEF KeptInv
<1>2. ASSUME UNCHANGED <<boards, at, exports, replica, stored, replaced, published, gone>>,
             flow' = flow \/ flow'.st \notin {"begin", "import"}
      PROVE  KeptInv'
  BY <1>0, <1>1, <1>2 DEF FlowKeeps, Restoring
<1>3. CASE Save
  <2>1. /\ UNCHANGED <<boards, at, exports, replica, replaced, published, gone, flow>>
        /\ stored' = replica /\ Loaded /\ Keeps(gone, stored.names, replica.names)
    BY <1>0, <1>3 DEF Save, CopiesKeep, boardVars, entryVars
  \* What is frozen stays frozen: the replica is not ahead of it, nor behind what is stored.
  <2>2. ASSUME NEW b \in Boards, Stands(b), ~boards[b].restoring, Frozen(b)
        PROVE  boards[b].readOnly /\ boards[b].rev = replica.rev
    <3>1. stored.rev <= replica.rev /\ replica.rev <= boards[b].rev
      BY <1>0, <2>1, <2>2 DEF NotAhead
    <3>2. stored.rev \in Nat /\ replica.rev \in Nat /\ boards[b].rev \in Nat
      BY Revisions
    <3>3. QED
      BY <2>2, <3>1, <3>2 DEF Frozen
  <2>3. CopiesKeep'
    BY <2>1, KeepsItself DEF CopiesKeep
  <2>4. BoardsKeep'
    BY <1>0, <2>1, <2>2 DEF BoardsKeep, Stands, Frozen
  <2>5. RefreshesKeep'
    <3>1. exports # <<>> => at \in Boards /\ ~boards[at].restoring
      BY <2>1, ReplicaAssumption DEF TypeOK, Loaded, WholeInv, RefreshesWhole
    <3>2. Statuses' = Statuses /\ (Statuses # {} => exports # <<>>)
      BY <2>1 DEF Statuses
    <3>3. exports # <<>> /\ Stands(at) /\ Frozen(at) => Frozen(at)'
      BY <2>1, <2>2, <3>1 DEF Frozen
    <3>4. QED
      BY <1>0, <2>1, <3>1, <3>2, <3>3 DEF RefreshesKeep, Stands
  <2>6. FlowKeeps'
    BY <1>0, <2>1 DEF FlowKeeps, Restoring
  <2>7. QED
    BY <2>3, <2>4, <2>5, <2>6 DEF KeptInv
<1>4. CASE Load \/ Reload \/ HomeAssistantRestarts
  <2>1. /\ UNCHANGED <<boards, replaced, stored, published, gone>> /\ exports' = <<>>
        /\ flow' = flow \/ flow' = NoFlow
        /\ \/ replica' = stored
           \/ replica' = NoCopy /\ at' = Nobody
    BY <1>4 DEF Load, Reload, HomeAssistantRestarts, Unloaded, Loaded, boardVars, TypeOK
  <2>2. \A P : Keeps(gone, stored.names, P) => Keeps(gone, replica'.names, P)
    BY <2>1, NoCopyIsCopy, NothingListed, NothingKeeps
  <2>3. CopiesKeep'
    BY <2>1, KeepsItself DEF CopiesKeep, Loaded
  <2>4. BoardsKeep'
    BY <1>0, <2>1, <2>2 DEF BoardsKeep, Stands, Frozen
  <2>5. RefreshesKeep'
    BY <2>1 DEF RefreshesKeep, Statuses
  <2>6. FlowKeeps'
    <3>1. flow' = NoFlow => ~Restoring'
      BY NoFlowIsFlow DEF Restoring
    <3>2. CASE flow' = flow
      BY <1>0, <2>1, <2>2, <3>2 DEF FlowKeeps, Restoring
    <3>3. QED
      BY <2>1, <3>1, <3>2 DEF FlowKeeps
  <2>7. QED
    BY <2>3, <2>4, <2>5, <2>6 DEF KeptInv
<1>5. ASSUME NEW b \in Boards, Reconfigure(b) PROVE KeptInv'
  <2>1. UNCHANGED <<boards, at, exports, replica, stored, replaced, published, gone>>
    BY <1>5 DEF Reconfigure, boardVars, copyVars
  <2>2. flow'.st \in {"idle", "offered"}
    BY <1>5, NoFlowIsFlow DEF Reconfigure, NoFlow
  <2>3. QED
    BY <1>2, <2>1, <2>2
<1>6. CASE Confirm
  <2>1. UNCHANGED <<boards, at, exports, replica, stored, replaced, published, gone>>
    BY <1>6 DEF Confirm, boardVars, copyVars, entryVars
  <2>2. CASE flow' = NoFlow
    BY <1>2, <2>1, <2>2, NoFlowIsFlow
  <2>3. CASE /\ Loaded /\ replica # NoCopy /\ Accepts(flow.board, replica)
             /\ flow' = [flow EXCEPT !.st = "begin", !.copy = replica, !.todo = Listed(replica.names)]
    <3>1. /\ flow'.st = "begin" /\ flow'.board = flow.board /\ flow'.copy = replica
          /\ flow'.todo = Listed(replica.names)
      BY <1>0, <2>3 DEF Flow
    <3>2. Keeps(gone, stored.names, replica.names) /\ Keeps(gone, replica.names, replica.names)
      BY <1>0, <2>3, KeepsItself DEF CopiesKeep
    <3>3. Listed(replica.names) \subseteq 1..(replica.next - 1)
      <4>1. PICK p \in published : p.next = replica.next /\ Listed(p.names) = Listed(replica.names)
        BY <2>3 DEF WholeInv, CopiesWhole, WholeIn, ShownIn
      <4>2. QED
        BY <1>0, <4>1 DEF BoardsKeep
    <3>4. FlowKeeps'
      BY <2>1, <2>3, <3>1, <3>2, <3>3 DEF FlowKeeps, Accepts
    <3>5. QED
      BY <1>1, <2>1, <3>4
  <2>4. QED
    BY <1>6, <2>2, <2>3 DEF Confirm
<1>7. CASE Dismiss \/ RestoreStops \/ RestoreVerify
  <2>1. UNCHANGED <<boards, at, exports, replica, stored, replaced, published, gone>>
    BY <1>7 DEF Dismiss, RestoreStops, RestoreVerify, boardVars, copyVars, entryVars
  <2>2. flow' = NoFlow \/ flow' = [flow EXCEPT !.st = "restored"]
    BY <1>7 DEF Dismiss, RestoreStops, RestoreVerify
  <2>3. flow'.st \in {"idle", "restored"}
    BY <1>0, <2>2, NoFlowIsFlow DEF Flow
  <2>4. QED
    BY <1>2, <2>1, <2>3
<1>8. ASSUME NEW b \in Boards, GoesDown(b) \/ ComesUp(b) PROVE KeptInv'
  BY <1>2, <1>8 DEF GoesDown, ComesUp, boardVars, copyVars, entryVars
<1>9. ASSUME NEW b \in Boards, OtherStep(b) PROVE KeptInv'
  BY <1>0, <1>9, WrittenKeeps DEF WholeInv
<1>10. CASE UNCHANGED vars
  BY <1>2, <1>10 DEF vars, boardVars, copyVars, entryVars
<1>11. QED
  BY <1>0, <1>3, <1>4, <1>5, <1>6, <1>7, <1>8, <1>9, <1>10, PollKeeps, AnswerKeeps, RestoreKeeps
  DEF Next, OtherStep

LEMMA KeptInit == Init => KeptInv
<1> SUFFICES ASSUME Init PROVE KeptInv
  OBVIOUS
<1>1. /\ stored = NoCopy /\ replica = NoCopy /\ flow = NoFlow /\ exports = <<>>
      /\ published = {CopyOf(boards[First])} /\ First \in Boards
  BY ReplicaAssumption DEF Init
<1>2. /\ boards \in [Boards -> Registry] /\ BoardsWhole
  BY TypeInit, WholeInit DEF TypeOK, WholeInv
<1>3. \A b \in Boards : boards[b].rev >= 1
  <2>1. PICK k \in 0..MaxId, names \in Listing :
          boards \in [Boards -> {[Minted(Ours) EXCEPT !.names = names, !.next = k + 1, !.rev = k + 4]}
                                \cup {Minted(i) : i \in Identities \ {Ours}}]
    BY DEF Init
  <2>2. k + 4 >= 1 /\ [Minted(Ours) EXCEPT !.names = names, !.next = k + 1, !.rev = k + 4].rev = k + 4
    BY RegistryAssumption DEF Minted
  <2>3. \A i \in Identities : Minted(i).rev >= 1
    BY DEF Minted
  <2>4. QED
    BY <2>1, <2>2, <2>3
<1>4. \A P, Q : Keeps(P, NoCopy.names, Q)
  BY NoCopyIsCopy, NothingListed, NothingKeeps
<1>5. \A p \in published : Listed(p.names) \subseteq 1..(p.next - 1)
  BY <1>1, <1>2, CopyOfIsCopy DEF BoardsWhole, BoardWhole
<1>6. CopiesKeep /\ BoardsKeep /\ RefreshesKeep
  BY <1>1, <1>3, <1>4, <1>5 DEF CopiesKeep, BoardsKeep, RefreshesKeep, Statuses
<1>7. FlowKeeps
  BY <1>1, NoFlowIsFlow DEF FlowKeeps, Restoring
<1>8. QED
  BY <1>6, <1>7 DEF KeptInv

\* Where no interrupted restore is given up by clearing the board, and every board has room for
\* as many waveforms as it has slots, what is stored keeps every command that was not removed
\* from the bridge on request: refreshes that overlap, a restore that stops half-way and is
\* refused in silence, a damaged flash, a reset and other hardware under the entry take none
\* away (async_refresh, which reads neither other hardware nor a restore under way).
THEOREM CommandsAreKept ==
  ASSUME ~Abandoning, \A b \in Boards : Slots[b] <= Room[b]
  PROVE  Spec => CommandsKept
<1> DEFINE A == [\A c \in Listed(stored.names) \ gone : c \in Listed(stored'.names)]_vars
<1>1. KeptInv /\ [Next]_vars => A
  <2> SUFFICES ASSUME KeptInv, [Next]_vars
               PROVE  \A c \in Listed(stored.names) \ gone : c \in Listed(stored'.names)
    OBVIOUS
  <2>1. CASE Save
    BY <2>1 DEF Save, KeptInv, CopiesKeep, Keeps
  <2>2. CASE ~Save
    <3>1. ASSUME NEW b \in Boards, OtherStep(b) PROVE stored' = stored
      BY <3>1 DEF OtherStep, Learn, Rename, Remove, Clear, FactoryReset, Damage, Changes, copyVars
    <3>2. stored' = stored
      BY <2>2, <3>1
      DEF Next, OtherStep, Poll, AnswerExport, Load, Reload, HomeAssistantRestarts, Confirm,
          Dismiss, RestoreBegin, RestoreImport, RestoreCommit, RestoreVerify, RestoreStops,
          Reconfigure, GoesDown, ComesUp, vars, copyVars
    <3>3. QED
      BY <3>2
  <2>3. QED
    BY <2>1, <2>2
<1>2. TypeOK /\ WholeInv /\ AdvanceInv /\ [Next]_vars => AdvanceInv'
  BY AdvanceStep
<1>3. TypeOK /\ WholeInv /\ AdvanceInv /\ KeptInv /\ [Next]_vars => KeptInv'
  BY KeptStep
<1>4. QED
  BY <1>1, <1>2, <1>3, AdvanceInit, KeptInit, WholeAlways, PTL DEF Spec, CommandsKept
=============================================================================
