------------------------ MODULE ConsumerGroupsProofs ------------------------
(***************************************************************************)
(* Proofs about ConsumerGroups, for any number of groups, consumers,       *)
(* entries and counts.  The delivery properties hold as long as no caller  *)
(* uses XCLAIM ... FORCE; with FORCE the run GroupsForce refutes them.     *)
(***************************************************************************)
EXTENDS ConsumerGroups, FiniteSetTheorems, TLAPS

\* The order on ids.
LEMMA AtMostReflexive == \A a : AtMost(a, a)
BY DEF AtMost

\* 0-0 is the least id.
LEMMA ZeroIsLeast == \A a \in StreamId : AtMost(Zero, a)
BY ConstantsAssumption DEF AtMost, Before, Zero, StreamId

\* 0-0 is an id.
LEMMA ZeroIsAnId == Zero \in StreamId
BY ConstantsAssumption DEF Zero, StreamId

\* The order of ids is transitive.
LEMMA AtMostTransitive ==
    \A a, b, c \in StreamId : AtMost(a, b) /\ AtMost(b, c) => AtMost(a, c)
BY ConstantsAssumption DEF AtMost, Before, StreamId

\* Its strict part is strict.
LEMMA BeforeIsStrict ==
    \A a, b \in StreamId : Before(a, b) <=> ~ AtMost(b, a)
BY ConstantsAssumption DEF AtMost, Before, StreamId

\* The strict order is part of the order.
LEMMA BeforeImpliesAtMost == \A a, b : Before(a, b) => AtMost(a, b)
BY DEF AtMost

\* The ids XADD generates are ids, and never 0-0.
LEMMA AutoIdType ==
    ASSUME lastId \in StreamId, NEW ms \in 1 .. MaxMs
    PROVE  AutoId(ms) \in StreamId /\ AutoId(ms) # Zero
<1>1. CASE ms > lastId[1]
  BY <1>1, ConstantsAssumption DEF AutoId, StreamId, Zero
<1>2. CASE ~ (ms > lastId[1])
  <2>1. lastId[1] \in 1 .. MaxMs /\ lastId[2] \in 0 .. MaxSeq
    BY <1>2, ConstantsAssumption DEF StreamId
  <2>2. (lastId[2] + 1) % (MaxSeq + 1) \in 0 .. MaxSeq
    BY <2>1, ConstantsAssumption
  <2> QED  BY <1>2, <2>1, <2>2, ConstantsAssumption DEF AutoId, StreamId, Zero
<1> QED  BY <1>1, <1>2

\* An explicit id above the last one is not 0-0.
LEMMA ExplicitIsNotZero ==
    ASSUME lastId \in StreamId, NEW id \in ExplicitIds, Before(lastId, id)
    PROVE  id \in StreamId /\ id # Zero
<1>1. id \in StreamId
  BY ConstantsAssumption
<1>2. AtMost(Zero, lastId)
  BY ZeroIsLeast
<1> QED  BY <1>1, <1>2, BeforeIsStrict, ZeroIsAnId

-----------------------------------------------------------------------------
\* What holds of one group: the properties, and what makes them inductive.
\* PELs and acknowledged ids lie at or below last_delivered_id, so that a ">"
\* read, which delivers what lies above it, can never deliver an id again; and
\* what an XAUTOCLAIM scan still owes lies at or above its cursor.
GroupOK(g) ==
    /\ \A c \in Consumers : old[g][c] \subseteq pel[g][c]
    /\ \A c, d \in Consumers : c # d => pel[g][c] \intersect pel[g][d] = {}
    /\ \A i \in seen[g] : i \in acked[g] \/ \E c \in Consumers : i \in pel[g][c]
    /\ \A c \in Consumers : acked[g] \intersect pel[g][c] = {}
    /\ \A c \in Consumers : \A i \in pel[g][c] :
            i # Zero /\ AtMost(i, delivered[g])
    /\ \A i \in acked[g] : AtMost(i, delivered[g])
    /\ \A i \in due[g] : AtMost(cursor[g], i) /\ \E c \in Consumers : i \in old[g][c]
    /\ cursor[g] = Zero => due[g] = {}

Types ==
    /\ exists \in BOOLEAN
    /\ entries \subseteq StreamId
    /\ lastId \in StreamId
    /\ groups \subseteq Groups
    /\ delivered \in [Groups -> StreamId]
    /\ pel \in [Groups -> [Consumers -> SUBSET StreamId]]
    /\ old \in [Groups -> [Consumers -> SUBSET StreamId]]
    /\ added \subseteq StreamId
    /\ start \in [Groups -> StreamId]
    /\ seen \in [Groups -> SUBSET StreamId]
    /\ acked \in [Groups -> SUBSET StreamId]
    /\ cursor \in [Groups -> StreamId]
    /\ due \in [Groups -> SUBSET StreamId]
    /\ exists \/ (entries = {} /\ groups = {})

IInv ==
    /\ Types
    /\ Zero \notin entries
    /\ \A g \in Groups : GroupOK(g)

\* A step that leaves a group's state alone keeps it in order.
LEMMA Frame ==
    ASSUME NEW h, GroupOK(h),
           delivered'[h] = delivered[h], pel'[h] = pel[h], old'[h] = old[h],
           seen'[h] = seen[h], acked'[h] = acked[h], cursor'[h] = cursor[h],
           due'[h] = due[h]
    PROVE  GroupOK(h)'
BY DEF GroupOK

\* So does a step that leaves every group alone.
LEMMA StreamStep ==
    ASSUME IInv, UNCHANGED <<state, history, scan>>,
           exists' = TRUE, entries' \subseteq StreamId, lastId' \in StreamId,
           added' \subseteq StreamId, Zero \notin entries'
    PROVE  IInv'
<1>1. Types'
  BY DEF IInv, Types, state, history, scan
<1>2. ASSUME NEW h \in Groups PROVE GroupOK(h)'
  BY Frame DEF IInv, state, history, scan
<1> QED  BY <1>1, <1>2 DEF IInv

\* XADD keeps the invariant, whatever the id it inserts.
LEMMA InsertStep ==
    ASSUME IInv, NEW id \in StreamId, id # Zero, Insert(id)
    PROVE  IInv'
BY StreamStep DEF Insert, IInv, Types

-----------------------------------------------------------------------------
\* A group just created, destroyed or gone with its key.
LEMMA NewGroupOK ==
    ASSUME NEW g \in Groups, pel'[g] = NoPending, old'[g] = NoPending,
           seen'[g] = {}, acked'[g] = {}, due'[g] = {}
    PROVE  GroupOK(g)'
BY DEF GroupOK, NoPending

\* An empty PEL for every consumer has the type of one.
LEMMA NoPendingType == NoPending \in [Consumers -> SUBSET StreamId]
BY DEF NoPending

\* A new group keeps the invariant.
LEMMA FreshStep ==
    ASSUME IInv, NEW g \in Groups, NEW id \in StreamId, Fresh(g, id), Forget(g, id),
           entries' = entries, lastId' = lastId, added' = added,
           exists' = TRUE, groups' \subseteq Groups
    PROVE  IInv'
<1>1. Types'
  BY NoPendingType, ZeroIsAnId DEF IInv, Types, Fresh, Forget
<1>2. ASSUME NEW h \in Groups PROVE GroupOK(h)'
  <2>1. CASE h = g
    BY <2>1, NewGroupOK DEF IInv, Types, Fresh, Forget
  <2>2. CASE h # g
    BY <2>2, Frame DEF IInv, Types, Fresh, Forget
  <2> QED  BY <2>1, <2>2
<1> QED  BY <1>1, <1>2 DEF IInv

\* Removing the stream, by DEL or by its TTL, keeps the invariant.
LEMMA KeyGoneStep ==
    ASSUME IInv, KeyGone
    PROVE  IInv'
<1>1. Types'
  BY NoPendingType, ZeroIsAnId DEF IInv, Types, KeyGone
<1>2. ASSUME NEW h \in Groups PROVE GroupOK(h)'
  BY NewGroupOK DEF KeyGone
<1> QED  BY <1>1, <1>2 DEF IInv, KeyGone

-----------------------------------------------------------------------------
\* XREADGROUP ">" delivers only ids above last_delivered_id, so none that is
\* pending or acknowledged.
LEMMA XReadGroupStep ==
    ASSUME IInv, NEW g \in Groups, NEW c \in Consumers, XReadGroup(g, c)
    PROVE  IInv'
<1>1. PICK n \in Counts : \E last \in First(Undelivered(g), n) :
            /\ \A i \in First(Undelivered(g), n) : AtMost(i, last)
            /\ Deliver(g, c, First(Undelivered(g), n), last)
  BY DEF XReadGroup
<1> DEFINE B == First(Undelivered(g), n)
<1>2. PICK last \in B :
            /\ \A i \in B : AtMost(i, last)
            /\ Deliver(g, c, B, last)
  BY <1>1
<1>3. B \subseteq entries /\ \A i \in B : Before(delivered[g], i)
  BY DEF First, Undelivered
<1> HIDE DEF B
<1>4. B \subseteq StreamId /\ last \in StreamId /\ Zero \notin B
  BY <1>2, <1>3 DEF IInv, Types
<1>5. \A i \in B : ~ AtMost(i, delivered[g])
  BY <1>3, <1>4, BeforeIsStrict DEF IInv, Types
<1>6. AtMost(delivered[g], last)
  BY <1>2, <1>3, BeforeImpliesAtMost
<1>7. \A i \in StreamId : AtMost(i, delivered[g]) => AtMost(i, last)
  BY <1>4, <1>6, AtMostTransitive DEF IInv, Types
<1>8. /\ delivered' = [delivered EXCEPT ![g] = last]
      /\ pel' = [pel EXCEPT ![g][c] = @ \union B]
      /\ old' = [old EXCEPT ![g][c] = @ \ B]
      /\ seen' = [seen EXCEPT ![g] = @ \union B]
      /\ UNCHANGED <<exists, entries, lastId, added, groups, start, acked, cursor, due>>
  BY <1>2 DEF Deliver, stream, scan
<1>9. Types'
  BY <1>4, <1>8 DEF IInv, Types
<1>10. ASSUME NEW h \in Groups, h # g PROVE GroupOK(h)'
  BY <1>8, <1>10, Frame DEF IInv, Types
<1>11. GroupOK(g)'
  <2> USE DEF IInv, Types
  <2>1. GroupOK(g)
    OBVIOUS
  <2>2. /\ delivered'[g] = last
        /\ pel'[g][c] = pel[g][c] \union B
        /\ \A d \in Consumers : d # c => pel'[g][d] = pel[g][d]
        /\ old'[g][c] = old[g][c] \ B
        /\ \A d \in Consumers : d # c => old'[g][d] = old[g][d]
        /\ seen'[g] = seen[g] \union B
        /\ acked'[g] = acked[g] /\ cursor'[g] = cursor[g] /\ due'[g] = due[g]
    BY <1>8
  <2> HIDE DEF IInv, Types
  <2>3. \A d \in Consumers : B \intersect pel[g][d] = {}
    BY <1>5, <2>1 DEF GroupOK
  <2>4. B \intersect acked[g] = {}
    BY <1>5, <2>1 DEF GroupOK
  <2>5. \A d \in Consumers : old'[g][d] = old[g][d]
    <3>1. old[g][c] \subseteq pel[g][c]
      BY <2>1 DEF GroupOK
    <3>2. old[g][c] \ B = old[g][c]
      BY <2>3, <3>1
    <3> QED  BY <2>2, <3>2
  <2>6. \A d \in Consumers : \A i \in pel'[g][d] : i # Zero /\ AtMost(i, delivered'[g])
    BY <1>2, <1>4, <1>7, <2>1, <2>2 DEF GroupOK, IInv, Types
  <2>7. \A i \in acked'[g] : AtMost(i, delivered'[g])
    BY <1>7, <2>1, <2>2 DEF GroupOK, IInv, Types
  <2>8. \A d, e \in Consumers : d # e => pel'[g][d] \intersect pel'[g][e] = {}
    BY <2>1, <2>2, <2>3 DEF GroupOK
  <2>9. \A i \in seen'[g] : i \in acked'[g] \/ \E d \in Consumers : i \in pel'[g][d]
    BY <2>1, <2>2 DEF GroupOK
  <2>10. ASSUME NEW d \in Consumers PROVE acked'[g] \intersect pel'[g][d] = {}
    <3>1. acked[g] \intersect pel[g][d] = {}
      BY <2>1 DEF GroupOK
    <3> QED  BY <2>2, <2>4, <3>1
  <2>11. \A d \in Consumers : old'[g][d] \subseteq pel'[g][d]
    BY <2>1, <2>2, <2>5 DEF GroupOK
  <2>12. /\ \A i \in due'[g] : AtMost(cursor'[g], i) /\ \E d \in Consumers : i \in old'[g][d]
         /\ cursor'[g] = Zero => due'[g] = {}
    <3>1. /\ \A i \in due[g] : AtMost(cursor[g], i) /\ \E d \in Consumers : i \in old[g][d]
          /\ cursor[g] = Zero => due[g] = {}
      BY <2>1 DEF GroupOK
    <3> QED  BY <2>2, <2>5, <3>1
  <2> QED  BY <2>6, <2>7, <2>8, <2>9, <2>10, <2>11, <2>12 DEF GroupOK
<1> QED  BY <1>8, <1>9, <1>10, <1>11 DEF IInv

\* XACK: with an id in one PEL only, removing it from one removes it.
LEMMA XAckStep ==
    ASSUME IInv, NEW g \in Groups, XAck(g)
    PROVE  IInv'
<1>1. PICK ids \in SUBSET Pending(g) : \E from \in [ids -> Consumers] :
            /\ \A i \in ids : from[i] \in Holders(g, i)
            /\ pel' = [pel EXCEPT ![g] =
                  [c \in Consumers |-> pel[g][c] \ {i \in ids : from[i] = c}]]
            /\ old' = [old EXCEPT ![g] =
                  [c \in Consumers |-> old[g][c] \ {i \in ids : from[i] = c}]]
            /\ acked' = [acked EXCEPT ![g] = @ \union ids]
            /\ due' = [due EXCEPT ![g] = @ \ ids]
  BY DEF XAck
<1>2. PICK from \in [ids -> Consumers] :
            /\ \A i \in ids : from[i] \in Holders(g, i)
            /\ pel' = [pel EXCEPT ![g] =
                  [c \in Consumers |-> pel[g][c] \ {i \in ids : from[i] = c}]]
            /\ old' = [old EXCEPT ![g] =
                  [c \in Consumers |-> old[g][c] \ {i \in ids : from[i] = c}]]
            /\ acked' = [acked EXCEPT ![g] = @ \union ids]
            /\ due' = [due EXCEPT ![g] = @ \ ids]
  BY <1>1
<1>3. UNCHANGED <<exists, entries, lastId, added, groups, delivered, start, seen, cursor>>
  BY DEF XAck, stream
<1>4. \A i \in ids : from[i] \in Consumers /\ i \in pel[g][from[i]]
  BY <1>2 DEF Holders
<1>5. ids \subseteq StreamId
  BY <1>4 DEF IInv, Types
<1>6. Types'
  BY <1>2, <1>3, <1>5 DEF IInv, Types
<1>7. ASSUME NEW h \in Groups, h # g PROVE GroupOK(h)'
  BY <1>2, <1>3, <1>7, Frame DEF IInv, Types
<1>8. GroupOK(g)'
  <2> USE DEF IInv, Types
  <2>1. GroupOK(g)
    OBVIOUS
  <2>2. \A i \in ids, c \in Consumers : i \in pel[g][c] => from[i] = c
    BY <1>4, <2>1 DEF GroupOK
  <2>3. \A c \in Consumers : pel'[g][c] = pel[g][c] \ ids
    BY <1>2, <2>2
  <2>4. \A c \in Consumers : old'[g][c] = old[g][c] \ ids
    <3>1. \A c \in Consumers : old[g][c] \subseteq pel[g][c]
      BY <2>1 DEF GroupOK
    <3> QED  BY <1>2, <2>2, <3>1
  <2>5. /\ acked'[g] = acked[g] \union ids
        /\ due'[g] = due[g] \ ids
        /\ seen'[g] = seen[g] /\ delivered'[g] = delivered[g] /\ cursor'[g] = cursor[g]
    BY <1>2, <1>3
  <2>6. \A i \in acked'[g] : AtMost(i, delivered'[g])
    BY <1>4, <2>1, <2>5 DEF GroupOK
  <2>7. \A i \in seen'[g] : i \in acked'[g] \/ \E c \in Consumers : i \in pel'[g][c]
    BY <2>1, <2>3, <2>5 DEF GroupOK
  <2>8. /\ \A i \in due'[g] : AtMost(cursor'[g], i) /\ \E c \in Consumers : i \in old'[g][c]
        /\ cursor'[g] = Zero => due'[g] = {}
    BY <2>1, <2>4, <2>5 DEF GroupOK
  <2>9. /\ \A c \in Consumers : old'[g][c] \subseteq pel'[g][c]
        /\ \A c, d \in Consumers : c # d => pel'[g][c] \intersect pel'[g][d] = {}
        /\ \A c \in Consumers : acked'[g] \intersect pel'[g][c] = {}
        /\ \A c \in Consumers : \A i \in pel'[g][c] :
                i # Zero /\ AtMost(i, delivered'[g])
    BY <2>1, <2>3, <2>4, <2>5 DEF GroupOK
  <2> QED  BY <2>6, <2>7, <2>8, <2>9 DEF GroupOK
<1> QED  BY <1>3, <1>6, <1>7, <1>8 DEF IInv

-----------------------------------------------------------------------------
\* What both claims come to when an id is in one PEL only: a set M of pending
\* ids moves to one consumer; the scan owes what it owed, less M.
LEMMA MoveKeepsGroup ==
    ASSUME IInv, NEW g \in Groups, NEW to \in Consumers, NEW M,
           \A i \in M : \E c \in Consumers : i \in pel[g][c],
           pel'[g][to] = pel[g][to] \union M,
           \A c \in Consumers : c # to => pel'[g][c] = pel[g][c] \ M,
           \A c \in Consumers : old'[g][c] \subseteq pel'[g][c],
           \A c \in Consumers : old[g][c] \ M \subseteq old'[g][c],
           seen'[g] = seen[g], acked'[g] = acked[g], delivered'[g] = delivered[g],
           \A i \in due'[g] : /\ i \notin M
                              /\ AtMost(cursor'[g], i)
                              /\ \E c \in Consumers : i \in old[g][c],
           cursor'[g] = Zero => due'[g] = {}
    PROVE  GroupOK(g)'
<1>1. GroupOK(g)
  BY DEF IInv
<1>2. \A c, d \in Consumers : c # d => pel'[g][c] \intersect pel'[g][d] = {}
  <2>1. \A c, d \in Consumers : c # d => pel[g][c] \intersect pel[g][d] = {}
    BY <1>1 DEF GroupOK
  <2> QED  BY <2>1
<1>3. \A i \in seen'[g] : i \in acked'[g] \/ \E c \in Consumers : i \in pel'[g][c]
  <2>1. SUFFICES ASSUME NEW i \in seen[g], i \notin acked[g]
                 PROVE  \E c \in Consumers : i \in pel'[g][c]
    OBVIOUS
  <2>2. PICK c \in Consumers : i \in pel[g][c]
    BY <1>1, <2>1 DEF GroupOK
  <2>3. CASE i \in M \/ c = to
    BY <2>2, <2>3
  <2>4. CASE i \notin M /\ c # to
    BY <2>2, <2>4
  <2> QED  BY <2>3, <2>4
<1>4. ASSUME NEW c \in Consumers, NEW i \in pel'[g][c]
      PROVE  \E d \in Consumers : i \in pel[g][d]
  BY <1>4
<1>5. \A c \in Consumers : acked'[g] \intersect pel'[g][c] = {}
  <2>1. \A c \in Consumers : acked[g] \intersect pel[g][c] = {}
    BY <1>1 DEF GroupOK
  <2> QED  BY <1>4, <2>1
<1>6. \A c \in Consumers : \A i \in pel'[g][c] : i # Zero /\ AtMost(i, delivered'[g])
  <2>1. \A c \in Consumers : \A i \in pel[g][c] : i # Zero /\ AtMost(i, delivered[g])
    BY <1>1 DEF GroupOK
  <2> QED  BY <1>4, <2>1
<1>7. \A i \in acked'[g] : AtMost(i, delivered'[g])
  BY <1>1 DEF GroupOK
<1>8. \A i \in due'[g] : AtMost(cursor'[g], i) /\ \E c \in Consumers : i \in old'[g][c]
  OBVIOUS
<1> QED  BY <1>2, <1>3, <1>5, <1>6, <1>7, <1>8 DEF GroupOK

\* Moving pairs between PELs yields PELs.
LEMMA TransferType ==
    ASSUME IInv, NEW g \in Groups, NEW to \in Consumers, NEW claimed,
           claimed \subseteq StreamId \X Consumers,
           Transfer(g, to, claimed, IdsOf(claimed))
    PROVE  /\ pel' \in [Groups -> [Consumers -> SUBSET StreamId]]
           /\ old' \in [Groups -> [Consumers -> SUBSET StreamId]]
<1>1. IdsOf(claimed) \subseteq StreamId
  BY DEF IdsOf
<1> QED  BY <1>1 DEF Transfer, IInv, Types

\* XAUTOCLAIM.
LEMMA XAutoClaimStep ==
    ASSUME IInv, NEW g \in Groups, NEW to \in Consumers, XAutoClaim(g, to)
    PROVE  IInv'
<1>1. PICK minIdle \in BOOLEAN, n \in Counts, from \in {Zero, cursor[g]} :
        \E claimed \in FirstPairs(Qualifying(g, from, minIdle), n) :
            /\ Transfer(g, to, claimed, IdsOf(claimed))
            /\ \E next \in StreamId :
                  /\ NextStart(Qualifying(g, from, minIdle) \ claimed, next)
                  /\ cursor' = [cursor EXCEPT ![g] = next]
            /\ due' = [due EXCEPT ![g] =
                  (IF from = Zero THEN AllOld(g) ELSE @) \ IdsOf(claimed)]
  BY DEF XAutoClaim
<1> DEFINE Q == Qualifying(g, from, minIdle)
<1>2. PICK claimed \in FirstPairs(Q, n) :
            /\ Transfer(g, to, claimed, IdsOf(claimed))
            /\ \E next \in StreamId :
                  /\ NextStart(Q \ claimed, next)
                  /\ cursor' = [cursor EXCEPT ![g] = next]
            /\ due' = [due EXCEPT ![g] =
                  (IF from = Zero THEN AllOld(g) ELSE @) \ IdsOf(claimed)]
  BY <1>1
<1>3. PICK next \in StreamId :
            /\ NextStart(Q \ claimed, next)
            /\ cursor' = [cursor EXCEPT ![g] = next]
  BY <1>2
<1>4. UNCHANGED <<exists, entries, lastId, added, groups, delivered, start, seen, acked>>
  BY DEF XAutoClaim, stream, history
<1>5. claimed \subseteq Q
  BY <1>2 DEF FirstPairs
<1>6. Q \subseteq StreamId \X Consumers
  BY DEF Qualifying
<1>7. \A p \in Q : p[1] \in pel[g][p[2]] /\ p[2] \in Consumers /\ p = <<p[1], p[2]>>
  BY <1>6 DEF Qualifying
<1>8. \A i \in StreamId, c \in Consumers :
          i \in old[g][c] /\ i \in pel[g][c] /\ AtMost(from, i) => <<i, c>> \in Q
  BY DEF Qualifying
<1> HIDE DEF Q
<1> DEFINE M == IdsOf(claimed)
<1>9. \A i \in M : i \in StreamId /\ \E c \in Consumers : <<i, c>> \in claimed /\ i \in pel[g][c]
  BY <1>5, <1>6, <1>7 DEF IdsOf
<1>10. \A i, c : <<i, c>> \in claimed => i \in M
  BY DEF IdsOf
<1>11. due' = [due EXCEPT ![g] = (IF from = Zero THEN AllOld(g) ELSE due[g]) \ M]
  BY <1>2 DEF IInv, Types
<1>12. ASSUME NEW c \in Consumers
       PROVE  /\ pel'[g][c] = (pel[g][c] \ {i \in StreamId : <<i, c>> \in claimed})
                                \union (IF c = to THEN M ELSE {})
              /\ old'[g][c] = (old[g][c] \ {i \in StreamId : <<i, c>> \in claimed})
                                \ (IF c = to THEN M ELSE {})
  BY <1>2 DEF Transfer, IInv, Types
<1>13. /\ pel' \in [Groups -> [Consumers -> SUBSET StreamId]]
       /\ old' \in [Groups -> [Consumers -> SUBSET StreamId]]
  BY <1>2, <1>5, <1>6, TransferType
<1>14. \A h \in Groups : h # g => pel'[h] = pel[h] /\ old'[h] = old[h]
  BY <1>2 DEF Transfer, IInv, Types
<1> HIDE DEF M
<1>15. \A c \in Consumers : {i \in StreamId : <<i, c>> \in claimed} = pel[g][c] \intersect M
  <2>1. \A c, d \in Consumers : c # d => pel[g][c] \intersect pel[g][d] = {}
    BY DEF IInv, GroupOK
  <2>2. SUFFICES ASSUME NEW c \in Consumers, NEW i
                 PROVE  (i \in StreamId /\ <<i, c>> \in claimed)
                            <=> (i \in pel[g][c] /\ i \in M)
    OBVIOUS
  <2>3. ASSUME i \in StreamId, <<i, c>> \in claimed PROVE i \in pel[g][c] /\ i \in M
    BY <2>3, <1>5, <1>7, <1>10
  <2>4. ASSUME i \in pel[g][c], i \in M PROVE i \in StreamId /\ <<i, c>> \in claimed
    BY <2>1, <2>4, <1>9
  <2> QED  BY <2>3, <2>4
<1>16. /\ pel'[g][to] = pel[g][to] \union M
       /\ \A c \in Consumers : c # to => pel'[g][c] = pel[g][c] \ M
  <2>1. pel'[g][to] = (pel[g][to] \ (pel[g][to] \intersect M)) \union M
    BY <1>12, <1>15
  <2>2. \A c \in Consumers : c # to =>
            pel'[g][c] = (pel[g][c] \ (pel[g][c] \intersect M)) \union {}
    BY <1>12, <1>15
  <2>3. \A S : (S \ (S \intersect M)) \union M = S \union M
    OBVIOUS
  <2>4. \A S : (S \ (S \intersect M)) \union {} = S \ M
    OBVIOUS
  <2> QED  BY <2>1, <2>2, <2>3, <2>4
<1>17. \A c \in Consumers : old'[g][c] = old[g][c] \ M
  <2>1. \A c \in Consumers : old[g][c] \subseteq pel[g][c]
    BY DEF IInv, GroupOK
  <2>2. ASSUME NEW c \in Consumers, NEW i
        PROVE  i \in old'[g][c] <=> i \in old[g][c] \ M
    <3>1. old'[g][c] = (old[g][c] \ (pel[g][c] \intersect M)) \ (IF c = to THEN M ELSE {})
      BY <1>12, <1>15
    <3> QED  BY <2>1, <3>1
  <2> QED  BY <2>2
<1>18. ASSUME NEW i \in due'[g]
       PROVE  /\ i \notin M
              /\ \E c \in Consumers : i \in old[g][c]
              /\ Q \ claimed # {} /\ AtMost(next, i)
  <2>1. i \notin M /\ i \in (IF from = Zero THEN AllOld(g) ELSE due[g])
    BY <1>11, <1>18 DEF IInv, Types
  <2>2. \E c \in Consumers : i \in old[g][c] /\ AtMost(from, i)
    <3>1. CASE from = Zero
      BY <2>1, <3>1, ZeroIsLeast DEF AllOld, IInv, Types
    <3>2. CASE from # Zero
      BY <2>1, <3>2 DEF IInv, GroupOK
    <3> QED  BY <3>1, <3>2
  <2>3. PICK c \in Consumers : i \in old[g][c] /\ AtMost(from, i)
    BY <2>2
  <2>4. i \in StreamId /\ i \in pel[g][c]
    BY <2>3 DEF IInv, Types, GroupOK
  <2>5. <<i, c>> \in Q \ claimed
    BY <1>8, <1>10, <2>1, <2>3, <2>4
  <2>6. i \in IdsOf(Q \ claimed)
    BY <2>5 DEF IdsOf
  <2> QED  BY <1>3, <2>1, <2>3, <2>5, <2>6 DEF NextStart
<1>19. next = Zero => due'[g] = {}
  <2>1. SUFFICES ASSUME NEW i \in due'[g] PROVE next # Zero
    OBVIOUS
  <2>2. next \in IdsOf(Q \ claimed)
    BY <1>3, <1>18, <2>1 DEF NextStart
  <2>3. \E c \in Consumers : next \in pel[g][c]
    BY <1>7, <2>2 DEF IdsOf
  <2> QED  BY <2>3 DEF IInv, GroupOK
<1>20. cursor'[g] = next
  BY <1>3 DEF IInv, Types
<1>21. GroupOK(g)'
  <2>1. \A c \in Consumers : old'[g][c] \subseteq pel'[g][c]
    <3>1. \A c \in Consumers : old[g][c] \subseteq pel[g][c]
      BY DEF IInv, GroupOK
    <3> QED  BY <1>16, <1>17, <3>1
  <2>2. /\ \A i \in M : \E c \in Consumers : i \in pel[g][c]
        /\ \A c \in Consumers : old[g][c] \ M \subseteq old'[g][c]
        /\ seen'[g] = seen[g] /\ acked'[g] = acked[g] /\ delivered'[g] = delivered[g]
    BY <1>4, <1>9, <1>17
  <2> QED  BY <1>16, <1>18, <1>19, <1>20, <2>1, <2>2, MoveKeepsGroup
<1>22. ASSUME NEW h \in Groups, h # g PROVE GroupOK(h)'
  BY <1>3, <1>4, <1>11, <1>14, <1>22, Frame DEF IInv, Types
<1>23. Types'
  <2>1. AllOld(g) \subseteq StreamId
    BY DEF AllOld, IInv, Types
  <2> QED  BY <1>3, <1>4, <1>11, <1>13, <2>1 DEF IInv, Types
<1> QED  BY <1>4, <1>21, <1>22, <1>23 DEF IInv

\* XCLAIM without FORCE.
LEMMA XClaimStep ==
    ASSUME ~ AllowForce, IInv, NEW g \in Groups, NEW to \in Consumers, XClaim(g, to)
    PROVE  IInv'
<1>1. PICK ids \in SUBSET (Pending(g) \union entries), minIdle \in BOOLEAN,
           force \in {FALSE, AllowForce}, idle \in {"None", "Short", "Long"} :
        \E from \in [ids -> Consumers] :
            LET moved == Moves(g, ids, from, minIdle, force)
                new   == moved \union Forced(g, ids, force)
                Left(c) == {i \in moved : from[i] = c}
            IN
            /\ \A i \in ids \intersect Pending(g) : from[i] \in Holders(g, i)
            /\ pel' = [pel EXCEPT ![g] = [c \in Consumers |->
                  (pel[g][c] \ Left(c)) \union (IF c = to THEN new ELSE {})]]
            /\ old' = [old EXCEPT ![g] = [c \in Consumers |->
                  IF c = to
                  THEN (old[g][c] \ (Left(c) \union new))
                          \union {i \in new : BecomesOld(g, i, from, idle)}
                  ELSE old[g][c] \ Left(c)]]
            /\ due' = [due EXCEPT ![g] = @ \ moved]
  BY DEF XClaim
<1>2. force = FALSE
  BY ConstantsAssumption
<1>3. PICK from \in [ids -> Consumers] :
            LET moved == Moves(g, ids, from, minIdle, force)
                new   == moved \union Forced(g, ids, force)
                Left(c) == {i \in moved : from[i] = c}
            IN
            /\ \A i \in ids \intersect Pending(g) : from[i] \in Holders(g, i)
            /\ pel' = [pel EXCEPT ![g] = [c \in Consumers |->
                  (pel[g][c] \ Left(c)) \union (IF c = to THEN new ELSE {})]]
            /\ old' = [old EXCEPT ![g] = [c \in Consumers |->
                  IF c = to
                  THEN (old[g][c] \ (Left(c) \union new))
                          \union {i \in new : BecomesOld(g, i, from, idle)}
                  ELSE old[g][c] \ Left(c)]]
            /\ due' = [due EXCEPT ![g] = @ \ moved]
  BY <1>1
<1> DEFINE M == Moves(g, ids, from, minIdle, force)
           Aged == {i \in M : BecomesOld(g, i, from, idle)}
<1>4. M \union Forced(g, ids, force) = M
  BY <1>2 DEF Forced
<1>5. /\ \A i \in ids \intersect Pending(g) : from[i] \in Holders(g, i)
      /\ pel' = [pel EXCEPT ![g] = [c \in Consumers |->
            (pel[g][c] \ {i \in M : from[i] = c}) \union (IF c = to THEN M ELSE {})]]
      /\ old' = [old EXCEPT ![g] = [c \in Consumers |->
            IF c = to
            THEN (old[g][c] \ ({i \in M : from[i] = c} \union M)) \union Aged
            ELSE old[g][c] \ {i \in M : from[i] = c}]]
      /\ due' = [due EXCEPT ![g] = @ \ M]
  BY <1>3, <1>4
<1>6. UNCHANGED <<exists, entries, lastId, added, groups, delivered, start, seen, acked,
                  cursor>>
  BY DEF XClaim, stream, history
<1>7. Aged \subseteq M
  OBVIOUS
<1>8. M \subseteq ids \intersect Pending(g)
  BY DEF Moves
<1> HIDE DEF M, Aged
<1>9. \A i \in M : i \in StreamId /\ from[i] \in Consumers /\ i \in pel[g][from[i]]
  BY <1>5, <1>8 DEF Holders, IInv, Types
<1>10. \A c \in Consumers : {i \in M : from[i] = c} = pel[g][c] \intersect M
  <2>1. \A c, d \in Consumers : c # d => pel[g][c] \intersect pel[g][d] = {}
    BY DEF IInv, GroupOK
  <2>2. SUFFICES ASSUME NEW c \in Consumers, NEW i \in M
                 PROVE  from[i] = c <=> i \in pel[g][c]
    OBVIOUS
  <2> QED  BY <1>9, <2>1, <2>2
<1>11. ASSUME NEW c \in Consumers
       PROVE  /\ pel'[g][c] = (pel[g][c] \ (pel[g][c] \intersect M))
                                 \union (IF c = to THEN M ELSE {})
              /\ old'[g][c] = IF c = to
                     THEN (old[g][c] \ ((pel[g][c] \intersect M) \union M)) \union Aged
                     ELSE old[g][c] \ (pel[g][c] \intersect M)
  BY <1>5, <1>10 DEF IInv, Types
<1>12. \A h \in Groups : h # g => pel'[h] = pel[h] /\ old'[h] = old[h] /\ due'[h] = due[h]
  BY <1>5 DEF IInv, Types
<1>13. due'[g] = due[g] \ M
  BY <1>5 DEF IInv, Types
<1>14. /\ pel'[g][to] = pel[g][to] \union M
       /\ \A c \in Consumers : c # to => pel'[g][c] = pel[g][c] \ M
  <2>1. pel'[g][to] = (pel[g][to] \ (pel[g][to] \intersect M)) \union M
    BY <1>11
  <2>2. \A c \in Consumers : c # to =>
            pel'[g][c] = (pel[g][c] \ (pel[g][c] \intersect M)) \union {}
    BY <1>11
  <2>3. \A S : (S \ (S \intersect M)) \union M = S \union M
    OBVIOUS
  <2>4. \A S : (S \ (S \intersect M)) \union {} = S \ M
    OBVIOUS
  <2> QED  BY <2>1, <2>2, <2>3, <2>4
<1>15. \A c \in Consumers : old[g][c] \subseteq pel[g][c]
  BY DEF IInv, GroupOK
<1>16. ASSUME NEW c \in Consumers
       PROVE  old'[g][c] \subseteq pel'[g][c] /\ old[g][c] \ M \subseteq old'[g][c]
  <2>1. CASE c = to
    <3>1. old'[g][c] = (old[g][c] \ ((pel[g][c] \intersect M) \union M)) \union Aged
      BY <1>11, <2>1
    <3>2. pel'[g][c] = pel[g][c] \union M
      BY <1>14, <2>1
    <3> QED  BY <1>7, <1>15, <3>1, <3>2
  <2>2. CASE c # to
    <3>1. old'[g][c] = old[g][c] \ (pel[g][c] \intersect M)
      BY <1>11, <2>2
    <3>2. pel'[g][c] = pel[g][c] \ M
      BY <1>14, <2>2
    <3> QED  BY <1>15, <3>1, <3>2
  <2> QED  BY <2>1, <2>2
<1>17. /\ \A i \in due'[g] : /\ i \notin M
                            /\ AtMost(cursor'[g], i)
                            /\ \E c \in Consumers : i \in old[g][c]
       /\ cursor'[g] = Zero => due'[g] = {}
  BY <1>6, <1>13 DEF IInv, GroupOK
<1>18. GroupOK(g)'
  <2>1. \A i \in M : \E c \in Consumers : i \in pel[g][c]
    BY <1>9
  <2>2. seen'[g] = seen[g] /\ acked'[g] = acked[g] /\ delivered'[g] = delivered[g]
    BY <1>6
  <2>3. \A c \in Consumers : old'[g][c] \subseteq pel'[g][c]
    BY <1>16
  <2>4. \A c \in Consumers : old[g][c] \ M \subseteq old'[g][c]
    BY <1>16
  <2>5. \A i \in due'[g] : /\ i \notin M
                            /\ AtMost(cursor'[g], i)
                            /\ \E c \in Consumers : i \in old[g][c]
    BY <1>17
  <2>6. cursor'[g] = Zero => due'[g] = {}
    BY <1>17
  <2> QED  BY ONLY IInv, g \in Groups, to \in Consumers, <1>14, <2>1, <2>2, <2>3, <2>4, <2>5,
                   <2>6, MoveKeepsGroup
<1>19. ASSUME NEW h \in Groups, h # g PROVE GroupOK(h)'
  BY <1>6, <1>12, <1>19, Frame DEF IInv, Types
<1>20. Types'
  <2>1. M \subseteq StreamId /\ Aged \subseteq StreamId
    BY <1>7, <1>9
  <2>2. /\ pel' \in [Groups -> [Consumers -> SUBSET StreamId]]
        /\ due' \in [Groups -> SUBSET StreamId]
    BY <1>5, <2>1 DEF IInv, Types
  <2>3. old' \in [Groups -> [Consumers -> SUBSET StreamId]]
    BY <1>5, <2>1 DEF IInv, Types
  <2> QED  BY <1>6, <2>2, <2>3 DEF IInv, Types
<1> QED  BY <1>6, <1>18, <1>19, <1>20 DEF IInv

\* Time passing keeps the invariant.
LEMMA TimePassesStep ==
    ASSUME IInv, TimePasses
    PROVE  IInv'
<1>1. /\ old' = pel
      /\ UNCHANGED <<exists, entries, lastId, added, groups, delivered, pel, start, seen,
                     acked, cursor, due>>
  BY DEF TimePasses, stream, history, scan
<1>2. Types'
  BY <1>1 DEF IInv, Types
<1>3. ASSUME NEW h \in Groups PROVE GroupOK(h)'
  <2>1. GroupOK(h)
    BY DEF IInv
  <2> QED  BY <1>1, <2>1 DEF GroupOK
<1> QED  BY <1>1, <1>2, <1>3 DEF IInv

-----------------------------------------------------------------------------
\* The invariant holds initially.
LEMMA InitOK == Init => IInv
<1> SUFFICES ASSUME Init PROVE IInv
  OBVIOUS
<1>1. Types
  BY NoPendingType, ZeroIsAnId DEF Init, Types
<1>2. ASSUME NEW g \in Groups PROVE GroupOK(g)
  BY DEF Init, GroupOK, NoPending
<1> QED  BY <1>1, <1>2 DEF IInv, Init

\* Every operation on one group keeps the invariant.
LEMMA GroupStepOK ==
    ASSUME ~ AllowForce, IInv, NEW g \in Groups, GroupStep(g)
    PROVE  IInv'
<1>1. CASE XGroupCreate(g)
  <2>1. PICK id \in {Zero, lastId} \union ExplicitIds : Fresh(g, id) /\ Forget(g, id)
    BY <1>1 DEF XGroupCreate
  <2>2. id \in StreamId
    BY <2>1, ZeroIsAnId, ConstantsAssumption DEF IInv, Types
  <2>3. groups' \subseteq Groups
    BY <1>1 DEF XGroupCreate, IInv, Types
  <2> QED  BY <1>1, <2>1, <2>2, <2>3, FreshStep DEF XGroupCreate
<1>2. CASE XGroupDestroy(g)
  <2>1. exists' = TRUE /\ groups' \subseteq Groups
    BY <1>2 DEF XGroupDestroy, stream, IInv, Types
  <2> QED  BY <1>2, <2>1, FreshStep, ZeroIsAnId DEF XGroupDestroy, stream
<1>3. CASE XAck(g)
  BY <1>3, XAckStep
<1>4. ASSUME NEW c \in Consumers, XReadGroup(g, c) PROVE IInv'
  BY <1>4, XReadGroupStep
<1>5. ASSUME NEW c \in Consumers, XAutoClaim(g, c) PROVE IInv'
  BY <1>5, XAutoClaimStep
<1>6. ASSUME NEW c \in Consumers, XClaim(g, c) PROVE IInv'
  BY <1>6, XClaimStep
<1> QED  BY <1>1, <1>2, <1>3, <1>4, <1>5, <1>6 DEF GroupStep

\* Every step keeps the invariant.
LEMMA NextOK ==
    ASSUME ~ AllowForce, IInv, [Next]_vars
    PROVE  IInv'
<1>1. CASE XAddAuto
  <2>1. PICK ms \in 1 .. MaxMs : Insert(AutoId(ms))
    BY <1>1 DEF XAddAuto
  <2>2. AutoId(ms) \in StreamId /\ AutoId(ms) # Zero
    BY AutoIdType DEF IInv, Types
  <2> QED  BY <2>1, <2>2, InsertStep
<1>2. CASE XAddExplicit
  <2>1. PICK id \in ExplicitIds :
            \/ Before(lastId, id) /\ Insert(id)
            \/ /\ ~ Before(lastId, id)
               /\ exists' = TRUE
               /\ UNCHANGED <<entries, lastId, added, state, history, scan>>
    BY <1>2 DEF XAddExplicit
  <2>2. CASE Before(lastId, id) /\ Insert(id)
    BY <2>2, ExplicitIsNotZero, InsertStep DEF IInv, Types
  <2>3. CASE /\ exists' = TRUE
             /\ UNCHANGED <<entries, lastId, added, state, history, scan>>
    BY <2>3, StreamStep DEF IInv, Types
  <2> QED  BY <2>1, <2>2, <2>3
<1>3. ASSUME XTrim \/ XDel PROVE IInv'
  <2>1. /\ exists' = TRUE /\ entries' \subseteq entries
        /\ UNCHANGED <<lastId, added, state, history, scan>>
    BY <1>3 DEF XTrim, XDel, IInv, Types
  <2> QED  BY <2>1, StreamStep DEF IInv, Types
<1>4. CASE KeyGone
  BY <1>4, KeyGoneStep
<1>5. CASE TimePasses
  BY <1>5, TimePassesStep
<1>6. ASSUME NEW g \in Groups, GroupStep(g) PROVE IInv'
  BY <1>6, GroupStepOK
<1>7. CASE UNCHANGED vars
  <2>1. UNCHANGED <<exists, entries, lastId, added, groups, delivered, pel, old, start, seen,
                    acked, cursor, due>>
    BY <1>7 DEF vars, stream, state, history, scan
  <2>2. \A h \in Groups : GroupOK(h)'
    BY <2>1, Frame DEF IInv
  <2> QED  BY <2>1, <2>2 DEF IInv, Types
<1> QED  BY <1>1, <1>2, <1>3, <1>4, <1>5, <1>6, <1>7 DEF Next

\* The inductive invariant of the consumer groups, when no caller uses FORCE.
THEOREM GroupsInvariant ==
    ASSUME ~ AllowForce
    PROVE  Spec => []IInv
<1>1. IInv /\ [Next]_vars => IInv'
  BY NextOK
<1> QED  BY <1>1, InitOK, PTL DEF Spec

\* The types, and old entries being pending ones.
THEOREM GroupsTypeCorrect ==
    ASSUME ~ AllowForce
    PROVE  Spec => []TypeOK
<1>1. IInv => TypeOK
  BY DEF IInv, Types, GroupOK, TypeOK
<1> QED  BY <1>1, GroupsInvariant, PTL

\* Without FORCE an id is in one PEL only: xack may stop at the first.
THEOREM OnePelPerId ==
    ASSUME ~ AllowForce
    PROVE  Spec => []OnePelOnly
<1>1. IInv => OnePelOnly
  BY DEF IInv, GroupOK, OnePelOnly
<1> QED  BY <1>1, GroupsInvariant, PTL

\* At-least-once delivery: what a group delivered is pending until acknowledged.
THEOREM DeliveredStaysPending ==
    ASSUME ~ AllowForce
    PROVE  Spec => []PendingUntilAcked
<1>1. IInv => PendingUntilAcked
  BY DEF IInv, GroupOK, PendingUntilAcked, Pending
<1> QED  BY <1>1, GroupsInvariant, PTL

\* An acknowledged entry is never pending again.
THEOREM AcknowledgedForGood ==
    ASSUME ~ AllowForce
    PROVE  Spec => []AckedIsGone
<1>1. IInv => AckedIsGone
  BY DEF IInv, GroupOK, AckedIsGone, Pending
<1> QED  BY <1>1, GroupsInvariant, PTL

\* A completed XAUTOCLAIM scan has left no entry that was idle when it began.
THEOREM ScansAreComplete ==
    ASSUME ~ AllowForce
    PROVE  Spec => []ScanClaimsAllIdle
<1>1. IInv => ScanClaimsAllIdle
  BY DEF IInv, GroupOK, ScanClaimsAllIdle
<1> QED  BY <1>1, GroupsInvariant, PTL

-----------------------------------------------------------------------------
(* The order of ids.  These results need the sequence number of the last   *)
(* id to stay below the largest u64; the run GroupsOverflow shows that     *)
(* they fail at that number.                                               *)

NoOverflow == lastId[2] < MaxSeq

\* There are finitely many ids, so that a page has a least element.
LEMMA FinitelyManyIds == IsFiniteSet(StreamId)
<1>1. IsFiniteSet(0 .. MaxMs) /\ IsFiniteSet(0 .. MaxSeq)
  BY ConstantsAssumption, FS_Interval
<1> QED  BY <1>1, FS_Product DEF StreamId

\* First(ids, n) is a prefix of ids in the order of ids.
LEMMA FirstIsPrefix ==
    ASSUME NEW ids \in SUBSET StreamId, NEW n \in Nat, NEW last \in First(ids, n),
           NEW i \in ids, AtMost(i, last)
    PROVE  i \in First(ids, n)
<1> DEFINE Below(k) == {j \in ids : Before(j, k)}
<1>1. last \in ids /\ Cardinality(Below(last)) < n
  BY DEF First
<1>2. Below(i) \subseteq Below(last)
  <2>1. SUFFICES ASSUME NEW j \in ids, Before(j, i) PROVE Before(j, last)
    OBVIOUS
  <2>2. CASE i = last
    BY <2>1, <2>2
  <2>3. CASE Before(i, last)
    BY <1>1, <2>1, <2>3, ConstantsAssumption DEF Before, StreamId
  <2> QED  BY <2>2, <2>3 DEF AtMost
<1>3. IsFiniteSet(Below(last))
  BY FinitelyManyIds, FS_Subset
<1>4. /\ Cardinality(Below(i)) <= Cardinality(Below(last))
      /\ Cardinality(Below(i)) \in Nat /\ Cardinality(Below(last)) \in Nat
  BY <1>2, <1>3, FS_Subset, FS_CardinalityType
<1> QED  BY <1>1, <1>4 DEF First

\* Short of an overflow a generated id is greater than the last one.
LEMMA AutoIdGrows ==
    ASSUME lastId \in StreamId, NoOverflow, NEW ms \in 1 .. MaxMs
    PROVE  Before(lastId, AutoId(ms))
<1>1. lastId[1] \in 0 .. MaxMs /\ lastId[2] \in 0 .. MaxSeq
  BY DEF StreamId
<1>2. CASE ms > lastId[1]
  BY <1>1, <1>2 DEF AutoId, Before
<1>3. CASE ~ (ms > lastId[1])
  <2>1. (lastId[2] + 1) % (MaxSeq + 1) = lastId[2] + 1
    BY <1>1, ConstantsAssumption DEF NoOverflow
  <2> QED  BY <1>1, <1>3, <2>1 DEF AutoId, Before
<1> QED  BY <1>2, <1>3

\* Every entry is at most last_id, and so is last_delivered_id once it has
\* left the id the group was created with.
OrderInv ==
    /\ \A i \in entries : AtMost(i, lastId)
    /\ \A g \in groups : delivered[g] = start[g] \/ AtMost(delivered[g], lastId)
    /\ NoEntrySkipped

\* XADD keeps what is below a group's last delivered id, as long as ids grow.
LEMMA InsertKeepsOrder ==
    ASSUME IInv, OrderInv, NEW id \in StreamId, Before(lastId, id), Insert(id)
    PROVE  OrderInv'
<1>1. /\ entries' = entries \union {id} /\ lastId' = id
      /\ UNCHANGED <<groups, delivered, start, seen>>
  BY DEF Insert, state, history
<1>2. \A i \in StreamId : AtMost(i, lastId) => AtMost(i, id) /\ i # id
  BY AtMostTransitive, BeforeIsStrict, BeforeImpliesAtMost, AtMostReflexive DEF IInv, Types
<1>3. /\ \A i \in entries' : AtMost(i, lastId')
      /\ \A g \in groups' : delivered'[g] = start'[g] \/ AtMost(delivered'[g], lastId')
  BY <1>1, <1>2, AtMostReflexive DEF OrderInv, IInv, Types
<1>4. ASSUME NEW g \in groups, Before(start[g], id), AtMost(id, delivered[g]) PROVE FALSE
  <2>1. delivered[g] \in StreamId /\ start[g] \in StreamId /\ lastId \in StreamId
    BY DEF IInv, Types
  <2>2. CASE delivered[g] = start[g]
    BY <1>4, <2>1, <2>2, BeforeIsStrict
  <2>3. CASE AtMost(delivered[g], lastId)
    <3>1. AtMost(id, lastId)
      BY <1>4, <2>1, <2>3, AtMostTransitive
    <3> QED  BY <2>1, <3>1, BeforeIsStrict
  <2> QED  BY <2>2, <2>3 DEF OrderInv
<1>5. NoEntrySkipped'
  BY <1>1, <1>4 DEF OrderInv, NoEntrySkipped
<1> QED  BY <1>3, <1>5 DEF OrderInv

\* A read of new entries delivers everything up to its new last delivered id.
LEMMA ReadKeepsOrder ==
    ASSUME IInv, OrderInv, NEW g \in Groups, NEW c \in Consumers, XReadGroup(g, c)
    PROVE  OrderInv'
<1>1. PICK n \in Counts : \E last \in First(Undelivered(g), n) :
            /\ \A i \in First(Undelivered(g), n) : AtMost(i, last)
            /\ Deliver(g, c, First(Undelivered(g), n), last)
  BY DEF XReadGroup
<1>2. PICK last \in First(Undelivered(g), n) : Deliver(g, c, First(Undelivered(g), n), last)
  BY <1>1
<1>3. last \in entries /\ Undelivered(g) \subseteq StreamId /\ n \in Nat
  BY ConstantsAssumption DEF First, Undelivered, IInv, Types
<1>4. /\ delivered' = [delivered EXCEPT ![g] = last]
      /\ seen' = [seen EXCEPT ![g] = @ \union First(Undelivered(g), n)]
      /\ UNCHANGED <<entries, lastId, groups, start>>
  BY <1>2 DEF Deliver, stream
<1>5. \A h \in groups' : delivered'[h] = start'[h] \/ AtMost(delivered'[h], lastId')
  BY <1>3, <1>4 DEF OrderInv, IInv, Types
<1>6. ASSUME NEW h \in groups, NEW i \in entries,
             Before(start[h], i), AtMost(i, delivered'[h])
      PROVE  i \in seen'[h]
  <2>1. CASE h # g
    BY <1>4, <1>6, <2>1 DEF OrderInv, NoEntrySkipped, IInv, Types
  <2>2. CASE h = g /\ AtMost(i, delivered[g])
    BY <1>4, <1>6, <2>2 DEF OrderInv, NoEntrySkipped, IInv, Types
  <2>3. CASE h = g /\ ~ AtMost(i, delivered[g])
    <3>1. i \in Undelivered(g)
      BY <2>3, BeforeIsStrict DEF Undelivered, IInv, Types
    <3>2. AtMost(i, last)
      BY <1>4, <1>6, <2>3 DEF IInv, Types
    <3>3. i \in First(Undelivered(g), n)
      BY <1>3, <3>1, <3>2, FirstIsPrefix
    <3> QED  BY <1>4, <2>3, <3>3 DEF IInv, Types
  <2> QED  BY <2>1, <2>2, <2>3
<1>7. NoEntrySkipped'
  BY <1>4, <1>6 DEF NoEntrySkipped
<1> QED  BY <1>4, <1>5, <1>7 DEF OrderInv

\* A new group has skipped nothing: its cursor is where it starts.
LEMMA FreshKeepsOrder ==
    ASSUME IInv, OrderInv, NEW g \in Groups, NEW id \in StreamId,
           delivered' = [delivered EXCEPT ![g] = id],
           start' = [start EXCEPT ![g] = id], seen' = [seen EXCEPT ![g] = {}],
           groups' \subseteq groups \union {g}, UNCHANGED <<entries, lastId>>
    PROVE  OrderInv'
<1>1. \A h \in groups' : delivered'[h] = start'[h] \/ AtMost(delivered'[h], lastId')
  BY DEF OrderInv, IInv, Types
<1>2. ASSUME NEW h \in groups', NEW i \in entries,
             Before(start'[h], i), AtMost(i, delivered'[h])
      PROVE  i \in seen'[h]
  <2>1. CASE h = g
    BY <1>2, <2>1, BeforeIsStrict DEF IInv, Types
  <2>2. CASE h # g
    BY <1>2, <2>2 DEF OrderInv, NoEntrySkipped, IInv, Types
  <2> QED  BY <2>1, <2>2
<1>3. NoEntrySkipped'
  BY <1>2 DEF NoEntrySkipped
<1> QED  BY <1>1, <1>3 DEF OrderInv

\* Steps that add no entry, move no cursor and create no group.
LEMMA OtherKeepsOrder ==
    ASSUME OrderInv, entries' \subseteq entries,
           UNCHANGED <<lastId, groups, delivered, start, seen>>
    PROVE  OrderInv'
BY DEF OrderInv, NoEntrySkipped

\* Every step keeps the order facts, as long as no sequence number overflows.
LEMMA NextKeepsOrder ==
    ASSUME IInv, OrderInv, NoOverflow, [Next]_vars
    PROVE  OrderInv'
<1>1. CASE XAddAuto
  <2>1. PICK ms \in 1 .. MaxMs : Insert(AutoId(ms))
    BY <1>1 DEF XAddAuto
  <2>2. AutoId(ms) \in StreamId /\ Before(lastId, AutoId(ms))
    BY AutoIdType, AutoIdGrows DEF IInv, Types
  <2> QED  BY <2>1, <2>2, InsertKeepsOrder
<1>2. CASE XAddExplicit
  <2>1. PICK id \in ExplicitIds :
            \/ Before(lastId, id) /\ Insert(id)
            \/ UNCHANGED <<entries, lastId, added, state, history, scan>>
    BY <1>2 DEF XAddExplicit
  <2>2. CASE Before(lastId, id) /\ Insert(id)
    BY <2>2, InsertKeepsOrder, ConstantsAssumption
  <2>3. CASE UNCHANGED <<entries, lastId, added, state, history, scan>>
    BY <2>3, OtherKeepsOrder DEF state, history
  <2> QED  BY <2>1, <2>2, <2>3
<1>3. ASSUME XTrim \/ XDel PROVE OrderInv'
  <2>1. entries' \subseteq entries /\ UNCHANGED <<lastId, groups, delivered, start, seen>>
    BY <1>3 DEF XTrim, XDel, state, history
  <2> QED  BY <2>1, OtherKeepsOrder
<1>4. CASE KeyGone
  BY <1>4 DEF KeyGone, OrderInv, NoEntrySkipped
<1>5. CASE TimePasses
  BY <1>5, OtherKeepsOrder DEF TimePasses, stream, history
<1>6. ASSUME NEW g \in Groups, GroupStep(g) PROVE OrderInv'
  <2>1. CASE XGroupCreate(g)
    <3>1. PICK id \in {Zero, lastId} \union ExplicitIds : Fresh(g, id) /\ Forget(g, id)
      BY <2>1 DEF XGroupCreate
    <3>2. id \in StreamId
      BY <3>1, ZeroIsAnId, ConstantsAssumption DEF IInv, Types
    <3> QED  BY <2>1, <3>1, <3>2, FreshKeepsOrder DEF XGroupCreate, Fresh, Forget
  <2>2. CASE XGroupDestroy(g)
    BY <2>2, FreshKeepsOrder, ZeroIsAnId DEF XGroupDestroy, Fresh, Forget, stream
  <2>3. CASE XAck(g)
    BY <2>3, OtherKeepsOrder DEF XAck, stream
  <2>4. ASSUME NEW c \in Consumers, XReadGroup(g, c) PROVE OrderInv'
    BY <2>4, ReadKeepsOrder
  <2>5. ASSUME NEW c \in Consumers, XAutoClaim(g, c) \/ XClaim(g, c) PROVE OrderInv'
    <3>1. UNCHANGED <<entries, lastId, groups, delivered, start, seen>>
      BY <2>5 DEF XAutoClaim, XClaim, stream, history
    <3> QED  BY <3>1, OtherKeepsOrder
  <2> QED  BY <1>6, <2>1, <2>2, <2>3, <2>4, <2>5 DEF GroupStep
<1>7. CASE UNCHANGED vars
  BY <1>7, OtherKeepsOrder DEF vars, stream, state, history
<1> QED  BY <1>1, <1>2, <1>3, <1>4, <1>5, <1>6, <1>7 DEF Next

\* While no sequence number reaches its limit, a group's cursor never passes an
\* entry that no consumer was given.
THEOREM NothingIsSkipped ==
    ASSUME ~ AllowForce
    PROVE  Spec /\ []NoOverflow => []NoEntrySkipped
<1>1. Init => OrderInv
  BY DEF Init, OrderInv, NoEntrySkipped
<1>2. IInv /\ OrderInv /\ NoOverflow /\ [Next]_vars => OrderInv'
  BY NextKeepsOrder
<1>3. OrderInv => NoEntrySkipped
  BY DEF OrderInv
<1> QED  BY <1>1, <1>2, <1>3, GroupsInvariant, PTL DEF Spec

\* No step lowers the last id of a stream that stays, without an overflow.
LEMMA NextKeepsLastId ==
    ASSUME IInv, NoOverflow, [Next]_vars, exists, exists'
    PROVE  AtMost(lastId, lastId')
<1>1. CASE XAddAuto
  <2>1. PICK ms \in 1 .. MaxMs : Insert(AutoId(ms))
    BY <1>1 DEF XAddAuto
  <2> QED  BY <2>1, AutoIdGrows, BeforeImpliesAtMost DEF Insert, IInv, Types
<1>2. CASE XAddExplicit
  BY <1>2, BeforeImpliesAtMost, AtMostReflexive DEF XAddExplicit, Insert
<1>3. CASE UNCHANGED lastId
  BY <1>3, AtMostReflexive
<1>4. ASSUME XTrim \/ XDel \/ TimePasses \/ UNCHANGED vars PROVE UNCHANGED lastId
  BY <1>4 DEF XTrim, XDel, TimePasses, stream, vars
<1>5. ASSUME NEW g \in Groups, GroupStep(g) PROVE UNCHANGED lastId
  BY <1>5 DEF GroupStep, XGroupCreate, XGroupDestroy, XAck, XReadGroup, Deliver,
      XAutoClaim, XClaim, stream
<1>6. ~ KeyGone
  BY DEF KeyGone
<1> QED  BY <1>1, <1>2, <1>3, <1>4, <1>5, <1>6 DEF Next

\* While no sequence number reaches its limit, XADD never goes back: last_id
\* grows for as long as the stream lives, whatever the clock does.
THEOREM LastIdGrows ==
    ASSUME ~ AllowForce
    PROVE  Spec /\ []NoOverflow => LastIdMonotone
<1>1. IInv /\ NoOverflow /\ [Next]_vars => [exists /\ exists' => AtMost(lastId, lastId')]_vars
  BY NextKeepsLastId
<1> QED  BY <1>1, GroupsInvariant, PTL DEF Spec, LastIdMonotone

-----------------------------------------------------------------------------
(***************************************************************************)
(* Consumer groups implement the work queue, for every set of groups,      *)
(* consumers and ids: each step of ConsumerGroups is, for the holders of   *)
(* the entries and the acknowledged ids, a step of WorkQueue or nothing.   *)
(* The invariant gives what the abstract guards ask for: an entry read     *)
(* with ">" is held by nobody and not acknowledged, and an entry is in one *)
(* PEL at most, so that an XACK lets it go and a claim leaves it with the  *)
(* claimer alone.                                                          *)
(***************************************************************************)

\* The holders of an id are the consumers whose PEL has it, before and after.
LEMMA HeldByIs ==
    \A g \in Groups, i \in StreamId :
        /\ HeldBy[g][i] = {c \in Consumers : i \in pel[g][c]}
        /\ HeldBy'[g][i] = {c \in Consumers : i \in pel'[g][c]}
BY DEF HeldBy, Holders

\* An id in the same PELs as before has the same holders.
LEMMA SameHeld ==
    ASSUME NEW g \in Groups, NEW i \in StreamId,
           \A c \in Consumers : i \in pel'[g][c] <=> i \in pel[g][c]
    PROVE  HeldBy'[g][i] = HeldBy[g][i]
<1>1. Holders(g, i)' = Holders(g, i)
  BY DEF Holders
<1>2. HeldBy[g][i] = Holders(g, i) /\ HeldBy'[g][i] = Holders(g, i)'
  BY DEF HeldBy
<1> QED  BY <1>1, <1>2

\* The abstract state keeps its type.
LEMMA HeldByType ==
    ASSUME IInv'
    PROVE  /\ HeldBy' \in [Groups -> [StreamId -> SUBSET Consumers]]
           /\ acked' \in [Groups -> SUBSET StreamId]
BY DEF HeldBy, Holders, IInv, Types

\* A group whose PELs are the same has the same holders.
LEMMA SameHolders ==
    ASSUME NEW g \in Groups, pel'[g] = pel[g]
    PROVE  HeldBy'[g] = HeldBy[g]
BY DEF HeldBy, Holders

\* A step of one group is, for the queue, about that group only.
LEMMA OnlyGroup ==
    ASSUME IInv', NEW g \in Groups,
           \A h \in Groups : h # g => pel'[h] = pel[h] /\ acked'[h] = acked[h]
    PROVE  Queue!Only(g)
BY HeldByType, SameHolders DEF Queue!Only

\* A step that leaves the PELs and the acknowledged ids alone is no step of the
\* queue.
LEMMA NoQueueStep ==
    ASSUME pel' = pel, acked' = acked
    PROVE  UNCHANGED Queue!vars
BY DEF Queue!vars, HeldBy, Holders

-----------------------------------------------------------------------------
\* XREADGROUP hands out.
LEMMA ReadHandsOut ==
    ASSUME IInv, IInv', NEW g \in Groups, NEW c \in Consumers, XReadGroup(g, c)
    PROVE  Queue!HandOut(g)
<1>1. PICK n \in Counts : \E last \in First(Undelivered(g), n) :
            Deliver(g, c, First(Undelivered(g), n), last)
  BY DEF XReadGroup
<1> DEFINE B == First(Undelivered(g), n)
<1>2. PICK last \in B : Deliver(g, c, B, last)
  BY <1>1
<1>3. \A i \in B : i \in entries /\ Before(delivered[g], i)
  BY DEF First, Undelivered
<1> HIDE DEF B
<1>4. \A i \in B : i \in StreamId /\ ~ AtMost(i, delivered[g])
  BY <1>3, BeforeIsStrict DEF IInv, Types
<1>5. \A i \in B : i \notin acked[g] /\ \A d \in Consumers : i \notin pel[g][d]
  BY <1>4 DEF IInv, GroupOK
<1>6. /\ pel'[g][c] = pel[g][c] \union B
      /\ \A d \in Consumers : d # c => pel'[g][d] = pel[g][d]
      /\ \A h \in Groups : h # g => pel'[h] = pel[h]
      /\ acked' = acked
  BY <1>2 DEF Deliver, IInv, Types
<1>7. ASSUME NEW i \in StreamId
      PROVE  \/ HeldBy'[g][i] = HeldBy[g][i]
             \/ HeldBy[g][i] = {} /\ i \notin acked[g] /\ HeldBy'[g][i] = {c}
  <2>1. CASE i \in B
    <3>1. {d \in Consumers : i \in pel[g][d]} = {}
      BY <1>5, <2>1
    <3>2. {d \in Consumers : i \in pel'[g][d]} = {c}
      BY <1>5, <1>6, <2>1
    <3> QED  BY <1>5, <2>1, <3>1, <3>2, HeldByIs
  <2>2. CASE i \notin B
    <3>1. \A d \in Consumers : i \in pel'[g][d] <=> i \in pel[g][d]
      BY <1>6, <2>2
    <3> QED  BY <3>1, SameHeld
  <2> QED  BY <2>1, <2>2
<1>8. Queue!Only(g)
  BY <1>6, OnlyGroup
<1> QED  BY <1>6, <1>7, <1>8 DEF Queue!HandOut

\* XACK finishes.
LEMMA AckFinishes ==
    ASSUME IInv, IInv', NEW g \in Groups, XAck(g)
    PROVE  Queue!Finish(g)
<1>1. PICK ids \in SUBSET Pending(g) : \E from \in [ids -> Consumers] :
            /\ \A i \in ids : from[i] \in Holders(g, i)
            /\ pel' = [pel EXCEPT ![g] =
                  [c \in Consumers |-> pel[g][c] \ {i \in ids : from[i] = c}]]
            /\ acked' = [acked EXCEPT ![g] = @ \union ids]
  BY DEF XAck
<1>2. PICK from \in [ids -> Consumers] :
            /\ \A i \in ids : from[i] \in Holders(g, i)
            /\ pel' = [pel EXCEPT ![g] =
                  [c \in Consumers |-> pel[g][c] \ {i \in ids : from[i] = c}]]
            /\ acked' = [acked EXCEPT ![g] = @ \union ids]
  BY <1>1
<1>3. \A i \in ids : from[i] \in Consumers /\ i \in pel[g][from[i]]
  BY <1>2 DEF Holders
<1>4. \A i \in ids, c \in Consumers : i \in pel[g][c] => from[i] = c
  BY <1>3 DEF IInv, GroupOK
<1>5. /\ \A c \in Consumers : pel'[g][c] = pel[g][c] \ {i \in ids : from[i] = c}
      /\ \A h \in Groups : h # g => pel'[h] = pel[h] /\ acked'[h] = acked[h]
      /\ acked'[g] = acked[g] \union ids
  BY <1>2 DEF IInv, Types
<1>6. ASSUME NEW i \in StreamId
      PROVE  \/ HeldBy'[g][i] = HeldBy[g][i] /\ (i \in acked'[g] <=> i \in acked[g])
             \/ HeldBy[g][i] # {} /\ HeldBy'[g][i] = {} /\ i \in acked'[g]
  <2>1. CASE i \in ids
    <3>1. HeldBy[g][i] # {}
      BY <1>3, <2>1, HeldByIs
    <3>2. {c \in Consumers : i \in pel'[g][c]} = {}
      BY <1>4, <1>5, <2>1
    <3> QED  BY <1>5, <2>1, <3>1, <3>2, HeldByIs
  <2>2. CASE i \notin ids
    <3>1. \A c \in Consumers : i \in pel'[g][c] <=> i \in pel[g][c]
      BY <1>5, <2>2
    <3> QED  BY <1>5, <2>2, <3>1, SameHeld
  <2> QED  BY <2>1, <2>2
<1>7. Queue!Only(g)
  BY <1>5, OnlyGroup
<1> QED  BY <1>6, <1>7 DEF Queue!Finish

-----------------------------------------------------------------------------
\* A step after which a set M of pending ids is in the claimer's PEL, and in no
\* other, reassigns M.
LEMMA MoveReassigns ==
    ASSUME IInv, IInv', NEW g \in Groups, NEW to \in Consumers, NEW M,
           \A i \in M : \E c \in Consumers : i \in pel[g][c],
           \A c \in Consumers, i \in StreamId : i \in M => (i \in pel'[g][c] <=> c = to),
           \A c \in Consumers, i \in StreamId :
               i \notin M => (i \in pel'[g][c] <=> i \in pel[g][c]),
           \A h \in Groups : h # g => pel'[h] = pel[h],
           acked' = acked
    PROVE  Queue!Reassign(g)
<1>1. ASSUME NEW i \in StreamId
      PROVE  \/ HeldBy'[g][i] = HeldBy[g][i]
             \/ HeldBy[g][i] # {} /\ HeldBy'[g][i] = {to}
  <2>1. CASE i \in M
    <3>1. HeldBy[g][i] # {}
      BY <2>1, HeldByIs
    <3>2. {c \in Consumers : i \in pel'[g][c]} = {to}
      BY <2>1
    <3> QED  BY <3>1, <3>2, HeldByIs
  <2>2. CASE i \notin M
    <3>1. \A c \in Consumers : i \in pel'[g][c] <=> i \in pel[g][c]
      BY <2>2
    <3> QED  BY <3>1, SameHeld
  <2> QED  BY <2>1, <2>2
<1>2. Queue!Only(g)
  BY OnlyGroup
<1> QED  BY <1>1, <1>2 DEF Queue!Reassign

\* XAUTOCLAIM reassigns.
LEMMA AutoClaimReassigns ==
    ASSUME IInv, IInv', NEW g \in Groups, NEW to \in Consumers, XAutoClaim(g, to)
    PROVE  Queue!Reassign(g)
<1>1. PICK minIdle \in BOOLEAN, n \in Counts, from \in {Zero, cursor[g]} :
        \E claimed \in FirstPairs(Qualifying(g, from, minIdle), n) :
            Transfer(g, to, claimed, IdsOf(claimed))
  BY DEF XAutoClaim
<1>2. PICK claimed \in FirstPairs(Qualifying(g, from, minIdle), n) :
            Transfer(g, to, claimed, IdsOf(claimed))
  BY <1>1
<1>3. \A p \in claimed : /\ p \in StreamId \X Consumers
                         /\ p[1] \in pel[g][p[2]]
  BY <1>2 DEF FirstPairs, Qualifying
<1> DEFINE M == IdsOf(claimed)
           From == [c \in Consumers |-> {i \in StreamId : <<i, c>> \in claimed}]
<1>4. \A i \in M : \E c \in Consumers : <<i, c>> \in claimed /\ i \in pel[g][c]
  BY <1>3 DEF IdsOf
<1>5. ASSUME NEW c \in Consumers PROVE From[c] = pel[g][c] \intersect M
  <2>1. ASSUME NEW i \in StreamId, <<i, c>> \in claimed
        PROVE  i \in pel[g][c] /\ i \in M
    BY <1>3, <2>1 DEF IdsOf
  <2>2. ASSUME NEW i \in pel[g][c], i \in M
        PROVE  i \in StreamId /\ <<i, c>> \in claimed
    <3>1. PICK d \in Consumers : <<i, d>> \in claimed /\ i \in pel[g][d]
      BY <1>4, <2>2
    <3>2. d = c
      BY <2>2, <3>1 DEF IInv, GroupOK
    <3> QED  BY <2>2, <3>1, <3>2 DEF IInv, Types
  <2> QED  BY <2>1, <2>2
<1>6. /\ \A c \in Consumers :
            pel'[g][c] = (pel[g][c] \ From[c]) \union (IF c = to THEN M ELSE {})
      /\ \A h \in Groups : h # g => pel'[h] = pel[h]
  BY <1>2 DEF Transfer, IInv, Types
<1>7. acked' = acked
  BY DEF XAutoClaim, history
<1>8. \A i \in M : \E c \in Consumers : i \in pel[g][c]
  BY <1>4
<1> HIDE DEF M, From
<1>9. \A c \in Consumers, i \in StreamId : i \in M => (i \in pel'[g][c] <=> c = to)
  BY <1>5, <1>6
<1>10. \A c \in Consumers, i \in StreamId :
          i \notin M => (i \in pel'[g][c] <=> i \in pel[g][c])
  BY <1>5, <1>6
<1> QED  BY <1>6, <1>7, <1>8, <1>9, <1>10, MoveReassigns

\* XCLAIM without FORCE reassigns.
LEMMA ClaimReassigns ==
    ASSUME ~ AllowForce, IInv, IInv', NEW g \in Groups, NEW to \in Consumers, XClaim(g, to)
    PROVE  Queue!Reassign(g)
<1>1. PICK ids \in SUBSET (Pending(g) \union entries), minIdle \in BOOLEAN,
           force \in {FALSE, AllowForce}, idle \in {"None", "Short", "Long"} :
        \E from \in [ids -> Consumers] :
            LET moved == Moves(g, ids, from, minIdle, force)
                new   == moved \union Forced(g, ids, force)
                Left(c) == {i \in moved : from[i] = c}
            IN
            /\ \A i \in ids \intersect Pending(g) : from[i] \in Holders(g, i)
            /\ pel' = [pel EXCEPT ![g] = [c \in Consumers |->
                  (pel[g][c] \ Left(c)) \union (IF c = to THEN new ELSE {})]]
            /\ old' = [old EXCEPT ![g] = [c \in Consumers |->
                  IF c = to
                  THEN (old[g][c] \ (Left(c) \union new))
                          \union {i \in new : BecomesOld(g, i, from, idle)}
                  ELSE old[g][c] \ Left(c)]]
            /\ due' = [due EXCEPT ![g] = @ \ moved]
  BY DEF XClaim
<1>2. PICK from \in [ids -> Consumers] :
            LET moved == Moves(g, ids, from, minIdle, force)
                new   == moved \union Forced(g, ids, force)
                Left(c) == {i \in moved : from[i] = c}
            IN
            /\ \A i \in ids \intersect Pending(g) : from[i] \in Holders(g, i)
            /\ pel' = [pel EXCEPT ![g] = [c \in Consumers |->
                  (pel[g][c] \ Left(c)) \union (IF c = to THEN new ELSE {})]]
  BY <1>1
<1> DEFINE M == Moves(g, ids, from, minIdle, force)
           From == [c \in Consumers |-> {i \in M : from[i] = c}]
<1>3. M \union Forced(g, ids, force) = M
  <2>1. force = FALSE
    BY ConstantsAssumption
  <2> QED  BY <2>1 DEF Forced
<1>4. M \subseteq ids \intersect Pending(g)
  BY DEF Moves
<1>5. /\ \A i \in ids \intersect Pending(g) : from[i] \in Holders(g, i)
      /\ pel' = [pel EXCEPT ![g] = [c \in Consumers |->
            (pel[g][c] \ From[c]) \union (IF c = to THEN M ELSE {})]]
  BY <1>2, <1>3
<1>6. \A i \in M : from[i] \in Consumers /\ i \in pel[g][from[i]]
  BY <1>4, <1>5 DEF Holders
<1> HIDE DEF M
<1>7. ASSUME NEW c \in Consumers PROVE From[c] = pel[g][c] \intersect M
  <2>1. ASSUME NEW i \in M PROVE from[i] = c <=> i \in pel[g][c]
    BY <1>6 DEF IInv, GroupOK
  <2> QED  BY <2>1
<1>8. /\ \A c \in Consumers :
            pel'[g][c] = (pel[g][c] \ From[c]) \union (IF c = to THEN M ELSE {})
      /\ \A h \in Groups : h # g => pel'[h] = pel[h]
  BY <1>5 DEF IInv, Types
<1>9. acked' = acked
  BY DEF XClaim, history
<1>10. \A i \in M : \E c \in Consumers : i \in pel[g][c]
  BY <1>6
<1> HIDE DEF From
<1>11. \A c \in Consumers, i \in StreamId : i \in M => (i \in pel'[g][c] <=> c = to)
  BY <1>7, <1>8
<1>12. \A c \in Consumers, i \in StreamId :
          i \notin M => (i \in pel'[g][c] <=> i \in pel[g][c])
  BY <1>7, <1>8
<1> QED  BY <1>8, <1>9, <1>10, <1>11, <1>12, MoveReassigns

-----------------------------------------------------------------------------
\* A group created or destroyed, or all of them with the key, starts again.
LEMMA FreshForgets ==
    ASSUME IInv', NEW g \in Groups, NEW id, Fresh(g, id), Forget(g, id), IInv
    PROVE  Queue!Forget
<1>1. /\ pel'[g] = NoPending /\ acked'[g] = {}
      /\ \A h \in Groups : h # g => pel'[h] = pel[h] /\ acked'[h] = acked[h]
  BY DEF Fresh, Forget, IInv, Types
<1>2. \A i \in StreamId : HeldBy'[g][i] = {}
  BY <1>1, HeldByIs DEF NoPending
<1> QED  BY <1>1, <1>2, HeldByType, SameHolders DEF Queue!Forget

\* A key that goes takes its groups, and what they acknowledged, with it.
LEMMA KeyGoneForgets ==
    ASSUME IInv', KeyGone
    PROVE  Queue!Forget
<1>1. \A g \in Groups : pel'[g] = NoPending /\ acked'[g] = {}
  BY DEF KeyGone
<1>2. \A g \in Groups, i \in StreamId : HeldBy'[g][i] = {}
  BY <1>1, HeldByIs DEF NoPending
<1> QED  BY <1>1, <1>2, HeldByType DEF Queue!Forget

\* The empty groups are an empty queue.
LEMMA QueueInit == Init => Queue!Init
BY DEF Init, NoPending, Queue!Init, HeldBy, Holders

\* Every step is a step of the queue or leaves it alone.
LEMMA QueueStep ==
    ASSUME ~ AllowForce, IInv, IInv', [Next]_vars
    PROVE  [Queue!Next]_Queue!vars
<1>1. CASE XAddAuto \/ XAddExplicit
  <2>1. pel' = pel /\ acked' = acked
    BY <1>1 DEF XAddAuto, XAddExplicit, Insert, state, history
  <2> QED  BY <2>1, NoQueueStep
<1>2. CASE XTrim \/ XDel \/ TimePasses
  <2>1. pel' = pel /\ acked' = acked
    BY <1>2 DEF XTrim, XDel, TimePasses, state, history
  <2> QED  BY <2>1, NoQueueStep
<1>3. CASE KeyGone
  BY <1>3, KeyGoneForgets DEF Queue!Next
<1>4. ASSUME NEW g \in Groups, GroupStep(g) PROVE Queue!Next
  <2>1. CASE XGroupCreate(g) \/ XGroupDestroy(g)
    <3>1. \E id : Fresh(g, id) /\ Forget(g, id)
      BY <2>1 DEF XGroupCreate, XGroupDestroy
    <3> QED  BY <3>1, FreshForgets DEF Queue!Next
  <2>2. CASE XAck(g)
    BY <2>2, AckFinishes DEF Queue!Next
  <2>3. ASSUME NEW c \in Consumers, XReadGroup(g, c) PROVE Queue!Next
    BY <2>3, ReadHandsOut DEF Queue!Next
  <2>4. ASSUME NEW c \in Consumers, XAutoClaim(g, c) PROVE Queue!Next
    BY <2>4, AutoClaimReassigns DEF Queue!Next
  <2>5. ASSUME NEW c \in Consumers, XClaim(g, c) PROVE Queue!Next
    BY <2>5, ClaimReassigns DEF Queue!Next
  <2> QED  BY <1>4, <2>1, <2>2, <2>3, <2>4, <2>5 DEF GroupStep
<1>5. CASE UNCHANGED vars
  <2>1. pel' = pel /\ acked' = acked
    BY <1>5 DEF vars, state, history
  <2> QED  BY <2>1, NoQueueStep
<1> QED  BY <1>1, <1>2, <1>3, <1>4, <1>5 DEF Next

\* Consumer groups implement the work queue.
THEOREM GroupsImplementQueue ==
    ASSUME ~ AllowForce
    PROVE  Spec => ImplementsQueue
<1>1. Init => Queue!Init
  BY QueueInit
<1>2. IInv /\ IInv' /\ [Next]_vars => [Queue!Next]_Queue!vars
  BY QueueStep
<1> QED  BY <1>1, <1>2, GroupsInvariant, PTL DEF Spec, ImplementsQueue, Queue!Spec

=============================================================================
