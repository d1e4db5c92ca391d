------------------------- MODULE CallbackStorageProofs -------------------------
(***************************************************************************)
(* Proofs about M2MCallbackStorage (module CallbackStorage), for every     *)
(* set of objects, callbacks and types.                                    *)
(***************************************************************************)
EXTENDS CallbackStorage, WellFoundedInduction, TLAPS

-----------------------------------------------------------------------------
(* Lemmas about the sequence operators.                                    *)

\* A non-empty set of naturals has the least element Least picks.
LEMMA LeastIsLeast ==
    ASSUME NEW S \in SUBSET Nat, S # {}
    PROVE  /\ Least(S) \in S
           /\ \A y \in S : Least(S) <= y
<1>1. \E x \in S : \A y \in S : ~(<<y, x>> \in OpToRel(<, Nat))
  BY NatLessThanWellFounded, WFMin
<1>2. \E x \in S : \A y \in S : x <= y
  <2>1. PICK x \in S : \A y \in S : ~(<<y, x>> \in OpToRel(<, Nat))
    BY <1>1
  <2>2. ASSUME NEW y \in S PROVE ~(y < x)
    <3>1. <<y, x>> \in Nat \X Nat
      OBVIOUS
    <3>. QED
      BY <2>1, <3>1, Zenon DEF OpToRel
  <2>. QED
    BY <2>2
<1>. QED
  BY <1>2 DEF Least

\* The callback get_callback finds is a callback, or NULL.
LEMMA FirstMatchType ==
    ASSUME NEW s \in Seq(Assoc), NEW k
    PROVE  FirstMatch(s, k) \in Fns \cup {Null}
<1>1. CASE MatchIdx(s, k) # {}
  <2>1. MatchIdx(s, k) \subseteq 1 .. Len(s)
    BY DEF MatchIdx
  <2>2. Least(MatchIdx(s, k)) \in 1 .. Len(s)
    BY <1>1, <2>1, LeastIsLeast
  <2>3. s[Least(MatchIdx(s, k))] \in Assoc
    BY <2>2
  <2>. QED
    BY <1>1, <2>3 DEF FirstMatch, Assoc
<1>. QED
  BY <1>1 DEF FirstMatch

\* Erasing an element of a sequence leaves a sequence one shorter, whose
\* elements are the others in their order.
LEMMA EraseAtProps ==
    ASSUME NEW S, NEW s \in Seq(S), NEW i \in 1 .. Len(s)
    PROVE  /\ EraseAt(s, i) \in Seq(S)
           /\ Len(EraseAt(s, i)) = Len(s) - 1
           /\ \A j \in 1 .. Len(s) - 1 :
                 EraseAt(s, i)[j] = s[IF j < i THEN j ELSE j + 1]
<1>1. Len(s) - 1 \in Nat
  OBVIOUS
<1>2. EraseAt(s, i) \in [1 .. Len(s) - 1 -> S]
  BY DEF EraseAt
<1>. QED
  BY <1>1, <1>2 DEF EraseAt

-----------------------------------------------------------------------------
(* Type correctness.                                                        *)

LEMMA InitTyped == Init => TypeOK
<1> SUFFICES ASSUME Init PROVE TypeOK
  OBVIOUS
<1>1. cbs \in Seq(Assoc)
  BY DEF Init
<1>2. tgt \in (Objects \X Types) \cup {NoTarget}
  BY DEF Init
<1>3. /\ found \in Fns \cup {Null}
      /\ out \in Fns \cup {Null} \cup BOOLEAN
  BY DEF Init
<1>4. inst \in BOOLEAN /\ pc \in {"idle", "remove"}
  BY Zenon DEF Init
<1>5. idx \in Nat \ {0} /\ item \in Nat
  BY DEF Init
<1>. QED
  BY <1>1, <1>2, <1>3, <1>4, <1>5 DEF TypeOK

LEMMA TypeStep == TypeOK /\ [Next]_vars => TypeOK'
<1> SUFFICES ASSUME TypeOK, [Next]_vars PROVE TypeOK'
  OBVIOUS
<1>1. ASSUME NEW o \in Objects, NEW c \in Fns, NEW t \in Types, AddCallback(o, c, t)
      PROVE  TypeOK'
  <2>1. [obj |-> o, fn |-> c, type |-> t] \in Assoc
    BY DEF Assoc
  <2>. QED
    BY <1>1, <2>1 DEF AddCallback, TypeOK
<1>2. ASSUME NEW o \in Objects, NEW t \in Types, RemoveCallback(o, t)
      PROVE  TypeOK'
  BY <1>2 DEF RemoveCallback, TypeOK
<1>3. CASE RemoveIter
  <2>1. idx \in 1 .. Len(cbs)
    BY <1>3 DEF RemoveIter, TypeOK
  <2>2. EraseAt(cbs, idx) \in Seq(Assoc)
    BY <2>1, EraseAtProps DEF TypeOK
  <2>3. cbs[idx] \in Assoc
    BY <2>1 DEF TypeOK
  <2>4. cbs[idx].fn \in Fns
    BY <2>3 DEF Assoc
  <2>. QED
    BY <1>3, <2>2, <2>4 DEF RemoveIter, TypeOK
<1>4. CASE RemoveDone
  BY <1>4 DEF RemoveDone, TypeOK
<1>5. ASSUME NEW o \in Objects, NEW t \in Types, GetCallback(o, t)
      PROVE  TypeOK'
  BY <1>5, FirstMatchType DEF GetCallback, TypeOK
<1>6. ASSUME NEW o \in Objects, NEW t \in Types, GetAssociationItem(o, t)
      PROVE  TypeOK'
  <2>1. CASE MatchIdx(cbs, <<o, t>>) # {}
    <3>0. MatchIdx(cbs, <<o, t>>) \subseteq 1 .. Len(cbs)
      BY DEF MatchIdx
    <3>1. Least(MatchIdx(cbs, <<o, t>>)) \in Nat
      BY <2>1, <3>0, LeastIsLeast DEF TypeOK
    <3>. QED
      BY <1>6, <3>1 DEF GetAssociationItem, TypeOK
  <2>. QED
    BY <1>6, <2>1 DEF GetAssociationItem, TypeOK
<1>7. ASSUME NEW o \in Objects, NEW t \in Types, DoesCallbackExist(o, t)
      PROVE  TypeOK'
  BY <1>7 DEF DoesCallbackExist, TypeOK
<1>8. CASE DeleteInstance
  <2>1. cbs' \in Seq(Assoc)
    BY <1>8 DEF DeleteInstance
  <2>2. tgt' \in (Objects \X Types) \cup {NoTarget}
    BY <1>8 DEF DeleteInstance
  <2>. QED
    BY <1>8, <2>1, <2>2 DEF DeleteInstance, TypeOK
<1>9. CASE UNCHANGED vars
  BY <1>9 DEF vars, TypeOK
<1>10. CASE Next
  <2>1. CASE \E o \in Objects, c \in Fns, t \in Types : MayAdd(o, t) /\ AddCallback(o, c, t)
    BY <2>1, <1>1
  <2>2. CASE \E o \in Objects, t \in Types :
                \/ GetCallback(o, t)
                \/ GetAssociationItem(o, t)
                \/ DoesCallbackExist(o, t)
    BY <2>2, <1>5, <1>6, <1>7
  <2>. QED
    BY <1>10, <2>1, <2>2, <1>2, <1>3, <1>4, <1>8 DEF Next
<1>. QED
  BY <1>9, <1>10

\* Every value the storage holds has its type, whatever calls are made.
THEOREM TypeCorrect == Spec => []TypeOK
  BY InitTyped, TypeStep, PTL DEF Spec

-----------------------------------------------------------------------------
(* What remove_callback reports, whatever callers register.                *)

\* While do_remove_callback's loop has erased nothing, no association of
\* its object and type lies before the index.
CleanBehind ==
    pc = "remove" /\ found = Null =>
        /\ tgt \in Objects \X Types
        /\ \A i \in MatchIdx(cbs, tgt) : idx <= i

\* Without an instance there are no associations.
NoInstanceEmpty == ~inst => cbs = <<>>

NInv == TypeOK /\ CleanBehind /\ NoInstanceEmpty /\ RemoveNullMeansNone

LEMMA NInvStep == NInv /\ [Next]_vars => NInv'
<1> SUFFICES ASSUME NInv, [Next]_vars PROVE NInv'
  OBVIOUS
<1>0. TypeOK'
  BY TypeStep DEF NInv
<1>1. ASSUME NEW o \in Objects, NEW c \in Fns, NEW t \in Types, AddCallback(o, c, t)
      PROVE  NInv'
  BY <1>0, <1>1 DEF AddCallback, NInv, CleanBehind, NoInstanceEmpty, RemoveNullMeansNone
<1>2. ASSUME NEW o \in Objects, NEW t \in Types, RemoveCallback(o, t)
      PROVE  NInv'
  <2>1. CASE inst
    <3>1. pc' = "remove" /\ found' = Null /\ idx' = 1 /\ tgt' = <<o, t>>
          /\ inst' = inst /\ cbs' = cbs
      BY <1>2, <2>1 DEF RemoveCallback
    <3>2. CleanBehind'
      BY <3>1 DEF CleanBehind, MatchIdx
    <3>3. NoInstanceEmpty' /\ RemoveNullMeansNone'
      BY <2>1, <3>1 DEF NoInstanceEmpty, RemoveNullMeansNone
    <3>. QED
      BY <1>0, <3>2, <3>3 DEF NInv
  <2>2. CASE ~inst
    <3>1. cbs = <<>>
      BY <2>2 DEF NInv, NoInstanceEmpty
    <3>2. MatchIdx(cbs', tgt') = {}
      BY <1>2, <3>1 DEF RemoveCallback, MatchIdx
    <3>. QED
      BY <1>0, <1>2, <2>2, <3>2 DEF RemoveCallback, NInv, CleanBehind, NoInstanceEmpty,
         RemoveNullMeansNone
  <2>. QED
    BY <2>1, <2>2
<1>3. CASE RemoveIter
  <2>1. idx \in 1 .. Len(cbs) /\ cbs[idx] \in Assoc
    BY <1>3 DEF RemoveIter, NInv, TypeOK
  <2>2. CASE Matches(cbs[idx], tgt)
    <3>1. found' \in Fns
      BY <1>3, <2>1, <2>2 DEF RemoveIter, Assoc
    <3>2. found' # Null
      BY <3>1, NullAssumption
    <3>3. pc' = "remove" /\ inst' = inst /\ inst
      BY <1>3, <2>1 DEF RemoveIter, NInv, NoInstanceEmpty
    <3>4. CleanBehind' /\ NoInstanceEmpty' /\ RemoveNullMeansNone'
      BY <3>2, <3>3 DEF CleanBehind, NoInstanceEmpty, RemoveNullMeansNone
    <3>. QED
      BY <1>0, <3>4 DEF NInv
  <2>3. CASE ~Matches(cbs[idx], tgt)
    <3>1. cbs' = cbs /\ found' = found /\ tgt' = tgt /\ idx' = idx + 1 /\ pc' = pc
      BY <1>3, <2>3 DEF RemoveIter
    <3>2. CleanBehind'
      BY <1>3, <2>3, <3>1 DEF NInv, CleanBehind, MatchIdx, TypeOK
    <3>. QED
      BY <1>0, <1>3, <3>1, <3>2 DEF RemoveIter, NInv, NoInstanceEmpty, RemoveNullMeansNone
  <2>. QED
    BY <2>2, <2>3
<1>4. CASE RemoveDone
  <2>1. found = Null => MatchIdx(cbs, tgt) = {}
    BY <1>4 DEF RemoveDone, NInv, CleanBehind, MatchIdx, TypeOK
  <2>. QED
    BY <1>0, <1>4, <2>1 DEF RemoveDone, NInv, CleanBehind, NoInstanceEmpty,
       RemoveNullMeansNone
<1>5. ASSUME NEW o \in Objects, NEW t \in Types,
             GetCallback(o, t) \/ GetAssociationItem(o, t) \/ DoesCallbackExist(o, t)
      PROVE  NInv'
  BY <1>0, <1>5 DEF GetCallback, GetAssociationItem, DoesCallbackExist, NInv,
     CleanBehind, NoInstanceEmpty, RemoveNullMeansNone
<1>6. CASE DeleteInstance
  <2>1. MatchIdx(cbs', tgt') = {}
    BY <1>6 DEF DeleteInstance, MatchIdx
  <2>. QED
    BY <1>0, <1>6, <2>1 DEF DeleteInstance, NInv, CleanBehind, NoInstanceEmpty,
       RemoveNullMeansNone
<1>7. CASE UNCHANGED vars
  BY <1>0, <1>7 DEF vars, NInv, CleanBehind, NoInstanceEmpty, RemoveNullMeansNone
<1>. QED
  BY <1>1, <1>2, <1>3, <1>4, <1>5, <1>6, <1>7 DEF Next

\* remove_callback returns NULL only when no association of its object and
\* type is left, however many callbacks callers registered for it.
THEOREM RemoveNullSound == Spec => []RemoveNullMeansNone
<1>1. Init => NInv
  BY InitTyped DEF Init, NInv, CleanBehind, NoInstanceEmpty, RemoveNullMeansNone
<1>. QED
  BY <1>1, NInvStep, PTL DEF Spec, NInv

-----------------------------------------------------------------------------
(* Callers that register one callback per object and type.                 *)

\* Every object and type has at most one association.
OneMatch == \A k \in Objects \X Types : \A i, j \in MatchIdx(cbs, k) : i = j

\* While do_remove_callback's loop runs, no association of its object and
\* type lies before the index.
LoopAhead ==
    pc = "remove" => /\ tgt \in Objects \X Types
                     /\ \A i \in MatchIdx(cbs, tgt) : idx <= i

RInv == TypeOK /\ OneMatch /\ LoopAhead /\ NoInstanceEmpty /\ RemoveClearsType

\* An association matches exactly the key made of its object and type.
LEMMA MatchesKey ==
    ASSUME NEW a \in Assoc, NEW k \in Objects \X Types
    PROVE  Matches(a, k) <=> k = <<a.obj, a.type>>
  BY DEF Matches, Assoc

\* A set of naturals with at most one element is empty or a singleton.
LEMMA AtMostOne ==
    ASSUME NEW S, \A i, j \in S : i = j
    PROVE  S = {} \/ \E m \in S : S = {m}
  OBVIOUS

\* get_callback finds the callback of the only match, or NULL when none.
LEMMA FirstMatchOne ==
    ASSUME NEW s \in Seq(Assoc), NEW k, NEW m, MatchIdx(s, k) = {m}
    PROVE  FirstMatch(s, k) = s[m].fn
<1>1. m \in Nat
  BY DEF MatchIdx
<1>2. Least({m}) = m
  BY <1>1, LeastIsLeast
<1>. QED
  BY <1>2 DEF FirstMatch

LEMMA FirstMatchNull ==
    ASSUME NEW s \in Seq(Assoc), NEW k
    PROVE  FirstMatch(s, k) = Null <=> MatchIdx(s, k) = {}
<1>1. CASE MatchIdx(s, k) # {}
  <2>1. MatchIdx(s, k) \subseteq 1 .. Len(s)
    BY DEF MatchIdx
  <2>2. Least(MatchIdx(s, k)) \in 1 .. Len(s)
    BY <1>1, <2>1, LeastIsLeast
  <2>3. s[Least(MatchIdx(s, k))] \in Assoc
    BY <2>2
  <2>4. s[Least(MatchIdx(s, k))].fn \in Fns
    BY <2>3 DEF Assoc
  <2>. QED
    BY <1>1, <2>4, NullAssumption DEF FirstMatch
<1>. QED
  BY <1>1 DEF FirstMatch

\* Appending an association: the matches of other keys are those before,
\* and a key without a match gets the new one.
LEMMA MatchAppend ==
    ASSUME NEW s \in Seq(Assoc), NEW a \in Assoc, NEW k
    PROVE  /\ ~Matches(a, k) => /\ MatchIdx(Append(s, a), k) = MatchIdx(s, k)
                                /\ FirstMatch(Append(s, a), k) = FirstMatch(s, k)
           /\ Matches(a, k) /\ MatchIdx(s, k) = {} =>
                 /\ MatchIdx(Append(s, a), k) = {Len(s) + 1}
                 /\ FirstMatch(Append(s, a), k) = a.fn
<1>1. ~Matches(a, k) => MatchIdx(Append(s, a), k) = MatchIdx(s, k)
  BY DEF MatchIdx
<1>2. ~Matches(a, k) => FirstMatch(Append(s, a), k) = FirstMatch(s, k)
  <2>1. CASE MatchIdx(s, k) # {}
    <3>1. Least(MatchIdx(s, k)) \in 1 .. Len(s)
      <4>1. MatchIdx(s, k) \subseteq 1 .. Len(s)
        BY DEF MatchIdx
      <4>. QED
        BY <2>1, <4>1, LeastIsLeast
    <3>. QED
      BY <1>1, <3>1 DEF FirstMatch
  <2>. QED
    BY <1>1, <2>1 DEF FirstMatch
<1>3. Matches(a, k) /\ MatchIdx(s, k) = {} => MatchIdx(Append(s, a), k) = {Len(s) + 1}
  BY DEF MatchIdx
<1>4. ASSUME Matches(a, k), MatchIdx(s, k) = {}
      PROVE  FirstMatch(Append(s, a), k) = a.fn
  <2>1. Append(s, a) \in Seq(Assoc) /\ Append(s, a)[Len(s) + 1] = a
    OBVIOUS
  <2>2. FirstMatch(Append(s, a), k) = Append(s, a)[Len(s) + 1].fn
    BY <1>3, <1>4, <2>1, FirstMatchOne
  <2>. QED
    BY <2>1, <2>2
<1>. QED
  BY <1>1, <1>2, <1>3, <1>4

\* Erasing the element at i: the matches that remain move down past i.
LEMMA MatchErase ==
    ASSUME NEW s \in Seq(Assoc), NEW i \in 1 .. Len(s), NEW k,
           \A m, n \in MatchIdx(s, k) : m = n
    PROVE  /\ Matches(s[i], k) => MatchIdx(EraseAt(s, i), k) = {}
           /\ ~Matches(s[i], k) =>
                 /\ FirstMatch(EraseAt(s, i), k) = FirstMatch(s, k)
                 /\ \A m, n \in MatchIdx(EraseAt(s, i), k) : m = n
<1>. DEFINE E == EraseAt(s, i)
            Pre(j) == IF j < i THEN j ELSE j + 1
<1>1. /\ E \in Seq(Assoc)
      /\ Len(E) = Len(s) - 1
      /\ \A j \in 1 .. Len(s) - 1 : E[j] = s[Pre(j)]
  BY EraseAtProps
<1>2. \A j \in 1 .. Len(s) - 1 : j \in MatchIdx(E, k) <=> Pre(j) \in MatchIdx(s, k)
  BY <1>1 DEF MatchIdx
<1>3. MatchIdx(E, k) \subseteq 1 .. Len(s) - 1
  BY <1>1 DEF MatchIdx
<1>4. \A j \in 1 .. Len(s) - 1 : Pre(j) \in 1 .. Len(s) \ {i}
  OBVIOUS
<1>5. ASSUME Matches(s[i], k) PROVE MatchIdx(E, k) = {}
  <2>1. MatchIdx(s, k) = {i}
    BY <1>5 DEF MatchIdx
  <2>. QED
    BY <1>2, <1>3, <1>4, <2>1
<1>6. ASSUME ~Matches(s[i], k)
      PROVE  /\ FirstMatch(E, k) = FirstMatch(s, k)
             /\ \A m, n \in MatchIdx(E, k) : m = n
  <2>1. CASE MatchIdx(s, k) = {}
    <3>1. MatchIdx(E, k) = {}
      BY <2>1, <1>2, <1>3
    <3>. QED
      BY <2>1, <3>1 DEF FirstMatch
  <2>2. CASE MatchIdx(s, k) # {}
    <3>1. PICK m \in MatchIdx(s, k) : MatchIdx(s, k) = {m}
      BY <2>2
    <3>2. m \in 1 .. Len(s) /\ m # i
      BY <3>1, <1>6 DEF MatchIdx
    <3>3. MatchIdx(E, k) = {IF m < i THEN m ELSE m - 1}
      BY <3>1, <3>2, <1>2, <1>3
    <3>4. E[IF m < i THEN m ELSE m - 1] = s[m]
      BY <3>2, <1>1
    <3>5. FirstMatch(E, k) = E[IF m < i THEN m ELSE m - 1].fn
      <4>. HIDE DEF E
      <4>. QED
        BY <1>1, <3>3, FirstMatchOne
    <3>6. FirstMatch(s, k) = s[m].fn
      BY <3>1, FirstMatchOne
    <3>. QED
      BY <3>3, <3>4, <3>5, <3>6
  <2>. QED
    BY <2>1, <2>2
<1>. QED
  BY <1>5, <1>6

\* Under the one-per-type discipline, add_callback appends the first
\* association of its object and type.
LEMMA AddAppends ==
    ASSUME TypeOK, OnePerType,
           NEW o \in Objects, NEW c \in Fns, NEW t \in Types,
           MayAdd(o, t), AddCallback(o, c, t)
    PROVE  /\ MatchIdx(cbs, <<o, t>>) = {}
           /\ cbs' = Append(cbs, [obj |-> o, fn |-> c, type |-> t])
<1>. DEFINE a == [obj |-> o, fn |-> c, type |-> t]
<1>1. MatchIdx(cbs, <<o, t>>) = {}
  BY FirstMatchNull DEF MayAdd, TypeOK
<1>2. ~TripleExists(cbs, a)
  BY <1>1 DEF TripleExists, MatchIdx, Matches
<1>. QED
  BY <1>1, <1>2 DEF AddCallback

LEMMA RInvStep ==
    ASSUME OnePerType, RInv, [Next]_vars
    PROVE  RInv'
<1>0. TypeOK /\ TypeOK'
  BY TypeStep DEF RInv
<1>. USE DEF RInv
<1>1. ASSUME NEW o \in Objects, NEW c \in Fns, NEW t \in Types,
             MayAdd(o, t), AddCallback(o, c, t)
      PROVE  RInv'
  <2>. DEFINE a == [obj |-> o, fn |-> c, type |-> t]
  <2>1. a \in Assoc /\ a.obj = o /\ a.type = t
    BY DEF Assoc
  <2>2. MatchIdx(cbs, <<o, t>>) = {} /\ cbs' = Append(cbs, a)
    BY <1>0, <1>1, AddAppends
  <2>3. OneMatch'
    <3>1. SUFFICES ASSUME NEW k \in Objects \X Types
                   PROVE  \A i, j \in MatchIdx(cbs', k) : i = j
      BY DEF OneMatch
    <3>2. CASE Matches(a, k)
      <4>1. k = <<o, t>>
        BY <2>1, <3>2, MatchesKey
      <4>. QED
        BY <1>0, <2>1, <2>2, <3>2, <4>1, MatchAppend DEF TypeOK
    <3>3. CASE ~Matches(a, k)
      BY <2>1, <2>2, <3>3, MatchAppend DEF TypeOK, OneMatch
    <3>. QED
      BY <3>2, <3>3
  <2>4. /\ pc' = "idle" /\ inst' /\ tgt' = NoTarget
    BY <1>1 DEF AddCallback
  <2>. QED
    BY <1>0, <2>3, <2>4 DEF LoopAhead, NoInstanceEmpty, RemoveClearsType
<1>2. ASSUME NEW o \in Objects, NEW t \in Types, RemoveCallback(o, t)
      PROVE  RInv'
  <2>1. UNCHANGED <<cbs, inst>> /\ tgt' = <<o, t>>
    BY <1>2 DEF RemoveCallback
  <2>2. OneMatch' /\ NoInstanceEmpty'
    BY <2>1 DEF OneMatch, NoInstanceEmpty
  <2>3. CASE inst
    <3>1. pc' = "remove" /\ idx' = 1
      BY <1>2, <2>3 DEF RemoveCallback
    <3>2. LoopAhead'
      BY <1>0, <2>1, <3>1 DEF LoopAhead, MatchIdx
    <3>. QED
      BY <1>0, <2>2, <3>1, <3>2 DEF RemoveClearsType
  <2>4. CASE ~inst
    <3>1. pc' = pc /\ pc = "idle" /\ cbs = <<>>
      BY <1>2, <2>4 DEF RemoveCallback, NoInstanceEmpty
    <3>. QED
      BY <1>0, <2>1, <2>2, <3>1 DEF LoopAhead, RemoveClearsType, MatchIdx
  <2>. QED
    BY <2>3, <2>4, <1>0 DEF TypeOK
<1>3. CASE RemoveIter
  <2>1. idx \in 1 .. Len(cbs) /\ pc = "remove" /\ tgt \in Objects \X Types
    BY <1>0, <1>3 DEF RemoveIter, TypeOK, LoopAhead
  <2>2. /\ UNCHANGED <<inst, pc, tgt>> /\ idx' = idx + 1
        /\ cbs # <<>>
    BY <1>3, <2>1 DEF RemoveIter
  <2>3. NoInstanceEmpty' /\ RemoveClearsType'
    BY <2>1, <2>2 DEF NoInstanceEmpty, RemoveClearsType
  <2>4. CASE Matches(cbs[idx], tgt)
    <3>1. cbs' = EraseAt(cbs, idx)
      BY <1>3, <2>4 DEF RemoveIter
    <3>2. MatchIdx(cbs', tgt) = {}
      BY <1>0, <2>1, <2>4, <3>1, MatchErase DEF TypeOK, OneMatch
    <3>3. OneMatch'
      <4>1. SUFFICES ASSUME NEW k \in Objects \X Types
                     PROVE  \A i, j \in MatchIdx(cbs', k) : i = j
        BY DEF OneMatch
      <4>. QED
        BY <1>0, <2>1, <3>1, MatchErase DEF TypeOK, OneMatch
    <3>. QED
      BY <1>0, <2>1, <2>2, <2>3, <3>2, <3>3 DEF LoopAhead
  <2>5. CASE ~Matches(cbs[idx], tgt)
    <3>1. cbs' = cbs
      BY <1>3, <2>5 DEF RemoveIter
    <3>2. idx \notin MatchIdx(cbs, tgt)
      BY <2>5 DEF MatchIdx
    <3>3. LoopAhead'
      BY <2>1, <2>2, <3>1, <3>2 DEF LoopAhead, MatchIdx
    <3>. QED
      BY <1>0, <2>3, <3>1, <3>3 DEF OneMatch
  <2>. QED
    BY <2>4, <2>5
<1>4. CASE RemoveDone
  <2>1. /\ pc = "remove" /\ idx > Len(cbs) /\ pc' = "idle"
        /\ UNCHANGED <<inst, cbs, tgt>>
    BY <1>4 DEF RemoveDone
  <2>2. MatchIdx(cbs, tgt) = {}
    BY <1>0, <2>1 DEF LoopAhead, MatchIdx, TypeOK
  <2>. QED
    BY <1>0, <2>1, <2>2 DEF OneMatch, LoopAhead, NoInstanceEmpty, RemoveClearsType
<1>5. ASSUME NEW o \in Objects, NEW t \in Types,
             \/ GetCallback(o, t)
             \/ GetAssociationItem(o, t)
             \/ DoesCallbackExist(o, t)
      PROVE  RInv'
  <2>1. /\ UNCHANGED <<cbs, pc>> /\ pc = "idle"
        /\ inst' /\ tgt' = NoTarget
    BY <1>5 DEF GetCallback, GetAssociationItem, DoesCallbackExist
  <2>. QED
    BY <1>0, <2>1 DEF OneMatch, LoopAhead, NoInstanceEmpty, RemoveClearsType
<1>6. CASE DeleteInstance
  <2>1. cbs' = <<>> /\ pc' = "idle" /\ tgt' = NoTarget
    BY <1>6 DEF DeleteInstance
  <2>2. \A k : MatchIdx(cbs', k) = {}
    BY <2>1 DEF MatchIdx
  <2>. QED
    BY <1>0, <2>1, <2>2 DEF OneMatch, LoopAhead, NoInstanceEmpty, RemoveClearsType
<1>7. CASE UNCHANGED vars
  BY <1>0, <1>7 DEF vars, OneMatch, LoopAhead, NoInstanceEmpty, RemoveClearsType
<1>. QED
  BY <1>1, <1>2, <1>3, <1>4, <1>5, <1>6, <1>7 DEF Next

LEMMA RInvInit == Init => RInv
  BY InitTyped DEF Init, RInv, OneMatch, LoopAhead, NoInstanceEmpty,
                  RemoveClearsType, MatchIdx

LEMMA RInvHolds == ASSUME OnePerType PROVE Spec => []RInv
  BY RInvInit, RInvStep, PTL DEF Spec

\* When callers register one callback per object and type,
\* remove_callback(object, type) leaves no association of that object and
\* type: the index skip after an erase in do_remove_callback then never
\* passes over a match.
THEOREM RemoveClears == ASSUME OnePerType PROVE Spec => []RemoveClearsType
  BY RInvHolds, PTL DEF RInv

-----------------------------------------------------------------------------
(* Refinement of the registry.                                             *)

\* Each step of the storage is a step of the registry or leaves the
\* callback get_callback finds for every object and type unchanged.
LEMMA RegistryStep ==
    ASSUME OnePerType, RInv, [Next]_vars
    PROVE  [Registry!Next]_reg
<1>0. TypeOK /\ OneMatch /\ LoopAhead
  BY DEF RInv
<1>1. ASSUME NEW o \in Objects, NEW c \in Fns, NEW t \in Types,
             MayAdd(o, t), AddCallback(o, c, t)
      PROVE  Registry!Register(o, c, t)
  <2>. DEFINE a == [obj |-> o, fn |-> c, type |-> t]
  <2>1. a \in Assoc /\ a.obj = o /\ a.type = t /\ a.fn = c
    BY DEF Assoc
  <2>2. MatchIdx(cbs, <<o, t>>) = {} /\ cbs' = Append(cbs, a)
    BY <1>0, <1>1, AddAppends
  <2>3. reg[<<o, t>>] = Null
    BY <1>1 DEF MayAdd, reg
  <2>4. ASSUME NEW k \in Objects \X Types
        PROVE  FirstMatch(cbs', k) = IF k = <<o, t>> THEN c ELSE FirstMatch(cbs, k)
    <3>1. Matches(a, k) <=> k = <<o, t>>
      BY <2>1, MatchesKey
    <3>2. CASE k = <<o, t>>
      <4>1. Matches(a, k) /\ MatchIdx(cbs, k) = {}
        BY <2>2, <3>1, <3>2
      <4>. QED
        BY <1>0, <2>1, <2>2, <3>2, <4>1, MatchAppend DEF TypeOK
    <3>3. CASE k # <<o, t>>
      BY <1>0, <2>1, <2>2, <3>1, <3>3, MatchAppend DEF TypeOK
    <3>. QED
      BY <3>2, <3>3
  <2>5. reg' = [reg EXCEPT ![<<o, t>>] = c]
    BY <2>4 DEF reg
  <2>. QED
    BY <2>3, <2>5 DEF Registry!Register
<1>2. ASSUME RemoveIter, Matches(cbs[idx], tgt)
      PROVE  Registry!Unregister(tgt[1], tgt[2])
  <2>1. idx \in 1 .. Len(cbs) /\ tgt \in Objects \X Types
    BY <1>0, <1>2 DEF RemoveIter, TypeOK, LoopAhead
  <2>2. cbs' = EraseAt(cbs, idx)
    BY <1>2 DEF RemoveIter
  <2>3. cbs[idx] \in Assoc /\ tgt = <<cbs[idx].obj, cbs[idx].type>>
    BY <1>0, <1>2, <2>1, MatchesKey DEF TypeOK
  <2>4. ASSUME NEW k \in Objects \X Types
        PROVE  FirstMatch(cbs', k) = IF k = tgt THEN Null ELSE FirstMatch(cbs, k)
    <3>1. Matches(cbs[idx], k) <=> k = tgt
      BY <2>3, MatchesKey
    <3>2. CASE k = tgt
      <4>1. MatchIdx(cbs', k) = {}
        BY <1>0, <2>1, <2>2, <3>1, <3>2, MatchErase DEF TypeOK, OneMatch
      <4>. QED
        BY <3>2, <4>1 DEF FirstMatch
    <3>3. CASE k # tgt
      BY <1>0, <2>1, <2>2, <3>1, <3>3, MatchErase DEF TypeOK, OneMatch
    <3>. QED
      BY <3>2, <3>3
  <2>5. <<tgt[1], tgt[2]>> = tgt
    BY <2>1
  <2>. QED
    BY <2>4, <2>5 DEF reg, Registry!Unregister
<1>3. ASSUME DeleteInstance PROVE Registry!Clear
  <2>1. cbs' = <<>>
    BY <1>3 DEF DeleteInstance
  <2>2. \A k : FirstMatch(cbs', k) = Null
    BY <2>1 DEF FirstMatch, MatchIdx
  <2>. QED
    BY <2>2 DEF reg, Registry!Clear, Registry!Keys
<1>4. CASE cbs' = cbs
  <2>1. reg' = reg
    BY <1>4, Zenon DEF reg
  <2>. QED
    BY <2>1
<1>5. CASE RemoveIter /\ ~Matches(cbs[idx], tgt)
  BY <1>5, <1>4 DEF RemoveIter
<1>6. CASE RemoveIter
  <2>1. CASE Matches(cbs[idx], tgt)
    <3>1. tgt[1] \in Objects /\ tgt[2] \in Types
      BY <1>0, <1>6 DEF RemoveIter, LoopAhead
    <3>. QED
      BY <1>2, <1>6, <2>1, <3>1 DEF Registry!Next
  <2>. QED
    BY <1>5, <1>6, <2>1
<1>7. CASE \E o \in Objects, c \in Fns, t \in Types : MayAdd(o, t) /\ AddCallback(o, c, t)
  BY <1>1, <1>7 DEF Registry!Next
<1>8. CASE \/ \E o \in Objects, t \in Types : RemoveCallback(o, t)
           \/ RemoveDone
           \/ \E o \in Objects, t \in Types :
                 \/ GetCallback(o, t)
                 \/ GetAssociationItem(o, t)
                 \/ DoesCallbackExist(o, t)
           \/ UNCHANGED vars
  <2>. cbs' = cbs
    BY <1>8 DEF RemoveCallback, RemoveDone, GetCallback, GetAssociationItem,
                DoesCallbackExist, vars
  <2>. QED
    BY <1>4
<1>9. CASE DeleteInstance
  BY <1>3, <1>9 DEF Registry!Next
<1>. QED
  BY <1>6, <1>7, <1>8, <1>9 DEF Next

\* When callers register one callback per object and type, the storage
\* implements the registry: get_callback's answers change only as
\* add_callback registering into an empty slot, remove_callback
\* unregistering, or delete_instance clearing all would change them.
THEOREM Refinement == ASSUME OnePerType PROVE Spec => CallbackRegistrySpec
<1>1. Init => Registry!Init
  <2>. SUFFICES ASSUME Init PROVE Registry!Init
    OBVIOUS
  <2>1. \A k : FirstMatch(cbs, k) = Null
    BY DEF Init, FirstMatch, MatchIdx
  <2>. QED
    BY <2>1 DEF reg, Registry!Init, Registry!Keys
<1>2. RInv /\ [Next]_vars => [Registry!Next]_reg
  BY RegistryStep
<1>. QED
  BY <1>1, <1>2, RInvHolds, PTL DEF Spec, CallbackRegistrySpec, Registry!Spec
=============================================================================
