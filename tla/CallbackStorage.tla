---------------------------- MODULE CallbackStorage ----------------------------
(***************************************************************************)
(* M2MCallbackStorage (src/mbed-client/source/m2mcallbackstorage.cpp): a  *)
(* lazily created singleton holding a Vector of associations (object,      *)
(* callback, type).  Calls come from the client's one event thread and do  *)
(* not interleave; the erase loop of do_remove_callback is modelled one    *)
(* iteration per step because its index arithmetic is the point of         *)
(* interest, and no other call runs while it is in progress.  The          *)
(* client_args of an association is data no property inspects and is left *)
(* out.                                                                    *)
(***************************************************************************)
EXTENDS Naturals, Sequences

CONSTANTS
    Objects,     \* M2MBase objects that register callbacks
    Fns,         \* callback function pointers
    Types,       \* M2MCallbackAssociation::M2MCallbackType
    Null,        \* the NULL pointer
    OnePerType   \* callers register at most one callback per object and type

ASSUME NullAssumption == Null \notin Fns
ASSUME OnePerTypeAssumption == OnePerType \in BOOLEAN

Assoc == [obj : Objects, fn : Fns, type : Types]
NoTarget == <<Null, Null>>

VARIABLES
    inst,    \* M2MCallbackStorage::_static_instance # NULL
    cbs,     \* _callbacks, the Vector of associations
    pc,      \* "remove" while do_remove_callback's loop runs
    idx,     \* its index
    tgt,     \* <<object, type>> of the remove_callback call last made
    found,   \* its local variable callback
    out,     \* the value the last call returned
    item     \* the pointer get_association_item last returned: a position
             \* in the Vector's buffer, 0 for NULL

vars == <<inst, cbs, pc, idx, tgt, found, out, item>>

\* fault variant: the type is not compared
MatchesObject(a, k) == a.obj = k[1]

Matches(a, k) == a.obj = k[1] /\ a.type = k[2]
Least(S) == CHOOSE i \in S : \A j \in S : i <= j
MatchIdx(s, k) == {i \in 1 .. Len(s) : Matches(s[i], k)}

\* do_get_callback: the callback of the first association of object and
\* type, NULL when there is none
FirstMatch(s, k) == IF MatchIdx(s, k) = {} THEN Null ELSE s[Least(MatchIdx(s, k))].fn

\* does_callback_exist(object, callback, type)
TripleExists(s, a) == \E i \in 1 .. Len(s) : s[i] = a

\* Vector::erase(i): the elements after i move down by one
EraseAt(s, i) == [j \in 1 .. Len(s) - 1 |-> IF j < i THEN s[j] ELSE s[j + 1]]

Init ==
    /\ inst = FALSE
    /\ cbs = <<>>
    /\ pc = "idle"
    /\ idx = 1
    /\ tgt = NoTarget
    /\ found = Null
    /\ out = Null
    /\ item = 0

\* add_callback: get_instance creates the storage if needed, and
\* do_add_callback appends the association unless the same object,
\* callback and type are already there
AddCallback(o, c, t) ==
    LET a == [obj |-> o, fn |-> c, type |-> t]
    IN  /\ pc = "idle"
        /\ inst' = TRUE
        /\ cbs' = IF TripleExists(cbs, a) THEN cbs ELSE Append(cbs, a)
        /\ out' = ~TripleExists(cbs, a)
        /\ tgt' = NoTarget
        /\ UNCHANGED <<item, pc, idx, found>>

\* fault variant: the loop starts one element late
RemoveCallbackFromSecond(o, t) ==
    /\ pc = "idle"
    /\ tgt' = <<o, t>>
    /\ found' = Null
    /\ IF inst
       THEN /\ pc' = "remove"
            /\ idx' = 2
            /\ UNCHANGED out
       ELSE /\ out' = Null
            /\ UNCHANGED <<pc, idx>>
    /\ UNCHANGED <<item, inst, cbs>>

\* remove_callback: without an instance NULL is returned at once, otherwise
\* do_remove_callback's loop starts at index 0 (1 here)
RemoveCallback(o, t) ==
    /\ pc = "idle"
    /\ tgt' = <<o, t>>
    /\ found' = Null
    /\ IF inst
       THEN /\ pc' = "remove"
            /\ idx' = 1
            /\ UNCHANGED out
       ELSE /\ out' = Null
            /\ UNCHANGED <<pc, idx>>
    /\ UNCHANGED <<item, inst, cbs>>

\* fault variant: the association itself is kept instead of its callback
RemoveIterKeepsItem ==
    /\ pc = "remove"
    /\ idx <= Len(cbs)
    /\ IF Matches(cbs[idx], tgt)
       THEN /\ found' = cbs[idx]
            /\ cbs' = EraseAt(cbs, idx)
       ELSE UNCHANGED <<found, cbs>>
    /\ idx' = idx + 1
    /\ UNCHANGED <<item, inst, pc, tgt, out>>

\* one iteration of do_remove_callback: a matching association is erased,
\* and the index is incremented whether or not it was
RemoveIter ==
    /\ pc = "remove"
    /\ idx <= Len(cbs)
    /\ IF Matches(cbs[idx], tgt)
       THEN /\ found' = cbs[idx].fn
            /\ cbs' = EraseAt(cbs, idx)
       ELSE UNCHANGED <<found, cbs>>
    /\ idx' = idx + 1
    /\ UNCHANGED <<item, inst, pc, tgt, out>>

\* the loop ends: the callback of the last erased association is returned
RemoveDone ==
    /\ pc = "remove"
    /\ idx > Len(cbs)
    /\ pc' = "idle"
    /\ out' = found
    /\ UNCHANGED <<item, inst, cbs, idx, tgt, found>>

\* get_callback / get_association_item: get_instance creates the storage
\* if needed; the first association of object and type is looked up
GetCallback(o, t) ==
    /\ pc = "idle"
    /\ inst' = TRUE
    /\ out' = FirstMatch(cbs, <<o, t>>)
    /\ tgt' = NoTarget
    /\ UNCHANGED <<item, cbs, pc, idx, found>>

\* get_association_item: get_instance, then a pointer to the first
\* association of object and type, NULL when there is none
GetAssociationItem(o, t) ==
    /\ pc = "idle"
    /\ inst' = TRUE
    /\ item' = IF MatchIdx(cbs, <<o, t>>) = {} THEN 0 ELSE Least(MatchIdx(cbs, <<o, t>>))
    /\ tgt' = NoTarget
    /\ UNCHANGED <<cbs, pc, idx, found, out>>

\* does_callback_exist(object, type): get_callback(...) # NULL
DoesCallbackExist(o, t) ==
    /\ pc = "idle"
    /\ inst' = TRUE
    /\ out' = (FirstMatch(cbs, <<o, t>>) # Null)
    /\ tgt' = NoTarget
    /\ UNCHANGED <<item, cbs, pc, idx, found>>

\* delete_instance: the destructor erases every association
DeleteInstance ==
    /\ pc = "idle"
    /\ inst' = FALSE
    /\ cbs' = <<>>
    /\ tgt' = NoTarget
    /\ UNCHANGED <<item, pc, idx, found, out>>

\* a caller that registers one callback per object and type adds only
\* where get_callback finds none
MayAdd(o, t) == ~OnePerType \/ FirstMatch(cbs, <<o, t>>) = Null

Next ==
    \/ \E o \in Objects, c \in Fns, t \in Types : MayAdd(o, t) /\ AddCallback(o, c, t)
    \/ \E o \in Objects, t \in Types : RemoveCallback(o, t)
    \/ RemoveIter
    \/ RemoveDone
    \/ \E o \in Objects, t \in Types :
          \/ GetCallback(o, t)
          \/ GetAssociationItem(o, t)
          \/ DoesCallbackExist(o, t)
    \/ DeleteInstance

Spec == Init /\ [][Next]_vars
-----------------------------------------------------------------------------
TypeOK ==
    /\ inst \in BOOLEAN
    /\ cbs \in Seq(Assoc)
    /\ pc \in {"idle", "remove"}
    /\ idx \in Nat \ {0}
    /\ tgt \in (Objects \X Types) \cup {NoTarget}
    /\ found \in Fns \cup {Null}
    /\ out \in Fns \cup {Null} \cup BOOLEAN
    /\ item \in Nat

\* When remove_callback(object, type) has returned NULL, the storage holds
\* no association of that object and type, whatever callers registered:
\* the erase loop of do_remove_callback starts at the first element and
\* looks at every element while it has erased nothing.
RemoveNullMeansNone ==
    pc = "idle" /\ tgt # NoTarget /\ out = Null => MatchIdx(cbs, tgt) = {}

\* When remove_callback(object, type) has returned, no association of that
\* object and type is left: the loop visits every element.
RemoveClearsType ==
    pc = "idle" /\ tgt # NoTarget => MatchIdx(cbs, tgt) = {}

\* The registry the Vector stands for: the callback get_callback finds.
reg == [k \in Objects \X Types |-> FirstMatch(cbs, k)]
Registry == INSTANCE CallbackRegistry

\* The storage implements the registry: every call either leaves the
\* callback get_callback finds unchanged, registers one where none was,
\* unregisters one, or clears all.
CallbackRegistrySpec == Registry!Spec
=============================================================================
