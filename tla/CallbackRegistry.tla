--------------------------- MODULE CallbackRegistry ---------------------------
(***************************************************************************)
(* What M2MCallbackStorage promises its callers                            *)
(* (src/mbed-client/source/m2mcallbackstorage.cpp): a registry that holds, *)
(* for an object and a callback type, at most one callback.  A callback is *)
(* registered only where none is, unregistered by object and type, and the *)
(* whole registry is dropped with the storage instance.                    *)
(***************************************************************************)
CONSTANTS
    Objects,   \* M2MBase objects that register callbacks
    Fns,       \* callback function pointers
    Types,     \* M2MCallbackAssociation::M2MCallbackType
    Null       \* the NULL pointer

Keys == Objects \X Types

VARIABLE reg   \* reg[<<o, t>>]: the callback of object o for type t, or Null

Init == reg = [k \in Keys |-> Null]

Register(o, c, t) ==
    /\ reg[<<o, t>>] = Null
    /\ reg' = [reg EXCEPT ![<<o, t>>] = c]

Unregister(o, t) == reg' = [reg EXCEPT ![<<o, t>>] = Null]

Clear == reg' = [k \in Keys |-> Null]

Next ==
    \/ \E o \in Objects, c \in Fns, t \in Types : Register(o, c, t)
    \/ \E o \in Objects, t \in Types : Unregister(o, t)
    \/ Clear

Spec == Init /\ [][Next]_reg
=============================================================================
