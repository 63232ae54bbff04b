----------------------------- MODULE SlotObject -----------------------------
(***************************************************************************)
(* What the edits of one HSM slot promise: each call takes effect at one   *)
(* instant, on the slot as it is at that instant, or not at all; a call    *)
(* answered "ok" has taken effect.  SlotConfig implements it with reads    *)
(* and writes that other calls come between.                               *)
(***************************************************************************)
CONSTANTS
    Client,     \* handlers that may edit the slot at the same time
    Address,    \* addresses of keys
    Pin,        \* pins
    ModuleKind, \* kinds of modules
    NoSlot,     \* the value of a slot that does not exist
    NoCall      \* no call in progress

VARIABLES
    object,     \* the configuration of the slot, or NoSlot
    client      \* the call of each client and how far it is

vars == <<object, client>>

Calls == [name : {"add", "remove"}, key : Address]
           \cup [name : {"pin"}, pin : Pin]
           \cup [name : {"config"}, keys : SUBSET Address]

Object == [kind : ModuleKind, keys : SUBSET Address, pin : Pin]

\* A key is imported once and removed if it is there, in a local key vault; the
\* keys of an Azure vault are configured.
Allowed(o, c) ==
    /\ c.name = "add" => c.key \notin o.keys
    /\ c.name = "remove" => c.key \in o.keys
    /\ c.name \in {"add", "remove"} => o.kind = "LKV"
    /\ c.name = "config" => o.kind = "AKV"

Effect(o, c) ==
    CASE c.name = "add"    -> [o EXCEPT !.keys = @ \cup {c.key}]
      [] c.name = "remove" -> [o EXCEPT !.keys = @ \ {c.key}]
      [] c.name = "pin"    -> [o EXCEPT !.pin = c.pin]
      [] c.name = "config" -> [o EXCEPT !.keys = c.keys]

Quiet == [call |-> NoCall, phase |-> "none"]

Init ==
    /\ object \in Object \cup {NoSlot}
    /\ client = [p \in Client |-> Quiet]

Invoke(p, c) ==
    /\ client[p].phase = "none"
    /\ client' = [client EXCEPT ![p] = [call |-> c, phase |-> "called"]]
    /\ UNCHANGED object

TakeEffect(p) ==
    /\ client[p].phase = "called"
    /\ object # NoSlot
    /\ Allowed(object, client[p].call)
    /\ object' = Effect(object, client[p].call)
    /\ client' = [client EXCEPT ![p].phase = "applied"]

Answer(p) ==
    /\ \/ /\ client[p].phase = "applied"
          /\ client' = [client EXCEPT ![p].phase = "ok"]
       \/ /\ client[p].phase \in {"called", "applied"}
          /\ client' = [client EXCEPT ![p].phase = "error"]
    /\ UNCHANGED object

Leave(p) ==
    /\ client[p].phase \in {"ok", "error"}
    /\ client' = [client EXCEPT ![p] = Quiet]
    /\ UNCHANGED object

\* The slot is deleted, or created with some configuration.
Replace ==
    /\ object' \in Object \cup {NoSlot}
    /\ object = NoSlot \/ object' = NoSlot
    /\ UNCHANGED client

\* The process dies: no call in progress is answered.
Crash ==
    /\ client' = [p \in Client |-> Quiet]
    /\ UNCHANGED object

Next ==
    \/ \E p \in Client :
          (\E c \in Calls : Invoke(p, c)) \/ TakeEffect(p) \/ Answer(p) \/ Leave(p)
    \/ Replace
    \/ Crash

Spec == Init /\ [][Next]_vars
=============================================================================
