----------------------------- MODULE GcContract -----------------------------
(***************************************************************************)
(* What the add-on promises its users about the life of calls and handles, *)
(* stated without wrapper objects, reference counts or the bus: a call is  *)
(* open from the moment it is made until it is closed for good, responses  *)
(* are emitted by open calls only and never more than were asked for, and  *)
(* a handle is collected only when no open call and no registered method   *)
(* uses it.  Sysbus implements this specification.                         *)
(***************************************************************************)
EXTENDS Naturals

CONSTANTS Handles, Calls, NoObj, Limits, Unlimited, MaxReplies

VARIABLES
  phase,    \* per call: "idle", "open", "closed"
  made,     \* per call, the handle it was made on, or NoObj
  limit,    \* per call, the responses it asks for
  replies,  \* per call, the responses emitted; not counted beyond MaxReplies
  alive,    \* per handle: not collected
  serving   \* per handle: methods are registered on it

vars == <<phase, made, limit, replies, alive, serving>>

CInit ==
  /\ phase = [c \in Calls |-> "idle"]
  /\ made = [c \in Calls |-> NoObj]
  /\ limit \in [Calls -> Limits]
  /\ replies = [c \in Calls |-> 0]
  /\ alive = [h \in Handles |-> TRUE]
  /\ serving = [h \in Handles |-> FALSE]

InUse(h) == serving[h] \/ \E c \in Calls : phase[c] = "open" /\ made[c] = h

\* A call is made; it is closed at once when the bus refuses it.
Make(c, h, l, p) ==
  /\ phase[c] = "idle"
  /\ alive[h]
  /\ phase' = [phase EXCEPT ![c] = p]
  /\ made' = [made EXCEPT ![c] = h]
  /\ limit' = [limit EXCEPT ![c] = l]
  /\ UNCHANGED <<replies, alive, serving>>

\* A response is emitted.
Reply(c) ==
  /\ phase[c] = "open"
  /\ limit[c] # Unlimited => replies[c] < limit[c]
  /\ replies' = [replies EXCEPT ![c] = IF @ < MaxReplies THEN @ + 1 ELSE @]
  /\ UNCHANGED <<phase, made, limit, alive, serving>>

\* The call is over: its last response, an error or a cancellation.
Close(c) ==
  /\ phase[c] = "open"
  /\ phase' = [phase EXCEPT ![c] = "closed"]
  /\ UNCHANGED <<made, limit, replies, alive, serving>>

Serve(h, s) ==
  /\ alive[h]
  /\ serving' = [serving EXCEPT ![h] = s]
  /\ UNCHANGED <<phase, made, limit, replies, alive>>

CollectUnused(h) ==
  /\ alive[h]
  /\ ~InUse(h)
  /\ alive' = [alive EXCEPT ![h] = FALSE]
  /\ UNCHANGED <<phase, made, limit, replies, serving>>

CNext ==
  \/ \E c \in Calls : Reply(c) \/ Close(c)
  \/ \E c \in Calls, h \in Handles, l \in Limits, p \in {"open", "closed"} : Make(c, h, l, p)
  \/ \E h \in Handles : CollectUnused(h) \/ \E s \in BOOLEAN : Serve(h, s)

CSpec == CInit /\ [][CNext]_vars

=============================================================================
