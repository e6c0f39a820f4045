-------------------------- MODULE LS2MessageProofs --------------------------
(***************************************************************************)
(* The references of LSMessages are balanced, no freed LSMessage is used   *)
(* and none is leaked, for any number of messages and wrappers.            *)
(***************************************************************************)
EXTENDS LS2Message, FiniteSetTheorems, TLAPS

\* Only live wrappers are held by the script, and only they can be the argument of
\* a callback; a message is emitted as cancelled while its subscription is there.
Ownership ==
  /\ held \subseteq {w \in Wrappers : wrapper[w] = "live"}
  /\ \A w \in Wrappers : wrapper[w] = "unborn" => fMessage[w] = Null
  /\ argument # Null => wrapper[argument] = "live" /\ fMessage[argument] # Null
  /\ argument # Null /\ cancelling => Delivering \in added

\* The inductive invariant.  That a freed message has no reference left says by
\* MessageRefsExact that nobody owns it.
MessageInv ==
  /\ TypeOK
  /\ Ownership
  /\ MessageRefsExact
  /\ \A m \in freed : messageRefs[m] = 0
  /\ misused = FALSE

\* The wrappers of a message can be counted.
LEMMA WrappersFinite ==
  ASSUME NEW m \in Messages
  PROVE  /\ IsFiniteSet(WrappersOf(m))
         /\ Cardinality(WrappersOf(m)) \in Nat
         /\ Cardinality(WrappersOf(m)) = 0 <=> WrappersOf(m) = {}
BY MessageAssumption, FS_Subset, FS_EmptySet, FS_CardinalityType DEF WrappersOf

\* A message somebody owns has a reference, and was not freed.
LEMMA OwnedNotFreed ==
  ASSUME MessageInv, NEW m \in Messages,
         WrappersOf(m) # {} \/ m \in added \/ Delivering = m
  PROVE  messageRefs[m] \in Nat /\ messageRefs[m] >= 1 /\ m \notin freed
<1>1. Delivering = m => WrappersOf(m) # {}
  BY MessageAssumption DEF MessageInv, TypeOK, Ownership, Delivering, WrappersOf
<1>2. messageRefs[m] = Cardinality(WrappersOf(m)) + CallbackRef(m) + AddedRef(m)
  BY DEF MessageInv, MessageRefsExact
<1>3. CallbackRef(m) \in Nat /\ AddedRef(m) \in Nat /\ (m \in added => AddedRef(m) = 1)
  BY DEF CallbackRef, AddedRef
<1>4. messageRefs[m] \in Nat /\ messageRefs[m] >= 1
  BY <1>1, <1>2, <1>3, WrappersFinite
<1>. QED
  BY <1>4 DEF MessageInv

\* LSMessageUnref by an owner takes one reference and frees with the last.
LEMMA UnrefByOwner ==
  ASSUME MessageInv, NEW m \in Messages, LSMessageUnref(m),
         WrappersOf(m) # {} \/ m \in added \/ Delivering = m
  PROVE  /\ messageRefs'[m] = messageRefs[m] - 1
         /\ \A n \in Messages \ {m} : messageRefs'[n] = messageRefs[n]
         /\ messageRefs' \in [Messages -> Nat]
         /\ freed' \in SUBSET Messages
         /\ \A n \in freed' : messageRefs'[n] = 0
         /\ misused' = FALSE
<1>1. messageRefs[m] \in Nat /\ messageRefs[m] >= 1 /\ m \notin freed
  BY OwnedNotFreed
<1>. QED
  BY <1>1 DEF LSMessageUnref, MessageInv, TypeOK

\* A step that leaves wrappers and messages as they are, and the library with the
\* same references, keeps the invariant.
LEMMA FrameStep ==
  ASSUME MessageInv, held' \subseteq held,
         UNCHANGED <<messageRefs, freed, busVars, wrapper, fMessage>>, misused' = FALSE
  PROVE  MessageInv'
<1>1. Delivering' = Delivering /\ \A m \in Messages : WrappersOf(m)' = WrappersOf(m)
  BY DEF busVars, Delivering, WrappersOf
<1>2. MessageRefsExact'
  BY <1>1 DEF MessageInv, MessageRefsExact, CallbackRef, AddedRef, busVars
<1>3. TypeOK'
  BY DEF MessageInv, TypeOK, busVars
<1>4. Ownership'
  BY <1>1 DEF MessageInv, Ownership, busVars
<1>. QED
  BY <1>2, <1>3, <1>4 DEF MessageInv

\* A new wrapper of a message is one more owner.
LEMMA EmitMessageStep ==
  ASSUME MessageInv, NEW m \in Messages, NEW w \in Wrappers, EmitMessage(m, w)
  PROVE  /\ WrappersOf(m)' = WrappersOf(m) \cup {w}
         /\ Cardinality(WrappersOf(m)') = Cardinality(WrappersOf(m)) + 1
         /\ \A n \in Messages \ {m} : WrappersOf(n)' = WrappersOf(n)
         /\ Delivering' = m
         /\ wrapper' \in [Wrappers -> {"unborn", "live", "collected"}]
         /\ fMessage' \in [Wrappers -> Messages \cup {Null}]
         /\ held' \in SUBSET Wrappers
         /\ argument' = w /\ w # Null
         /\ held' \subseteq {v \in Wrappers : wrapper'[v] = "live"}
         /\ wrapper'[w] = "live" /\ fMessage'[w] # Null
         /\ \A v \in Wrappers : wrapper'[v] = "unborn" => fMessage'[v] = Null
<1>. USE MessageAssumption DEF MessageInv, TypeOK
<1>1. /\ wrapper[w] = "unborn"
      /\ wrapper' = [wrapper EXCEPT ![w] = "live"]
      /\ held' = held \cup {w}
      /\ fMessage' = [fMessage EXCEPT ![w] = m]
      /\ argument' = w
  BY DEF EmitMessage
<1>2. WrappersOf(m)' = WrappersOf(m) \cup {w} /\ w \notin WrappersOf(m)
  BY <1>1 DEF WrappersOf
<1>3. Cardinality(WrappersOf(m)') = Cardinality(WrappersOf(m)) + 1
  BY <1>2, WrappersFinite, FS_AddElement
<1>4. \A n \in Messages \ {m} : WrappersOf(n)' = WrappersOf(n)
  BY <1>1 DEF WrappersOf
<1>5. Delivering' = m
  BY <1>1 DEF Delivering
<1>6. /\ held' \subseteq {v \in Wrappers : wrapper'[v] = "live"}
      /\ \A v \in Wrappers : wrapper'[v] = "unborn" => fMessage'[v] = Null
  BY <1>1 DEF Ownership
<1>. QED
  BY <1>1, <1>2, <1>3, <1>4, <1>5, <1>6

\* Every step keeps the references balanced.
LEMMA MessageStep ==
  ASSUME MessageInv, [Next]_vars
  PROVE  MessageInv'
<1>. USE MessageAssumption
<1>1. ASSUME NEW m \in Messages, NEW w \in Wrappers, Deliver(m, w) PROVE MessageInv'
  <2>1. /\ argument = Null /\ messageRefs[m] = 0 /\ m \notin freed
        /\ EmitMessage(m, w) /\ cancelling' = FALSE
        /\ messageRefs' = [RefsAfterSetMessage(m) EXCEPT ![m] = @ + 1]
        /\ freed' = freed /\ added' = added /\ misused' = misused
    BY <1>1 DEF Deliver
  <2>e. /\ Cardinality(WrappersOf(m)') = Cardinality(WrappersOf(m)) + 1
        /\ \A n \in Messages \ {m} : WrappersOf(n)' = WrappersOf(n)
        /\ Delivering' = m
        /\ wrapper' \in [Wrappers -> {"unborn", "live", "collected"}]
        /\ fMessage' \in [Wrappers -> Messages \cup {Null}]
        /\ held' \in SUBSET Wrappers /\ argument' \in Wrappers
    BY <2>1, EmitMessageStep
  <2>2. /\ messageRefs' \in [Messages -> Nat] /\ messageRefs'[m] = messageRefs[m] + 2
        /\ \A n \in Messages \ {m} : messageRefs'[n] = messageRefs[n]
    BY <2>1 DEF MessageInv, TypeOK, RefsAfterSetMessage, LSMessageRef
  <2>3. MessageRefsExact'
    <3>1. /\ CallbackRef(m) = 0 /\ CallbackRef(m)' = 1
          /\ \A n \in Messages \ {m} : CallbackRef(n) = 0 /\ CallbackRef(n)' = 0
      BY <2>1, <2>e DEF CallbackRef, Delivering
    <3>2. \A n \in Messages : AddedRef(n)' = AddedRef(n) /\ AddedRef(n) \in Nat
      BY <2>1 DEF AddedRef
    <3>. QED
      <4>. SUFFICES ASSUME NEW n \in Messages
                    PROVE  messageRefs'[n] = Cardinality(WrappersOf(n)') + CallbackRef(n)' + AddedRef(n)'
        BY DEF MessageRefsExact
      <4>1. messageRefs[n] = Cardinality(WrappersOf(n)) + CallbackRef(n) + AddedRef(n)
        BY DEF MessageInv, MessageRefsExact
      <4>2. CASE n = m
        BY <2>2, <2>e, <3>1, <3>2, <4>1, <4>2, WrappersFinite
      <4>3. CASE n # m
        BY <2>2, <2>e, <3>1, <3>2, <4>1, <4>3
      <4>. QED
        BY <4>2, <4>3
  <2>a. TypeOK'
    BY <2>1, <2>2, <2>e DEF MessageInv, TypeOK
  <2>b. Ownership'
    BY <2>1, EmitMessageStep DEF Ownership
  <2>4. TypeOK' /\ Ownership'
    BY <2>a, <2>b
  <2>5. \A n \in freed' : messageRefs'[n] = 0
    BY <2>1, <2>2 DEF MessageInv, TypeOK
  <2>. QED
    BY <2>1, <2>3, <2>4, <2>5 DEF MessageInv
<1>2. ASSUME NEW m \in Messages, NEW w \in Wrappers, DeliverCancel(m, w) PROVE MessageInv'
  <2>1. /\ argument = Null /\ m \in added
        /\ EmitMessage(m, w) /\ cancelling' = TRUE
        /\ messageRefs' = RefsAfterSetMessage(m)
        /\ freed' = freed /\ added' = added /\ misused' = (misused \/ m \in freed)
    BY <1>2 DEF DeliverCancel
  <2>e. /\ Cardinality(WrappersOf(m)') = Cardinality(WrappersOf(m)) + 1
        /\ \A n \in Messages \ {m} : WrappersOf(n)' = WrappersOf(n)
        /\ Delivering' = m
        /\ wrapper' \in [Wrappers -> {"unborn", "live", "collected"}]
        /\ fMessage' \in [Wrappers -> Messages \cup {Null}]
        /\ held' \in SUBSET Wrappers /\ argument' \in Wrappers
    BY <2>1, EmitMessageStep
  <2>2. m \notin freed
    BY <2>1, OwnedNotFreed
  <2>f. misused' = FALSE
    BY <2>1, <2>2 DEF MessageInv
  <2>3. /\ messageRefs' \in [Messages -> Nat] /\ messageRefs'[m] = messageRefs[m] + 1
        /\ \A n \in Messages \ {m} : messageRefs'[n] = messageRefs[n]
    BY <2>1 DEF MessageInv, TypeOK, RefsAfterSetMessage, LSMessageRef
  <2>4. MessageRefsExact'
    <3>1. \A n \in Messages : CallbackRef(n) = 0 /\ CallbackRef(n)' = 0
      BY <2>1 DEF CallbackRef, Delivering
    <3>2. \A n \in Messages : AddedRef(n)' = AddedRef(n) /\ AddedRef(n) \in Nat
      BY <2>1 DEF AddedRef
    <3>. QED
      <4>. SUFFICES ASSUME NEW n \in Messages
                    PROVE  messageRefs'[n] = Cardinality(WrappersOf(n)') + CallbackRef(n)' + AddedRef(n)'
        BY DEF MessageRefsExact
      <4>1. messageRefs[n] = Cardinality(WrappersOf(n)) + CallbackRef(n) + AddedRef(n)
        BY DEF MessageInv, MessageRefsExact
      <4>2. CASE n = m
        BY <2>3, <2>e, <3>1, <3>2, <4>1, <4>2, WrappersFinite
      <4>3. CASE n # m
        BY <2>3, <2>e, <3>1, <3>2, <4>1, <4>3
      <4>. QED
        BY <4>2, <4>3
  <2>a. TypeOK'
    BY <2>1, <2>3, <2>e DEF MessageInv, TypeOK
  <2>b. Ownership'
    BY <2>1, EmitMessageStep DEF Ownership
  <2>5. TypeOK' /\ Ownership'
    BY <2>a, <2>b
  <2>6. \A n \in freed' : messageRefs'[n] = 0
    BY <2>1, <2>2, <2>3 DEF MessageInv, TypeOK
  <2>. QED
    BY <2>f, <2>4, <2>5, <2>6 DEF MessageInv
<1>3. CASE CallbackReturns
  <2>m. PICK m \in Messages : m = Delivering
    BY <1>3 DEF CallbackReturns, MessageInv, TypeOK, Ownership, Delivering
  <2>1. /\ argument # Null /\ LSMessageUnref(m)
        /\ added' = IF cancelling THEN added \ {m} ELSE added
        /\ argument' = Null
        /\ cancelling' = cancelling
        /\ wrapper' = wrapper /\ held' = held /\ fMessage' = fMessage
    BY <1>3, <2>m DEF CallbackReturns, wrapVars
  <2>2. cancelling => m \in added
    BY <2>1, <2>m DEF MessageInv, Ownership
  <2>3. \A n \in Messages : WrappersOf(n)' = WrappersOf(n)
    BY <2>1 DEF WrappersOf
  <2>4. \A n \in Messages : CallbackRef(n)' = 0
    BY <2>1, MessageAssumption DEF CallbackRef, Delivering
  <2>5. /\ CallbackRef(m) + AddedRef(m) = AddedRef(m)' + 1
        /\ CallbackRef(m) \in Nat /\ AddedRef(m) \in Nat /\ AddedRef(m)' \in Nat
    BY <2>1, <2>2, <2>m DEF CallbackRef, AddedRef
  <2>6. \A n \in Messages \ {m} :
          CallbackRef(n) = 0 /\ AddedRef(n)' = AddedRef(n) /\ AddedRef(n) \in Nat
    BY <2>1, <2>m DEF CallbackRef, AddedRef
  <2>u. /\ messageRefs'[m] = messageRefs[m] - 1
        /\ \A n \in Messages \ {m} : messageRefs'[n] = messageRefs[n]
        /\ messageRefs' \in [Messages -> Nat] /\ freed' \in SUBSET Messages
        /\ \A n \in freed' : messageRefs'[n] = 0
        /\ misused' = FALSE
    BY <2>1, <2>m, UnrefByOwner
  <2>7. MessageRefsExact'
    <3>. SUFFICES ASSUME NEW n \in Messages
                  PROVE  messageRefs'[n] = Cardinality(WrappersOf(n)') + CallbackRef(n)' + AddedRef(n)'
      BY DEF MessageRefsExact
    <3>1. messageRefs[n] = Cardinality(WrappersOf(n)) + CallbackRef(n) + AddedRef(n)
      BY DEF MessageInv, MessageRefsExact
    <3>2. CASE n = m
      BY <2>3, <2>4, <2>5, <2>u, <3>1, <3>2, WrappersFinite
    <3>3. CASE n # m
      BY <2>3, <2>4, <2>6, <2>u, <3>1, <3>3
    <3>. QED
      BY <3>2, <3>3
  <2>a. TypeOK'
    BY <2>1, <2>u DEF MessageInv, TypeOK
  <2>b. Ownership'
    BY <2>1 DEF MessageInv, Ownership
  <2>8. TypeOK' /\ Ownership'
    BY <2>a, <2>b
  <2>. QED
    BY <2>7, <2>8, <2>u DEF MessageInv
<1>4. ASSUME NEW m \in Messages, SubscriptionLost(m) PROVE MessageInv'
  <2>1. /\ m \in added /\ ~(Delivering = m /\ cancelling)
        /\ added' = added \ {m} /\ LSMessageUnref(m)
        /\ argument' = argument /\ cancelling' = cancelling
        /\ wrapper' = wrapper /\ held' = held /\ fMessage' = fMessage
    BY <1>4 DEF SubscriptionLost, wrapVars
  <2>2. Delivering' = Delivering /\ \A n \in Messages : WrappersOf(n)' = WrappersOf(n)
    BY <2>1 DEF WrappersOf, Delivering
  <2>3. \A n \in Messages : CallbackRef(n)' = CallbackRef(n) /\ CallbackRef(n) \in Nat
    BY <2>1, <2>2 DEF CallbackRef
  <2>4. /\ AddedRef(m) = 1 /\ AddedRef(m)' = 0
        /\ \A n \in Messages \ {m} : AddedRef(n)' = AddedRef(n)
    BY <2>1 DEF AddedRef
  <2>u. /\ messageRefs'[m] = messageRefs[m] - 1
        /\ \A n \in Messages \ {m} : messageRefs'[n] = messageRefs[n]
        /\ messageRefs' \in [Messages -> Nat] /\ freed' \in SUBSET Messages
        /\ \A n \in freed' : messageRefs'[n] = 0
        /\ misused' = FALSE
    BY <2>1, UnrefByOwner
  <2>5. MessageRefsExact'
    <3>. SUFFICES ASSUME NEW n \in Messages
                  PROVE  messageRefs'[n] = Cardinality(WrappersOf(n)') + CallbackRef(n)' + AddedRef(n)'
      BY DEF MessageRefsExact
    <3>1. messageRefs[n] = Cardinality(WrappersOf(n)) + CallbackRef(n) + AddedRef(n)
      BY DEF MessageInv, MessageRefsExact
    <3>2. CASE n = m
      BY <2>2, <2>3, <2>4, <2>u, <3>1, <3>2, WrappersFinite
    <3>3. CASE n # m
      BY <2>2, <2>3, <2>4, <2>u, <3>1, <3>3
    <3>. QED
      BY <3>2, <3>3
  <2>a. TypeOK'
    BY <2>1, <2>u DEF MessageInv, TypeOK
  <2>b. Ownership'
    BY <2>1, <2>2 DEF MessageInv, Ownership
  <2>6. TypeOK' /\ Ownership'
    BY <2>a, <2>b
  <2>. QED
    BY <2>u, <2>5, <2>6 DEF MessageInv
<1>5. ASSUME NEW w \in Wrappers, New(w) PROVE MessageInv'
  <2>1. /\ wrapper[w] = "unborn" /\ wrapper' = [wrapper EXCEPT ![w] = "live"]
        /\ held' = held \cup {w} /\ fMessage[w] = Null
        /\ UNCHANGED <<messageRefs, freed, argument, cancelling, added, fMessage, misused>>
    BY <1>5 DEF New, busVars, MessageInv, Ownership
  <2>2. Delivering' = Delivering /\ \A m \in Messages : WrappersOf(m)' = WrappersOf(m)
    BY <2>1 DEF MessageInv, TypeOK, WrappersOf, Delivering
  <2>3. MessageRefsExact'
    BY <2>1, <2>2 DEF MessageInv, MessageRefsExact, CallbackRef, AddedRef
  <2>4. TypeOK' /\ Ownership'
    BY <2>1, <2>2 DEF MessageInv, TypeOK, Ownership
  <2>. QED
    BY <2>1, <2>3, <2>4 DEF MessageInv
<1>6. ASSUME NEW w \in Wrappers, UseMessage(w) PROVE MessageInv'
  <2>1. fMessage[w] \in Messages /\ w \in WrappersOf(fMessage[w])
    BY <1>6 DEF UseMessage, MessageInv, TypeOK, Ownership, WrappersOf
  <2>2. fMessage[w] \notin freed
    BY <2>1, OwnedNotFreed
  <2>. QED
    BY <1>6, <2>2, FrameStep DEF UseMessage, wrapVars, MessageInv
<1>7. ASSUME NEW w \in Wrappers, SubscriptionAdd(w) PROVE MessageInv'
  <2>m. PICK m \in Messages : m = fMessage[w]
    BY <1>7 DEF SubscriptionAdd, MessageInv, TypeOK
  <2>1. /\ w \in held /\ m \notin added
        /\ ~(Delivering = m /\ cancelling)
        /\ added' = added \cup {m} /\ messageRefs' = LSMessageRef(m)
        /\ misused' = (misused \/ m \in freed)
        /\ freed' = freed /\ argument' = argument /\ cancelling' = cancelling
        /\ wrapper' = wrapper /\ held' = held /\ fMessage' = fMessage
    BY <1>7, <2>m DEF SubscriptionAdd, wrapVars
  <2>2. m \notin freed
    <3>1. w \in WrappersOf(m)
      BY <2>1, <2>m DEF MessageInv, TypeOK, Ownership, WrappersOf
    <3>. QED
      BY <3>1, OwnedNotFreed
  <2>3. /\ messageRefs' \in [Messages -> Nat] /\ messageRefs'[m] = messageRefs[m] + 1
        /\ \A n \in Messages \ {m} : messageRefs'[n] = messageRefs[n]
    BY <2>1 DEF MessageInv, TypeOK, LSMessageRef
  <2>4. Delivering' = Delivering /\ \A n \in Messages : WrappersOf(n)' = WrappersOf(n)
    BY <2>1 DEF WrappersOf, Delivering
  <2>5. \A n \in Messages : CallbackRef(n)' = CallbackRef(n) /\ CallbackRef(n) \in Nat
    BY <2>1, <2>4 DEF CallbackRef
  <2>6. /\ AddedRef(m) = 0 /\ AddedRef(m)' = 1
        /\ \A n \in Messages \ {m} : AddedRef(n)' = AddedRef(n)
    BY <2>1 DEF AddedRef
  <2>7. MessageRefsExact'
    <3>. SUFFICES ASSUME NEW n \in Messages
                  PROVE  messageRefs'[n] = Cardinality(WrappersOf(n)') + CallbackRef(n)' + AddedRef(n)'
      BY DEF MessageRefsExact
    <3>1. messageRefs[n] = Cardinality(WrappersOf(n)) + CallbackRef(n) + AddedRef(n)
      BY DEF MessageInv, MessageRefsExact
    <3>2. CASE n = m
      BY <2>3, <2>4, <2>5, <2>6, <3>1, <3>2, WrappersFinite
    <3>3. CASE n # m
      BY <2>3, <2>4, <2>5, <2>6, <3>1, <3>3
    <3>. QED
      BY <3>2, <3>3
  <2>8. TypeOK' /\ Ownership'
    BY <2>1, <2>3, <2>4 DEF MessageInv, TypeOK, Ownership
  <2>9. \A n \in freed' : messageRefs'[n] = 0
    BY <2>1, <2>2, <2>3 DEF MessageInv, TypeOK
  <2>. QED
    BY <2>1, <2>2, <2>7, <2>8, <2>9 DEF MessageInv
<1>8. ASSUME NEW w \in Wrappers, Drop(w) PROVE MessageInv'
  BY <1>8, FrameStep DEF Drop, MessageInv
<1>9. ASSUME NEW w \in Wrappers, Collect(w) PROVE MessageInv'
  <2>1. /\ wrapper[w] = "live" /\ w \notin held /\ w # argument
        /\ wrapper' = [wrapper EXCEPT ![w] = "collected"]
        /\ UNCHANGED <<argument, cancelling, added, held, fMessage>>
        /\ IF fMessage[w] = Null
             THEN UNCHANGED <<messageRefs, freed, misused>>
             ELSE LSMessageUnref(fMessage[w])
    BY <1>9 DEF Collect, GiveBack, busVars
  <2>2. Delivering' = Delivering
    BY <2>1 DEF Delivering
  <2>3. \A n \in Messages : CallbackRef(n)' = CallbackRef(n) /\ AddedRef(n)' = AddedRef(n)
                              /\ CallbackRef(n) \in Nat /\ AddedRef(n) \in Nat
    BY <2>1, <2>2 DEF CallbackRef, AddedRef
  <2>4. \A n \in Messages : WrappersOf(n)' = WrappersOf(n) \ {w}
    BY <2>1 DEF MessageInv, TypeOK, WrappersOf
  <2>5. wrapper' \in [Wrappers -> {"unborn", "live", "collected"}] /\ Ownership'
    BY <2>1, <2>2 DEF MessageInv, TypeOK, Ownership
  <2>6. CASE fMessage[w] = Null
    <3>1. \A n \in Messages : w \notin WrappersOf(n)
      BY <2>6 DEF WrappersOf
    <3>2. \A n \in Messages : WrappersOf(n)' = WrappersOf(n)
      BY <2>4, <3>1
    <3>3. MessageRefsExact'
      BY <2>1, <2>3, <2>6, <3>2 DEF MessageInv, MessageRefsExact
    <3>. QED
      BY <2>1, <2>5, <2>6, <3>3 DEF MessageInv, TypeOK
  <2>7. CASE fMessage[w] # Null
    <3>m. PICK m \in Messages : m = fMessage[w]
      BY <2>7 DEF MessageInv, TypeOK
    <3>1. w \in WrappersOf(m) /\ LSMessageUnref(m)
      BY <2>1, <2>7, <3>m DEF WrappersOf
    <3>2. \A n \in Messages \ {m} : WrappersOf(n)' = WrappersOf(n)
      BY <2>4, <3>m DEF WrappersOf
    <3>u. /\ messageRefs'[m] = messageRefs[m] - 1
          /\ \A n \in Messages \ {m} : messageRefs'[n] = messageRefs[n]
          /\ messageRefs' \in [Messages -> Nat] /\ freed' \in SUBSET Messages
          /\ \A n \in freed' : messageRefs'[n] = 0
          /\ misused' = FALSE
      BY <3>1, UnrefByOwner
    <3>3. Cardinality(WrappersOf(m)') = Cardinality(WrappersOf(m)) - 1
      <4>1. IsFiniteSet(WrappersOf(m)) /\ WrappersOf(m)' = WrappersOf(m) \ {w}
        BY <2>4, WrappersFinite
      <4>. QED
        BY <3>1, <4>1, FS_RemoveElement
    <3>4. MessageRefsExact'
      <4>. SUFFICES ASSUME NEW n \in Messages
                    PROVE  messageRefs'[n] = Cardinality(WrappersOf(n)') + CallbackRef(n)' + AddedRef(n)'
        BY DEF MessageRefsExact
      <4>1. messageRefs[n] = Cardinality(WrappersOf(n)) + CallbackRef(n) + AddedRef(n)
        BY DEF MessageInv, MessageRefsExact
      <4>2. CASE n = m
        BY <2>3, <3>3, <3>u, <4>1, <4>2, WrappersFinite
      <4>3. CASE n # m
        BY <2>3, <3>2, <3>u, <4>1, <4>3
      <4>. QED
        BY <4>2, <4>3
    <3>5. TypeOK'
      BY <2>1, <2>5, <3>u DEF MessageInv, TypeOK
    <3>. QED
      BY <2>5, <3>4, <3>5, <3>u DEF MessageInv
  <2>. QED
    BY <2>6, <2>7
<1>10. CASE UNCHANGED vars
  BY <1>10, FrameStep DEF vars, wrapVars, MessageInv
<1>. QED
  BY <1>1, <1>2, <1>3, <1>4, <1>5, <1>6, <1>7, <1>8, <1>9, <1>10 DEF Next

\* Before the first message everything is balanced.
LEMMA MessageInit == Init => MessageInv
<1>. SUFFICES ASSUME Init PROVE MessageInv
  OBVIOUS
<1>1. \A m \in Messages : WrappersOf(m) = {}
  BY DEF Init, WrappersOf
<1>2. MessageRefsExact
  BY <1>1, WrappersFinite, MessageAssumption
     DEF Init, MessageRefsExact, CallbackRef, AddedRef, Delivering
<1>. QED
  BY <1>2 DEF Init, MessageInv, TypeOK, Ownership

\* The invariant holds from the first message on.
LEMMA MessageInvariant == Spec => []MessageInv
<1>1. MessageInv /\ [Next]_vars => MessageInv'
  BY MessageStep
<1>. QED
  BY <1>1, MessageInit, PTL DEF Spec

\* SetMessage and the destructor of LS2Message are balanced: the count of a message
\* is one per live wrapper plus the references the library has itself.
THEOREM MessageRefsCorrect == Spec => []MessageRefsExact
<1>1. MessageInv => MessageRefsExact
  BY DEF MessageInv
<1>. QED
  BY <1>1, MessageInvariant, PTL

\* Whatever is kept, answered late, subscribed with and emitted again, no method, no
\* destructor and no callback uses a freed LSMessage.
THEOREM NoUseAfterFree == Spec => []NeverUsedFreed
<1>1. MessageInv => NeverUsedFreed
  <2>. SUFFICES ASSUME MessageInv, NEW m \in freed
                PROVE  WrappersOf(m) = {} /\ m \notin added /\ Delivering # m
    BY DEF NeverUsedFreed, MessageInv
  <2>1. m \in Messages
    BY DEF MessageInv, TypeOK
  <2>. QED
    BY <2>1, OwnedNotFreed
<1>. QED
  BY <1>1, MessageInvariant, PTL

-----------------------------------------------------------------------------
(* Leaks *)

\* A message that a wrapper was made of and that has no reference left was freed.
LeakInv ==
  /\ MessageInv
  /\ \A w \in Wrappers :
       fMessage[w] # Null => fMessage[w] \in freed \/ messageRefs[fMessage[w]] # 0

\* Whoever drops the last reference frees the message.
LEMMA UnrefFrees ==
  ASSUME LeakInv, NEW m \in Messages, LSMessageUnref(m), UNCHANGED fMessage,
         NEW w \in Wrappers, fMessage[w] # Null
  PROVE  fMessage'[w] \in freed' \/ messageRefs'[fMessage'[w]] # 0
<1>1. messageRefs \in [Messages -> Nat] /\ fMessage[w] \in Messages
  BY DEF LeakInv, MessageInv, TypeOK
<1>2. CASE fMessage[w] = m
  <2>1. CASE messageRefs[m] <= 1
    BY <1>2, <2>1 DEF LSMessageUnref
  <2>2. CASE messageRefs[m] > 1
    BY <1>1, <1>2, <2>2 DEF LSMessageUnref
  <2>. QED
    BY <1>1, <2>1, <2>2
<1>3. CASE fMessage[w] # m
  <2>1. messageRefs'[fMessage[w]] = messageRefs[fMessage[w]]
    BY <1>1, <1>3 DEF LSMessageUnref
  <2>2. freed \subseteq freed'
    BY DEF LSMessageUnref
  <2>. QED
    BY <2>1, <2>2 DEF LeakInv
<1>. QED
  BY <1>2, <1>3

\* A step of which no reference is lost and no wrapper is made keeps it.
LEMMA LeakFrame ==
  ASSUME LeakInv, UNCHANGED <<fMessage, freed>>,
         \A m \in Messages : messageRefs[m] # 0 => messageRefs'[m] # 0,
         NEW w \in Wrappers, fMessage[w] # Null
  PROVE  fMessage'[w] \in freed' \/ messageRefs'[fMessage'[w]] # 0
BY DEF LeakInv, MessageInv, TypeOK

\* Every step keeps what is unreferenced freed.
LEMMA LeakStep == LeakInv /\ [Next]_vars => LeakInv'
<1>. SUFFICES ASSUME LeakInv, [Next]_vars,
                     NEW w \in Wrappers, fMessage'[w] # Null
              PROVE  fMessage'[w] \in freed' \/ messageRefs'[fMessage'[w]] # 0
  BY MessageStep DEF LeakInv
<1>0. MessageInv /\ TypeOK
  BY DEF LeakInv, MessageInv
<1>1. ASSUME NEW m \in Messages, NEW v \in Wrappers, Deliver(m, v) \/ DeliverCancel(m, v)
      PROVE  fMessage'[w] \in freed' \/ messageRefs'[fMessage'[w]] # 0
  <2>1. /\ \A n \in Messages : messageRefs[n] # 0 \/ n = m => messageRefs'[n] # 0
        /\ freed' = freed
    BY <1>0, <1>1 DEF Deliver, DeliverCancel, RefsAfterSetMessage, LSMessageRef, TypeOK
  <2>2. fMessage' = [fMessage EXCEPT ![v] = m]
    BY <1>1 DEF Deliver, DeliverCancel, EmitMessage
  <2>3. CASE w = v
    BY <1>0, <2>1, <2>2, <2>3 DEF TypeOK
  <2>4. CASE w # v
    BY <1>0, <2>1, <2>2, <2>4 DEF TypeOK, LeakInv
  <2>. QED
    BY <2>3, <2>4
<1>2. CASE CallbackReturns
  <2>1. Delivering \in Messages
    BY <1>0, <1>2, MessageAssumption DEF CallbackReturns, MessageInv, TypeOK, Ownership, Delivering
  <2>. QED
    BY <1>2, <2>1, UnrefFrees DEF CallbackReturns, wrapVars
<1>3. ASSUME NEW m \in Messages, SubscriptionLost(m)
      PROVE  fMessage'[w] \in freed' \/ messageRefs'[fMessage'[w]] # 0
  BY <1>3, UnrefFrees DEF SubscriptionLost, wrapVars
<1>4. ASSUME NEW v \in Wrappers, New(v) \/ UseMessage(v) \/ Drop(v)
      PROVE  fMessage'[w] \in freed' \/ messageRefs'[fMessage'[w]] # 0
  BY <1>4, LeakFrame DEF New, UseMessage, Drop, wrapVars
<1>5. ASSUME NEW v \in Wrappers, SubscriptionAdd(v)
      PROVE  fMessage'[w] \in freed' \/ messageRefs'[fMessage'[w]] # 0
  <2>1. \A m \in Messages : messageRefs[m] # 0 => messageRefs'[m] # 0
    BY <1>0, <1>5 DEF SubscriptionAdd, LSMessageRef, TypeOK
  <2>. QED
    BY <1>5, <2>1, LeakFrame DEF SubscriptionAdd, wrapVars
<1>6. ASSUME NEW v \in Wrappers, Collect(v)
      PROVE  fMessage'[w] \in freed' \/ messageRefs'[fMessage'[w]] # 0
  <2>1. CASE fMessage[v] = Null
    BY <1>6, <2>1, LeakFrame DEF Collect, GiveBack
  <2>2. CASE fMessage[v] # Null
    <3>1. fMessage[v] \in Messages
      BY <1>0, <2>2 DEF TypeOK
    <3>. QED
      BY <1>6, <2>2, <3>1, UnrefFrees DEF Collect, GiveBack
  <2>. QED
    BY <2>1, <2>2
<1>7. CASE UNCHANGED vars
  BY <1>7, LeakFrame DEF vars, wrapVars
<1>. QED
  BY <1>1, <1>2, <1>3, <1>4, <1>5, <1>6, <1>7 DEF Next

\* In whatever order wrappers are collected, callbacks return and subscriptions end,
\* the last of them frees the message: none is leaked.
THEOREM NoLeakedMessage == Spec => []NoMessageLeaks
<1>1. Init => LeakInv
  <2>1. Init => \A w \in Wrappers : fMessage[w] = Null
    BY DEF Init
  <2>. QED
    BY <2>1, MessageInit DEF LeakInv
<1>2. LeakInv => NoMessageLeaks
  <2>. SUFFICES ASSUME LeakInv, NEW w \in Wrappers, fMessage[w] # Null, fMessage[w] \notin freed,
                       WrappersOf(fMessage[w]) = {}, fMessage[w] \notin added,
                       Delivering # fMessage[w]
                PROVE  FALSE
    BY DEF NoMessageLeaks
  <2>m. PICK m \in Messages : m = fMessage[w]
    BY DEF LeakInv, MessageInv, TypeOK
  <2>1. messageRefs[m] = Cardinality(WrappersOf(m)) + CallbackRef(m) + AddedRef(m)
    BY DEF LeakInv, MessageInv, MessageRefsExact
  <2>2. Cardinality(WrappersOf(m)) = 0 /\ CallbackRef(m) = 0 /\ AddedRef(m) = 0
    BY <2>m, WrappersFinite DEF CallbackRef, AddedRef
  <2>. QED
    BY <2>m, <2>1, <2>2 DEF LeakInv
<1>. QED
  BY <1>1, <1>2, LeakStep, PTL DEF Spec

=============================================================================
