---------------------------- MODULE AppIdProofs ----------------------------
(***************************************************************************)
(* Application ids for any services, stacks and number of handles.  That   *)
(* an id comes from a path on the stack needs no assumption; which of      *)
(* several it is, is only certain when the path of no service is a         *)
(* substring of the directory of another: the assumption Apart, which      *)
(* setAppId does not check and which does not hold of the runs appid and   *)
(* appid_nested.                                                           *)
(***************************************************************************)
EXTENDS AppId, TLAPS

Apart == \A dp \in Contains : dp[2] = Home[dp[1]]

\* The inductive invariant; it does not need Apart.
IdInv == TypeOK /\ IdOfContainingService

\* What findMyAppId finds in a frame is the id that was set for its own service.
LEMMA FoundOwn ==
  ASSUME Apart, TypeOK, NEW d \in Directories
  PROVE  /\ Home[d] \in Paths
         /\ Found(d) = {fRegisteredServices[Home[d]]} \ {Empty}
         /\ Found(d) \subseteq AppIds
<1>1. Home[d] \in Paths /\ <<d, Home[d]>> \in Contains
  BY AppIdAssumption DEF Directories
<1>2. {q \in Paths : <<d, q>> \in Contains} = {Home[d]}
  <2>1. \A q \in Paths : <<d, q>> \in Contains => q = Home[d]
    BY DEF Apart
  <2>. QED
    BY <1>1, <2>1
<1>3. Found(d) = {fRegisteredServices[Home[d]]} \ {Empty}
  BY <1>2 DEF Found
<1>. QED
  BY <1>1, <1>3 DEF TypeOK

\* findMyAppId returns the id set for a path in the directory of one of the frames
\* it looks at.
LEMMA FindMyAppIdContaining ==
  ASSUME TypeOK, NEW stack \in Stacks, NEW id \in FindMyAppId(stack)
  PROVE  /\ id \in AppIds
         /\ \E i \in DOMAIN stack, p \in Paths :
              i <= MaxFrames /\ <<stack[i], p>> \in Contains /\ id = fRegisteredServices[p]
<1>1. PICK i \in StackTrace(stack) : id \in Found(stack[i])
  BY DEF FindMyAppId
<1>2. i \in DOMAIN stack /\ i <= MaxFrames
  BY <1>1 DEF StackTrace
<1>3. PICK p \in Paths :
        <<stack[i], p>> \in Contains /\ id = fRegisteredServices[p] /\ id # Empty
  BY <1>1 DEF Found
<1>4. id \in AppIds
  BY <1>3 DEF TypeOK
<1>. QED
  BY <1>2, <1>3, <1>4

\* setAppId never changes an id that is set.
LEMMA IdsAreSetOnce ==
  ASSUME TypeOK, NEW trusted \in BOOLEAN, NEW name \in Converted(AppIds),
         NEW appId \in Converted(AppIds), NEW path \in Converted(Paths),
         SetAppId(trusted, name, appId, path),
         NEW p \in Paths, fRegisteredServices[p] # Empty
  PROVE  fRegisteredServices'[p] = fRegisteredServices[p]
BY DEF SetAppId, Refused, Converted, TypeOK

\* Every step keeps the ids of the handles those of their services.
LEMMA IdStep ==
  ASSUME IdInv, [Next]_vars
  PROVE  IdInv'
<1>. USE DEF IdInv
<1>1. ASSUME NEW trusted \in BOOLEAN, NEW name \in Converted(AppIds),
             NEW appId \in Converted(AppIds), NEW path \in Converted(Paths),
             SetAppId(trusted, name, appId, path)
      PROVE  IdInv'
  <2>1. appId \in AppIds /\ path \in Paths
    BY <1>1 DEF SetAppId, Refused, Converted
  <2>2. TypeOK'
    BY <1>1, <2>1 DEF SetAppId, TypeOK
  <2>3. IdOfContainingService'
    <3>. SUFFICES ASSUME NEW r \in registered, r.id # JsServer
                  PROVE  \E i \in DOMAIN r.stack, p \in Paths :
                           /\ i <= MaxFrames
                           /\ <<r.stack[i], p>> \in Contains
                           /\ r.id = fRegisteredServices'[p]
      BY <1>1 DEF SetAppId, IdOfContainingService
    <3>1. PICK i \in DOMAIN r.stack, p \in Paths :
            /\ i <= MaxFrames
            /\ <<r.stack[i], p>> \in Contains
            /\ r.id = fRegisteredServices[p]
      BY DEF IdOfContainingService
    <3>2. r.id # Empty
      BY AppIdAssumption DEF TypeOK
    <3>3. fRegisteredServices'[p] = fRegisteredServices[p]
      BY <1>1, <3>1, <3>2, IdsAreSetOnce
    <3>. QED
      BY <3>1, <3>3
  <2>. QED
    BY <2>2, <2>3
<1>2. ASSUME NEW stack \in Stacks, NewHandle(stack) PROVE IdInv'
  <2>1. PICK id \in FindMyAppId(stack) :
          registered' = registered \cup {[stack |-> stack, id |-> id]}
    BY <1>2 DEF NewHandle
  <2>2. /\ id \in AppIds
        /\ \E i \in DOMAIN stack, p \in Paths :
             i <= MaxFrames /\ <<stack[i], p>> \in Contains /\ id = fRegisteredServices[p]
    BY <2>1, FindMyAppIdContaining
  <2>3. TypeOK'
    BY <1>2, <2>1, <2>2 DEF NewHandle, TypeOK
  <2>4. IdOfContainingService'
    BY <1>2, <2>1, <2>2 DEF NewHandle, IdOfContainingService
  <2>. QED
    BY <2>3, <2>4
<1>3. ASSUME NEW stack \in Stacks, NewJsServer(stack) PROVE IdInv'
  <2>1. TypeOK'
    BY <1>3, AppIdAssumption DEF NewJsServer, TypeOK
  <2>2. IdOfContainingService'
    BY <1>3 DEF NewJsServer, IdOfContainingService
  <2>. QED
    BY <2>1, <2>2
<1>4. CASE UNCHANGED vars
  BY <1>4 DEF vars, TypeOK, IdOfContainingService
<1>. QED
  BY <1>1, <1>2, <1>3, <1>4 DEF Next

\* The invariant holds from the first setAppId on.
LEMMA IdInvariant == Spec => []IdInv
<1>1. Init => IdInv
  BY DEF Init, IdInv, TypeOK, IdOfContainingService
<1>2. IdInv /\ [Next]_vars => IdInv'
  BY IdStep
<1>. QED
  BY <1>1, <1>2, PTL DEF Spec

\* Whatever paths setAppId was given, also when they overlap, no handle has or gets
\* the id of a service whose path is not in the directory of a script on its stack.
THEOREM IdsAreOnStack == Spec => []IdOfContainingService
<1>1. IdInv => IdOfContainingService
  BY DEF IdInv
<1>. QED
  BY <1>1, IdInvariant, PTL

\* Also with overlapping paths, a handle gets an id found in the innermost frame where
\* any is found.
THEOREM IdsAreFirstFound == Spec => IdOfFirstFound
<1>. DEFINE FirstFound ==
       \A r \in registered' \ registered :
         r.id # JsServer =>
           \E i \in DOMAIN r.stack :
             /\ i <= MaxFrames
             /\ \E p \in Paths :
                  <<r.stack[i], p>> \in Contains /\ r.id = fRegisteredServices[p]
             /\ \A k \in 1..(i - 1), p \in Paths :
                  <<r.stack[k], p>> \in Contains => fRegisteredServices[p] = Empty
<1>1. ASSUME [Next]_vars PROVE FirstFound
  <2>1. ASSUME NEW trusted \in BOOLEAN, NEW name \in Converted(AppIds),
               NEW appId \in Converted(AppIds), NEW path \in Converted(Paths),
               SetAppId(trusted, name, appId, path)
        PROVE  FirstFound
    BY <2>1 DEF SetAppId
  <2>2. ASSUME NEW stack \in Stacks, NewHandle(stack) PROVE FirstFound
    <3>1. PICK id \in FindMyAppId(stack) :
            registered' = registered \cup {[stack |-> stack, id |-> id]}
      BY <2>2 DEF NewHandle
    <3>2. PICK i \in StackTrace(stack) :
            id \in Found(stack[i]) /\ \A k \in 1..(i - 1) : Found(stack[k]) = {}
      BY <3>1 DEF FindMyAppId
    <3>3. i \in DOMAIN stack /\ i <= MaxFrames
      BY <3>2 DEF StackTrace
    <3>4. \E p \in Paths : <<stack[i], p>> \in Contains /\ id = fRegisteredServices[p]
      BY <3>2 DEF Found
    <3>5. ASSUME NEW k \in 1..(i - 1), NEW p \in Paths, <<stack[k], p>> \in Contains
          PROVE  fRegisteredServices[p] = Empty
      BY <3>2, <3>5 DEF Found
    <3>. QED
      BY <3>1, <3>3, <3>4, <3>5
  <2>3. ASSUME NEW stack \in Stacks, NewJsServer(stack) PROVE FirstFound
    BY <2>3 DEF NewJsServer
  <2>4. CASE UNCHANGED vars
    BY <2>4 DEF vars
  <2>. QED
    BY <1>1, <2>1, <2>2, <2>3, <2>4 DEF Next
<1>. QED
  BY <1>1, PTL DEF Spec, IdOfFirstFound

\* With services in separate directories, a handle created by a service that has an
\* id gets that id, whatever services called it.
THEOREM IdsAreInnermost ==
  ASSUME Apart
  PROVE  Spec => IdOfInnermostService
<1>. DEFINE Innermost ==
       \A r \in registered' \ registered :
         r.id # JsServer /\ fRegisteredServices[Home[Head(r.stack)]] # Empty
           => r.id = fRegisteredServices[Home[Head(r.stack)]]
<1>1. ASSUME IdInv, [Next]_vars PROVE Innermost
  <2>1. ASSUME NEW trusted \in BOOLEAN, NEW name \in Converted(AppIds),
               NEW appId \in Converted(AppIds), NEW path \in Converted(Paths),
               SetAppId(trusted, name, appId, path)
        PROVE  Innermost
    BY <2>1 DEF SetAppId
  <2>2. ASSUME NEW stack \in Stacks, NewHandle(stack) PROVE Innermost
    <3>. SUFFICES ASSUME fRegisteredServices[Home[Head(stack)]] # Empty,
                         NEW id \in FindMyAppId(stack)
                  PROVE  id = fRegisteredServices[Home[Head(stack)]]
      BY <2>2 DEF NewHandle
    <3>1. stack \in Seq(Directories) /\ stack # << >>
      BY AppIdAssumption
    <3>2. 1 \in StackTrace(stack) /\ Head(stack) = stack[1] /\ stack[1] \in Directories
      BY <3>1, AppIdAssumption DEF StackTrace
    <3>3. Found(stack[1]) = {fRegisteredServices[Home[Head(stack)]]}
      BY <1>1, <3>2, FoundOwn DEF IdInv
    <3>4. PICK j \in StackTrace(stack) :
            id \in Found(stack[j]) /\ \A k \in 1..(j - 1) : Found(stack[k]) = {}
      BY DEF FindMyAppId
    <3>5. j \in Nat /\ j >= 1
      BY <3>1, <3>4 DEF StackTrace
    <3>6. j = 1
      <4>1. Found(stack[1]) # {}
        BY <3>3
      <4>2. 1 \notin 1..(j - 1)
        BY <3>4, <4>1
      <4>. QED
        BY <3>5, <4>2
    <3>. QED
      BY <3>3, <3>4, <3>6
  <2>3. ASSUME NEW stack \in Stacks, NewJsServer(stack) PROVE Innermost
    BY <2>3 DEF NewJsServer
  <2>4. CASE UNCHANGED vars
    BY <2>4 DEF vars
  <2>. QED
    BY <1>1, <2>1, <2>2, <2>3, <2>4 DEF Next
<1>. QED
  BY <1>1, IdInvariant, PTL DEF Spec, IdOfInnermostService

=============================================================================
