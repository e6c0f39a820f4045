---------------------------- MODULE WrappersProofs ----------------------------
(***************************************************************************)
(* What the member function wrappers guarantee for any nesting of          *)
(* invocations, any number of calls and any width of JavaScript numbers.   *)
(***************************************************************************)
EXTENDS Wrappers, SequenceTheorems, TLAPS

\* An invocation: a token that has been converted is what is left of the one that was
\* meant in the width of a JavaScript number.
Sound ==
  {f \in Frames :
     /\ f.bound <= Len(Parameters(f.method))
     /\ f.meant <= made
     /\ f.method = "cancel" /\ f.bound = 1 => f.token = f.meant % 2 ^ JsWidth}

\* A handle that was unregistered has no calls and nothing granted, so that the
\* methods that do not require the handle have nothing to change.
WrappersInv ==
  /\ TypeOK
  /\ stack \in Seq(Sound)
  /\ ~fHandle => calls = {} /\ granted = {}
  /\ StringsOutliveBody

-----------------------------------------------------------------------------

\* No method has more than three parameters.
LEMMA ParametersType ==
  ASSUME NEW m \in Methods
  PROVE  /\ Len(Parameters(m)) \in 0..3
         /\ m = "cancel" => Len(Parameters(m)) = 1 /\ Parameters(m)[1] = "token"
<1>1. CASE m = "call"
  BY <1>1 DEF Parameters
<1>2. CASE m = "callSession"
  BY <1>2 DEF Parameters
<1>3. CASE m = "subscriptionAdd"
  BY <1>3 DEF Parameters
<1>4. CASE m = "pushRole"
  BY <1>4 DEF Parameters
<1>5. CASE m = "setResponseTimeout"
  BY <1>5 DEF Parameters
<1>6. CASE m = "cancel"
  BY <1>6 DEF Parameters
<1>7. CASE m = "unregister"
  BY <1>7 DEF Parameters
<1>. QED
  BY <1>1, <1>2, <1>3, <1>4, <1>5, <1>6, <1>7 DEF Methods

\* Only the narrowing on the way to the script loses anything of a token.
LEMMA TokenRoundTrip ==
  ASSUME NEW t \in 0..MaxTokens
  PROVE  /\ TokenFromJS(TokenToJS(t)) = t % 2 ^ JsWidth
         /\ t % 2 ^ JsWidth \in Nat
<1>. DEFINE range == 2 ^ JsWidth
<1>1. range \in Nat \ {0} /\ t \in Nat
  BY WrappersAssumption
<1>. HIDE DEF range
<1>2. t % range \in 0..(range - 1)
  BY <1>1
<1>3. \A n \in 0..(range - 1) : n % range = n
  BY <1>1
<1>. QED
  BY <1>2, <1>3 DEF TokenFromJS, TokenToJS, range

\* An invocation is put on top of the others.
LEMMA Push ==
  ASSUME NEW S, stack \in Seq(S), NEW f \in S, stack' = <<f>> \o stack, NEW n, n = Depth
  PROVE  /\ stack' \in Seq(S) /\ n \in Nat /\ Depth' = n + 1
         /\ FrameAt(n + 1)' = f
         /\ \A d \in 1..n : FrameAt(d)' = FrameAt(d)
<1>1. <<f>> \in Seq(S) /\ Len(<<f>>) = 1 /\ <<f>>[1] = f
  OBVIOUS
<1>2. /\ stack' \in Seq(S) /\ Len(stack') = 1 + Len(stack)
      /\ \A i \in 1..(1 + Len(stack)) : stack'[i] = IF i <= 1 THEN <<f>>[i] ELSE stack[i - 1]
  BY <1>1, ConcatProperties
<1>3. Len(stack) \in Nat
  BY LenProperties
<1>. QED
  BY <1>1, <1>2, <1>3 DEF Depth, FrameAt

\* The innermost invocation goes on.
LEMMA Replace ==
  ASSUME NEW S, stack \in Seq(S), stack # << >>, NEW f \in S,
         stack' = <<f>> \o Tail(stack), NEW n, n = Depth
  PROVE  /\ stack' \in Seq(S) /\ n \in Nat \ {0} /\ Depth' = n
         /\ Top \in S /\ Top = FrameAt(n)
         /\ FrameAt(n)' = f
         /\ \A d \in 1..n : d # n => FrameAt(d)' = FrameAt(d)
<1>1. <<f>> \in Seq(S) /\ Len(<<f>>) = 1 /\ <<f>>[1] = f
  OBVIOUS
<1>2. /\ Head(stack) \in S /\ Tail(stack) \in Seq(S) /\ Len(Tail(stack)) = Len(stack) - 1
      /\ \A i \in 1..Len(Tail(stack)) : Tail(stack)[i] = stack[i + 1]
      /\ Len(stack) \in Nat \ {0} /\ Head(stack) = stack[1]
  BY HeadTailProperties, LenProperties, EmptySeq
<1>3. /\ stack' \in Seq(S) /\ Len(stack') = 1 + Len(Tail(stack))
      /\ \A i \in 1..(1 + Len(Tail(stack))) :
           stack'[i] = IF i <= 1 THEN <<f>>[i] ELSE Tail(stack)[i - 1]
  BY <1>1, <1>2, ConcatProperties
<1>. QED
  BY <1>1, <1>2, <1>3 DEF Depth, FrameAt, Top

\* The innermost invocation ends.
LEMMA Pop ==
  ASSUME NEW S, stack \in Seq(S), stack # << >>, stack' = Tail(stack), NEW n, n = Depth
  PROVE  /\ stack' \in Seq(S) /\ n \in Nat \ {0} /\ Depth' = n - 1
         /\ Top \in S /\ Top = FrameAt(n)
         /\ \A d \in 1..n : d # n => FrameAt(d)' = FrameAt(d)
<1>1. /\ Head(stack) \in S /\ Tail(stack) \in Seq(S) /\ Len(Tail(stack)) = Len(stack) - 1
      /\ \A i \in 1..Len(Tail(stack)) : Tail(stack)[i] = stack[i + 1]
      /\ Len(stack) \in Nat \ {0} /\ Head(stack) = stack[1]
  BY HeadTailProperties, LenProperties, EmptySeq
<1>. QED
  BY <1>1 DEF Depth, FrameAt, Top

-----------------------------------------------------------------------------
(* The converted strings *)

\* Parameter p of the invocation at depth d is a string and was converted.
StringAt(d, p) ==
  /\ p <= FrameAt(d).bound
  /\ Parameters(FrameAt(d).method)[p] = "string"

\* StringsOutliveBody, converter by converter.
StringsMatch ==
  /\ temps \subseteq (1..Depth) \X (1..3)
  /\ \A d \in 1..Depth, p \in 1..3 : <<d, p>> \in temps <=> StringAt(d, p)

LEMMA StringsEquiv == StringsOutliveBody <=> StringsMatch
<1>1. StringsOutliveBody => StringsMatch
  BY DEF StringsOutliveBody, StringsMatch, StringAt
<1>2. ASSUME StringsMatch PROVE StringsOutliveBody
  <2>1. ASSUME NEW t \in temps
        PROVE  /\ t \in (1..Depth) \X (1..3) /\ t[2] <= FrameAt(t[1]).bound
               /\ Parameters(FrameAt(t[1]).method)[t[2]] = "string"
    <3>1. t \in (1..Depth) \X (1..3) /\ t = <<t[1], t[2]>>
      BY <1>2 DEF StringsMatch
    <3>2. t[1] \in 1..Depth /\ t[2] \in 1..3 /\ <<t[1], t[2]>> \in temps
      BY <3>1
    <3>. QED
      BY <1>2, <3>1, <3>2 DEF StringsMatch, StringAt
  <2>2. ASSUME NEW t \in (1..Depth) \X (1..3), t[2] <= FrameAt(t[1]).bound,
               Parameters(FrameAt(t[1]).method)[t[2]] = "string"
        PROVE  t \in temps
    <3>1. t[1] \in 1..Depth /\ t[2] \in 1..3 /\ t = <<t[1], t[2]>>
      OBVIOUS
    <3>. QED
      BY <1>2, <2>2, <3>1 DEF StringsMatch, StringAt
  <2>. QED
    BY <2>1, <2>2 DEF StringsOutliveBody
<1>. QED
  BY <1>1, <1>2

\* A new invocation has converted nothing.
LEMMA PushKeepsStrings ==
  ASSUME WrappersInv, NEW f \in Sound, f.bound = 0, stack' = <<f>> \o stack, temps' = temps
  PROVE  StringsOutliveBody' /\ stack' \in Seq(Sound)
<1>n. PICK n : n = Depth
  OBVIOUS
<1>1. /\ stack' \in Seq(Sound) /\ n \in Nat /\ Depth' = n + 1
      /\ FrameAt(n + 1)' = f
      /\ \A d \in 1..n : FrameAt(d)' = FrameAt(d)
  BY <1>n, Push DEF WrappersInv
<1>2. StringsMatch
  BY StringsEquiv DEF WrappersInv
<1>3. \A d \in 1..n, p \in 1..3 : StringAt(d, p)' <=> StringAt(d, p)
  BY <1>1 DEF StringAt
<1>4. \A p \in 1..3 : ~StringAt(n + 1, p)' /\ <<n + 1, p>> \notin temps
  BY <1>n, <1>1, <1>2 DEF StringAt, StringsMatch
<1>5. temps' \subseteq (1..(n + 1)) \X (1..3)
  BY <1>n, <1>1, <1>2 DEF StringsMatch
<1>6. ASSUME NEW d \in 1..(n + 1), NEW p \in 1..3
      PROVE  <<d, p>> \in temps' <=> StringAt(d, p)'
  <2>1. CASE d = n + 1
    BY <1>4, <2>1
  <2>2. CASE d # n + 1
    <3>1. d \in 1..n
      BY <1>1, <2>2
    <3>. QED
      BY <1>n, <1>2, <1>3, <3>1 DEF StringsMatch
  <2>. QED
    BY <2>1, <2>2
<1>7. StringsMatch'
  BY <1>1, <1>5, <1>6 DEF StringsMatch
<1>8. StringsMatch' => StringsOutliveBody'
  BY StringsEquiv, PTL
<1>. QED
  BY <1>1, <1>7, <1>8

\* The conversion that goes on is that of the innermost invocation, and what it
\* converts is alive from then on if it is a string.
LEMMA ReplaceKeepsStrings ==
  ASSUME WrappersInv, stack # << >>, NEW f \in Sound, stack' = <<f>> \o Tail(stack),
         f.method = Top.method,
         \/ f.bound = Top.bound /\ temps' = temps
         \/ /\ f.bound = Top.bound + 1 /\ Next_Type # "none"
            /\ temps' = IF Next_Type = "string" THEN temps \cup {<<Depth, Top.bound + 1>>}
                                                ELSE temps
  PROVE  StringsOutliveBody' /\ stack' \in Seq(Sound)
<1>n. PICK n : n = Depth
  OBVIOUS
<1>1. /\ stack' \in Seq(Sound) /\ n \in Nat \ {0} /\ Depth' = n
      /\ Top \in Sound /\ Top = FrameAt(n)
      /\ FrameAt(n)' = f
      /\ \A d \in 1..n : d # n => FrameAt(d)' = FrameAt(d)
  BY <1>n, Replace DEF WrappersInv
<1>2. StringsMatch
  BY StringsEquiv DEF WrappersInv
<1>3. \A d \in 1..n, p \in 1..3 : d # n => (StringAt(d, p)' <=> StringAt(d, p))
  BY <1>1 DEF StringAt
<1>4. /\ Top.bound \in 0..3 /\ f.bound \in 0..3 /\ Top.method \in Methods
      /\ f.bound <= Len(Parameters(f.method))
  BY <1>1 DEF Sound, Frames
<1>5. CASE f.bound = Top.bound /\ temps' = temps
  <2>1. \A p \in 1..3 : StringAt(n, p)' <=> StringAt(n, p)
    BY <1>1, <1>5 DEF StringAt
  <2>2. StringsMatch'
    BY <1>n, <1>1, <1>2, <1>3, <1>5, <2>1 DEF StringsMatch
  <2>. QED
    BY <1>1, <2>2, StringsEquiv, PTL
<1>6. CASE /\ f.bound = Top.bound + 1 /\ Next_Type # "none"
           /\ temps' = IF Next_Type = "string" THEN temps \cup {<<Depth, Top.bound + 1>>}
                                               ELSE temps
  <2>. DEFINE q == Top.bound + 1
  <2>1. q \in 1..3 /\ Next_Type = Parameters(Top.method)[q]
    BY <1>4, <1>6 DEF Next_Type
  <2>2. \A p \in 1..3 :
          StringAt(n, p)' <=> StringAt(n, p) \/ (p = q /\ Next_Type = "string")
    <3>1. ASSUME NEW p \in 1..3 PROVE p <= f.bound <=> p <= Top.bound \/ p = q
      BY <1>4, <1>6
    <3>2. ASSUME NEW p \in 1..3
          PROVE  StringAt(n, p)' <=> p <= f.bound /\ Parameters(Top.method)[p] = "string"
      BY <1>1 DEF StringAt
    <3>3. ASSUME NEW p \in 1..3
          PROVE  StringAt(n, p) <=> p <= Top.bound /\ Parameters(Top.method)[p] = "string"
      BY <1>1 DEF StringAt
    <3>. QED
      BY <2>1, <3>1, <3>2, <3>3
  <2>3. temps' \subseteq (1..n) \X (1..3)
    BY <1>n, <1>1, <1>2, <1>6, <2>1 DEF StringsMatch
  <2>4. ASSUME NEW d \in 1..n, NEW p \in 1..3
        PROVE  <<d, p>> \in temps' <=> StringAt(d, p)'
    <3>1. <<d, p>> \in temps <=> StringAt(d, p)
      BY <1>n, <1>2 DEF StringsMatch
    <3>2. <<d, p>> \in temps' <=> <<d, p>> \in temps \/ (d = n /\ p = q /\ Next_Type = "string")
      BY <1>n, <1>6
    <3>. QED
      BY <1>3, <2>2, <3>1, <3>2
  <2>5. StringsMatch'
    BY <1>1, <2>3, <2>4 DEF StringsMatch
  <2>6. StringsMatch' => StringsOutliveBody'
    BY StringsEquiv, PTL
  <2>. QED
    BY <1>1, <2>5, <2>6
<1>. QED
  BY <1>5, <1>6

\* The converters of an invocation go with it.
LEMMA PopKeepsStrings ==
  ASSUME WrappersInv, stack # << >>, Return
  PROVE  StringsOutliveBody' /\ stack' \in Seq(Sound)
<1>n. PICK n : n = Depth
  OBVIOUS
<1>0. stack' = Tail(stack) /\ temps' = {t \in temps : t[1] # n}
  BY <1>n DEF Return
<1>1. /\ stack' \in Seq(Sound) /\ n \in Nat \ {0} /\ Depth' = n - 1
      /\ \A d \in 1..n : d # n => FrameAt(d)' = FrameAt(d)
  BY <1>n, <1>0, Pop DEF WrappersInv
<1>2. StringsMatch
  BY StringsEquiv DEF WrappersInv
<1>3. \A d \in 1..(n - 1) : d \in 1..n /\ d # n
  BY <1>1
<1>4. ASSUME NEW d \in 1..(n - 1), NEW p \in 1..3
      PROVE  <<d, p>> \in temps' <=> StringAt(d, p)'
  <2>1. <<d, p>> \in temps <=> StringAt(d, p)
    BY <1>n, <1>2, <1>3 DEF StringsMatch
  <2>2. <<d, p>> \in temps' <=> <<d, p>> \in temps
    BY <1>0, <1>3
  <2>3. StringAt(d, p)' <=> StringAt(d, p)
    BY <1>1, <1>3 DEF StringAt
  <2>. QED
    BY <2>1, <2>2, <2>3
<1>5. temps' \subseteq (1..(n - 1)) \X (1..3)
  <2>. SUFFICES ASSUME NEW t \in temps, t[1] # n PROVE t \in (1..(n - 1)) \X (1..3)
    BY <1>0
  <2>1. t \in (1..n) \X (1..3)
    BY <1>n, <1>2 DEF StringsMatch
  <2>2. t[1] \in 1..(n - 1) /\ t[2] \in 1..3 /\ t = <<t[1], t[2]>>
    BY <1>1, <2>1
  <2>. QED
    BY <2>2
<1>6. StringsMatch'
  BY <1>1, <1>4, <1>5 DEF StringsMatch
<1>7. StringsMatch' => StringsOutliveBody'
  BY StringsEquiv, PTL
<1>. QED
  BY <1>1, <1>6, <1>7

-----------------------------------------------------------------------------
(* The steps *)

\* What every step keeps, given what it does to the bus.
LEMMA StackKept ==
  ASSUME WrappersInv, stack' \in Seq(Sound), made' \in 0..MaxTokens, made <= made'
  PROVE  stack' \in Seq(Sound)' /\ stack' \in Seq(Frames)
<1>1. Sound \subseteq Frames /\ Sound' = {f \in Frames :
        /\ f.bound <= Len(Parameters(f.method))
        /\ f.meant <= made'
        /\ f.method = "cancel" /\ f.bound = 1 => f.token = f.meant % 2 ^ JsWidth}
  BY DEF Sound
<1>2. \A f \in Sound : f.meant \in Nat
  BY WrappersAssumption DEF Sound, Frames
<1>3. Sound \subseteq Sound'
  BY <1>1, <1>2, WrappersAssumption DEF Sound, WrappersInv, TypeOK
<1>. QED
  BY <1>1, <1>3

\* The strings alive are those of invocations under way.
LEMMA TempsType ==
  ASSUME StringsOutliveBody', stack' \in Seq(Frames)
  PROVE  temps' \in SUBSET (Nat \X (1..3))
<1>1. Depth' \in Nat
  BY LenProperties DEF Depth
<1>2. temps' \subseteq (1..Depth') \X (1..3)
  BY DEF StringsOutliveBody
<1>. QED
  BY <1>1, <1>2

\* The innermost invocation, when there is one.
LEMMA TopSound ==
  ASSUME WrappersInv, stack # << >>
  PROVE  Top \in Sound /\ Top \in Frames /\ Top.method \in Methods /\ Top.bound \in 0..3
         /\ Top.bound <= Len(Parameters(Top.method)) /\ Top.meant \in 0..MaxTokens
         /\ Top.meant <= made /\ Top.script \in BOOLEAN /\ Top.token \in Nat
<1>1. Top \in Sound
  BY HeadTailProperties DEF WrappersInv, Top
<1>. QED
  BY <1>1 DEF Sound, Frames

\* Binding an argument that is not a token, or is what is left of the one that was meant.
LEMMA BindSound ==
  ASSUME WrappersInv, stack # << >>, NEW token \in Nat, Next_Type # "none",
         Next_Type = "token" => token = Top.meant % 2 ^ JsWidth
  PROVE  LET f == [Top EXCEPT !.bound = @ + 1, !.script = FALSE, !.token = token]
         IN  f \in Sound /\ f.method = Top.method /\ f.bound = Top.bound + 1
<1>. DEFINE f == [Top EXCEPT !.bound = @ + 1, !.script = FALSE, !.token = token]
<1>1. /\ Top \in Frames /\ Top.method \in Methods /\ Top.bound \in 0..3
      /\ Top.meant <= made
  BY TopSound
<1>2. PICK top : top = Top
  OBVIOUS
<1>3. PICK n : n = Len(Parameters(top.method))
  OBVIOUS
<1>4. /\ n \in 0..3 /\ top.bound \in 0..3 /\ top.bound < n
      /\ Next_Type = Parameters(top.method)[top.bound + 1]
      /\ top.method = "cancel" => n = 1 /\ Parameters(top.method)[1] = "token"
  <2>1. top.method \in Methods /\ top.bound \in 0..3
    BY <1>1, <1>2
  <2>2. n \in 0..3 /\ (top.method = "cancel" => n = 1 /\ Parameters(top.method)[1] = "token")
    BY <1>3, <2>1, ParametersType
  <2>. QED
    BY <1>2, <1>3, <2>1, <2>2 DEF Next_Type
<1>5. top.bound + 1 \in 0..3 /\ top.bound + 1 <= n
  BY <1>4
<1>6. /\ f \in Frames /\ f.method = top.method /\ f.bound = top.bound + 1
      /\ f.meant = top.meant /\ f.token = token
  BY <1>1, <1>2, <1>5 DEF Frames
<1>7. top.method = "cancel" => token = top.meant % 2 ^ JsWidth
  <2>. SUFFICES ASSUME top.method = "cancel" PROVE Next_Type = "token"
    BY <1>2
  <2>1. top.bound = 0
    BY <1>4
  <2>. QED
    BY <1>4, <2>1
<1>8. f.bound <= Len(Parameters(f.method)) /\ f.meant <= made
  BY <1>1, <1>2, <1>3, <1>5, <1>6
<1>. QED
  BY <1>2, <1>6, <1>7, <1>8 DEF Sound

\* The part of the invariant that is about the bus.
BusInv ==
  /\ fHandle \in BOOLEAN /\ granted \subseteq Methods
  /\ made \in 0..MaxTokens
  /\ calls \in SUBSET (1..made)
  /\ ~fHandle => calls = {} /\ granted = {}

\* The parts of the invariant, put together.
LEMMA Together ==
  ASSUME WrappersInv, BusInv', made <= made', aborted' \in BOOLEAN,
         StringsOutliveBody', stack' \in Seq(Sound)
  PROVE  WrappersInv'
<1>1. stack' \in Seq(Sound)' /\ stack' \in Seq(Frames)
  BY StackKept DEF BusInv
<1>2. temps' \in SUBSET (Nat \X (1..3))
  BY <1>1, TempsType
<1>3. Frames' = Frames
  BY DEF Frames
<1>4. TypeOK'
  BY <1>1, <1>2, <1>3 DEF TypeOK, BusInv
<1>. QED
  BY <1>1, <1>4 DEF WrappersInv, BusInv

\* A step that leaves the bus alone.
LEMMA BusUnchanged ==
  ASSUME WrappersInv, UNCHANGED busVars
  PROVE  BusInv' /\ made <= made'
BY WrappersAssumption DEF WrappersInv, TypeOK, BusInv, busVars

\* A method ends.
LEMMA BodyStep ==
  ASSUME WrappersInv, NEW m \in Methods, Body(m)
  PROVE  stack # << >> /\ StringsOutliveBody' /\ stack' \in Seq(Sound) /\ aborted' \in BOOLEAN
<1>1. stack # << >> /\ Return /\ aborted' = aborted
  BY DEF Body, Converting, Return
<1>2. StringsOutliveBody' /\ stack' \in Seq(Sound)
  BY <1>1, PopKeepsStrings
<1>. QED
  BY <1>1, <1>2 DEF WrappersInv, TypeOK

\* The library grants something to a handle that is valid.
LEMMA GrantKeepsBus ==
  ASSUME WrappersInv, fHandle, NEW m \in Methods, granted' = granted \cup {m},
         UNCHANGED <<fHandle, calls, made>>
  PROVE  BusInv' /\ made <= made'
BY WrappersAssumption DEF WrappersInv, TypeOK, BusInv

\* A step that leaves the stack and the converters alone.
LEMMA StackUnchanged ==
  ASSUME WrappersInv, stack' = stack, temps' = temps
  PROVE  StringsOutliveBody' /\ stack' \in Seq(Sound)
BY DEF WrappersInv, StringsOutliveBody, Depth, FrameAt

LEMMA WrappersStep == WrappersInv /\ [Next]_vars => WrappersInv'
<1>. SUFFICES ASSUME WrappersInv, [Next]_vars PROVE WrappersInv'
  OBVIOUS
<1>. USE DEF Methods
<1>1. ASSUME NEW m \in Methods, NEW t \in 0..made, Invoke(m, t) PROVE WrappersInv'
  <2>. DEFINE f == [method |-> m, bound |-> 0, script |-> FALSE, meant |-> t,
                    token |-> LSMESSAGE_TOKEN_INVALID]
  <2>1. f \in Frames /\ f.bound = 0 /\ f.meant <= made /\ f.method = m
    BY WrappersAssumption DEF WrappersInv, TypeOK, Frames, LSMESSAGE_TOKEN_INVALID
  <2>2. Len(Parameters(m)) \in 0..3
    BY ParametersType
  <2>3. f \in Sound
    BY <2>1, <2>2 DEF Sound
  <2>4. stack' = <<f>> \o stack /\ temps' = temps /\ UNCHANGED busVars /\ aborted' = aborted
    BY <1>1 DEF Invoke
  <2>. HIDE DEF f
  <2>5. StringsOutliveBody' /\ stack' \in Seq(Sound)
    BY <2>1, <2>3, <2>4, PushKeepsStrings
  <2>6. BusInv' /\ made <= made' /\ aborted' \in BOOLEAN
    BY <2>4, BusUnchanged DEF WrappersInv, TypeOK
  <2>. QED
    BY <2>5, <2>6, Together
<1>2. CASE RunScript
  <2>. DEFINE f == [Top EXCEPT !.script = TRUE]
  <2>1. stack # << >> /\ stack' = <<f>> \o Tail(stack) /\ temps' = temps
        /\ UNCHANGED busVars /\ aborted' = aborted
    BY <1>2 DEF RunScript, Converting
  <2>2. Top \in Sound /\ Top \in Frames
    BY <2>1, TopSound
  <2>3. f \in Frames /\ f.method = Top.method /\ f.bound = Top.bound
        /\ f.meant = Top.meant /\ f.token = Top.token
    BY <2>2 DEF Frames
  <2>4. f \in Sound
    BY <2>2, <2>3 DEF Sound
  <2>. HIDE DEF f
  <2>5. StringsOutliveBody' /\ stack' \in Seq(Sound)
    BY <2>1, <2>3, <2>4, ReplaceKeepsStrings
  <2>6. BusInv' /\ made <= made' /\ aborted' \in BOOLEAN
    BY <2>1, BusUnchanged DEF WrappersInv, TypeOK
  <2>. QED
    BY <2>5, <2>6, Together
<1>3. CASE ConvertString
  <2>. DEFINE f == [Top EXCEPT !.bound = @ + 1, !.script = FALSE, !.token = Top.token]
  <2>1. stack # << >> /\ Next_Type = "string" /\ stack' = <<f>> \o Tail(stack)
        /\ temps' = temps \cup {<<Depth, Top.bound + 1>>}
        /\ UNCHANGED busVars /\ aborted' = aborted
    BY <1>3 DEF ConvertString, Converting, Bind, TempsAfterString
  <2>2. f \in Sound /\ f.method = Top.method /\ f.bound = Top.bound + 1
    BY <2>1, TopSound, BindSound
  <2>. HIDE DEF f
  <2>3. StringsOutliveBody' /\ stack' \in Seq(Sound)
    BY <2>1, <2>2, ReplaceKeepsStrings
  <2>4. BusInv' /\ made <= made' /\ aborted' \in BOOLEAN
    BY <2>1, BusUnchanged DEF WrappersInv, TypeOK
  <2>. QED
    BY <2>3, <2>4, Together
<1>4. CASE ConvertToken
  <2>1. stack # << >> /\ Next_Type = "token" /\ temps' = temps /\ UNCHANGED busVars
    BY <1>4 DEF ConvertToken, Converting
  <2>2. aborted' \in BOOLEAN
    BY <1>4 DEF ConvertToken, NumberMissing, WrappersInv, TypeOK
  <2>3. CASE Bind(TokenFromJS(TokenToJS(Top.meant)))
    <3>. DEFINE left == Top.meant % 2 ^ JsWidth
                f == [Top EXCEPT !.bound = @ + 1, !.script = FALSE, !.token = left]
    <3>1. TokenFromJS(TokenToJS(Top.meant)) = left /\ left \in Nat
      BY <2>1, TopSound, TokenRoundTrip
    <3>2. stack' = <<f>> \o Tail(stack)
      BY <2>3, <3>1 DEF Bind
    <3>3. f \in Sound /\ f.method = Top.method /\ f.bound = Top.bound + 1
      BY <2>1, <3>1, BindSound
    <3>. HIDE DEF f
    <3>. QED
      BY <2>1, <2>2, <3>2, <3>3, ReplaceKeepsStrings, BusUnchanged, Together
  <2>4. CASE UNCHANGED stack
    BY <2>1, <2>2, <2>4, StackUnchanged, BusUnchanged, Together
  <2>. QED
    BY <1>4, <2>3, <2>4 DEF ConvertToken, NumberMissing
<1>5. CASE ConvertInt
  <2>1. stack # << >> /\ Next_Type = "int" /\ temps' = temps /\ UNCHANGED busVars
    BY <1>5 DEF ConvertInt, Converting
  <2>2. aborted' \in BOOLEAN
    BY <1>5 DEF ConvertInt, NumberMissing, WrappersInv, TypeOK
  <2>3. CASE Bind(Top.token)
    <3>. DEFINE f == [Top EXCEPT !.bound = @ + 1, !.script = FALSE, !.token = Top.token]
    <3>1. stack' = <<f>> \o Tail(stack)
      BY <2>3 DEF Bind
    <3>2. f \in Sound /\ f.method = Top.method /\ f.bound = Top.bound + 1
      BY <2>1, TopSound, BindSound
    <3>. HIDE DEF f
    <3>. QED
      BY <2>1, <2>2, <3>1, <3>2, ReplaceKeepsStrings, BusUnchanged, Together
  <2>4. CASE UNCHANGED stack
    BY <2>1, <2>2, <2>4, StackUnchanged, BusUnchanged, Together
  <2>. QED
    BY <1>5, <2>3, <2>4 DEF ConvertInt, NumberMissing
<1>6. CASE ConvertMessage
  <2>1. stack # << >> /\ Next_Type = "message" /\ UNCHANGED busVars
    BY <1>6 DEF ConvertMessage, Converting
  <2>2. aborted' \in BOOLEAN
    BY <1>6 DEF ConvertMessage, Return, WrappersInv, TypeOK
  <2>3. CASE Bind(Top.token) /\ UNCHANGED <<temps, aborted>>
    <3>. DEFINE f == [Top EXCEPT !.bound = @ + 1, !.script = FALSE, !.token = Top.token]
    <3>1. stack' = <<f>> \o Tail(stack) /\ temps' = temps
      BY <2>3 DEF Bind
    <3>2. f \in Sound /\ f.method = Top.method /\ f.bound = Top.bound + 1
      BY <2>1, TopSound, BindSound
    <3>. HIDE DEF f
    <3>. QED
      BY <2>1, <2>2, <3>1, <3>2, ReplaceKeepsStrings, BusUnchanged, Together
  <2>4. CASE Return
    BY <2>1, <2>2, <2>4, PopKeepsStrings, BusUnchanged, Together
  <2>. QED
    BY <1>6, <2>3, <2>4 DEF ConvertMessage
<1>7. ASSUME NEW m \in Methods, Call(m) PROVE WrappersInv'
  <2>1. StringsOutliveBody' /\ stack' \in Seq(Sound) /\ aborted' \in BOOLEAN
    BY <1>7, BodyStep DEF Call
  <2>2. BusInv' /\ made <= made'
    BY <1>7, WrappersAssumption DEF Call, RequireHandle, WrappersInv, TypeOK, BusInv
  <2>. QED
    BY <2>1, <2>2, Together
<1>8. ASSUME NEW m \in Methods, Ask(m) PROVE WrappersInv'
  <2>1. StringsOutliveBody' /\ stack' \in Seq(Sound) /\ aborted' \in BOOLEAN
    BY <1>8, BodyStep DEF Ask
  <2>2. BusInv' /\ made <= made'
    BY <1>8, GrantKeepsBus DEF Ask, RequireHandle
  <2>. QED
    BY <2>1, <2>2, Together
<1>9. CASE SetResponseTimeout
  <2>1. StringsOutliveBody' /\ stack' \in Seq(Sound) /\ aborted' \in BOOLEAN
    BY <1>9, BodyStep DEF SetResponseTimeout
  <2>2. fHandle
    BY <1>9 DEF SetResponseTimeout, WrappersInv
  <2>3. BusInv' /\ made <= made'
    BY <1>9, <2>2, GrantKeepsBus DEF SetResponseTimeout
  <2>. QED
    BY <2>1, <2>3, Together
<1>10. CASE Cancel
  <2>1. StringsOutliveBody' /\ stack' \in Seq(Sound) /\ aborted' \in BOOLEAN
    BY <1>10, BodyStep DEF Cancel
  <2>2. BusInv' /\ made <= made'
    <3>1. made' = made /\ made' \in 0..MaxTokens /\ made <= made'
          /\ calls' \subseteq calls /\ calls' \in SUBSET (1..made')
      <4>1. made' = made /\ calls' = calls \ {Top.token}
        BY <1>10 DEF Cancel
      <4>2. made \in 0..MaxTokens /\ calls \in SUBSET (1..made)
        BY DEF WrappersInv, TypeOK
      <4>3. made <= made
        BY <4>2, WrappersAssumption
      <4>. QED
        BY <4>1, <4>2, <4>3
    <3>2. fHandle' /\ fHandle' \in BOOLEAN /\ granted' \subseteq Methods
      BY <1>10, Zenon DEF Cancel, RequireHandle, WrappersInv, TypeOK
    <3>. QED
      BY <3>1, <3>2 DEF BusInv
  <2>. QED
    BY <2>1, <2>2, Together
<1>11. CASE Unregister
  <2>1. StringsOutliveBody' /\ stack' \in Seq(Sound) /\ aborted' \in BOOLEAN
    BY <1>11, BodyStep DEF Unregister
  <2>2. BusInv' /\ made <= made'
    <3>1. made' \in 0..MaxTokens /\ made <= made' /\ calls' = {}
      BY <1>11, WrappersAssumption DEF Unregister, WrappersInv, TypeOK
    <3>2. fHandle' \in BOOLEAN /\ granted' \subseteq Methods /\ granted' = {}
      BY <1>11 DEF Unregister
    <3>. QED
      BY <3>1, <3>2 DEF BusInv
  <2>. QED
    BY <2>1, <2>2, Together
<1>12. ASSUME NEW m \in Methods, Throws(m) PROVE WrappersInv'
  <2>1. StringsOutliveBody' /\ stack' \in Seq(Sound) /\ aborted' \in BOOLEAN
    BY <1>12, BodyStep DEF Throws
  <2>. QED
    BY <1>12, <2>1, BusUnchanged, Together DEF Throws
<1>13. ASSUME NEW t \in calls, CallEnds(t) PROVE WrappersInv'
  <2>1. stack' = stack /\ temps' = temps /\ aborted' \in BOOLEAN
    BY <1>13 DEF CallEnds, WrappersInv, TypeOK
  <2>2. StringsOutliveBody' /\ stack' \in Seq(Sound)
    BY <2>1 DEF WrappersInv, StringsOutliveBody, Depth, FrameAt
  <2>3. BusInv' /\ made <= made'
    BY <1>13, WrappersAssumption DEF CallEnds, WrappersInv, TypeOK, BusInv
  <2>. QED
    BY <2>1, <2>2, <2>3, Together
<1>14. CASE UNCHANGED vars
  <2>1. stack' = stack /\ temps' = temps /\ UNCHANGED busVars /\ aborted' \in BOOLEAN
    BY <1>14 DEF vars, WrappersInv, TypeOK
  <2>2. StringsOutliveBody' /\ stack' \in Seq(Sound)
    BY <2>1 DEF WrappersInv, StringsOutliveBody, Depth, FrameAt
  <2>. QED
    BY <2>1, <2>2, BusUnchanged, Together
<1>15. LSMESSAGE_TOKEN_INVALID \in 0..made /\ 1..made \subseteq 0..made
  BY WrappersAssumption DEF LSMESSAGE_TOKEN_INVALID, WrappersInv, TypeOK
<1>. QED
  BY <1>1, <1>2, <1>3, <1>4, <1>5, <1>6, <1>7, <1>8, <1>9, <1>10, <1>11, <1>12, <1>13, <1>14, <1>15
     DEF Next

LEMMA WrappersInit == Init => WrappersInv
<1>. SUFFICES ASSUME Init PROVE WrappersInv
  OBVIOUS
<1>1. stack = << >> /\ Depth = 0 /\ temps = {}
  BY DEF Init, Depth
<1>2. StringsOutliveBody
  BY <1>1, StringsEquiv DEF StringsMatch
<1>3. \A S : stack \in Seq(S)
  BY <1>1, EmptySeq
<1>4. made \in 0..MaxTokens /\ calls = {} /\ calls \in SUBSET (1..made)
  BY WrappersAssumption DEF Init
<1>5. fHandle /\ fHandle \in BOOLEAN /\ granted \subseteq Methods /\ aborted \in BOOLEAN
  BY DEF Init
<1>6. TypeOK
  BY <1>1, <1>3, <1>4, <1>5 DEF TypeOK
<1>. QED
  BY <1>2, <1>3, <1>5, <1>6 DEF WrappersInv

LEMMA WrappersInvariant == Spec => []WrappersInv
BY WrappersInit, WrappersStep, PTL DEF Spec

\* Type correctness, for any nesting and any number of calls.
THEOREM WrappersTypeCorrect == Spec => []TypeOK
BY WrappersInvariant, PTL DEF WrappersInv

\* Every pointer that a method is given, and no other, is into a converter that is
\* alive: one step binds the string and keeps its converter, one destroys both.
THEOREM StringsCorrect == Spec => []StringsOutliveBody
BY WrappersInvariant, PTL DEF WrappersInv

\* For any number of calls and any width, also once the tokens no longer fit: the token
\* that cancel() hands to the library is the one the script meant if a number of
\* JavaScript can hold it, and that of an older call, or of none, otherwise.
THEOREM TokensCorrect == Spec => []CancelsWhatWasMeant
<1>1. ASSUME WrappersInv PROVE CancelsWhatWasMeant
  <2>. DEFINE range == 2 ^ JsWidth
  <2>1. range \in Nat \ {0} /\ MaxTokens \in Nat
    BY WrappersAssumption
  <2>. SUFFICES ASSUME NEW i \in DOMAIN stack, stack[i].method = "cancel", stack[i].bound = 1
                PROVE  IF stack[i].meant < range THEN stack[i].token = stack[i].meant
                                                 ELSE stack[i].token < stack[i].meant
    BY DEF CancelsWhatWasMeant
  <2>2. stack[i] \in Sound
    BY <1>1, LenProperties, ElementOfSeq DEF WrappersInv
  <2>3. stack[i].token = stack[i].meant % range /\ stack[i].meant \in Nat
    BY <2>1, <2>2 DEF Sound, Frames
  <2>. HIDE DEF range
  <2>4. \A t \in Nat : /\ t < range => t % range = t
                       /\ t >= range => t % range < t
    BY <2>1
  <2>. QED
    BY <2>1, <2>3, <2>4
<1>. QED
  BY <1>1, WrappersInvariant, PTL

\* What unregister() leaves stays: the methods that work on the bus require a handle,
\* and those that do not find nothing to undo.
THEOREM UnregisterIsFinal == Spec => NothingAfterUnregister
<1>1. ASSUME WrappersInv, [Next]_vars PROVE [~fHandle => UNCHANGED busVars]_vars
  <2>. SUFFICES ASSUME ~fHandle, Next PROVE UNCHANGED busVars
    BY <1>1
  <2>1. calls = {} /\ granted = {}
    BY <1>1 DEF WrappersInv
  <2>2. ~SetResponseTimeout /\ ~Cancel /\ \A m : ~Call(m) /\ ~Ask(m)
    BY <2>1 DEF Call, Ask, SetResponseTimeout, Cancel, RequireHandle
  <2>3. CASE Unregister
    BY <1>1, <2>1, <2>3 DEF Unregister, busVars, WrappersInv, TypeOK
  <2>4. CASE RunScript \/ ConvertString \/ ConvertToken \/ ConvertInt \/ ConvertMessage
    BY <2>4 DEF RunScript, ConvertString, ConvertToken, ConvertInt, ConvertMessage
  <2>5. ASSUME NEW m, NEW t, Invoke(m, t) PROVE UNCHANGED busVars
    BY <2>5 DEF Invoke
  <2>6. ASSUME NEW m, Throws(m) PROVE UNCHANGED busVars
    BY <2>6 DEF Throws
  <2>. QED
    BY <2>1, <2>2, <2>3, <2>4, <2>5, <2>6 DEF Next
<1>. QED
  BY <1>1, WrappersInvariant, PTL DEF Spec, NothingAfterUnregister

=============================================================================
