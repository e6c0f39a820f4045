------------------------------- MODULE AppId --------------------------------
(***************************************************************************)
(* Application ids (node_ls2_handle.cpp): setAppId stores, once and for    *)
(* all handles of the process, the id of the service installed in a        *)
(* directory; the constructor of a handle looks for the service it is      *)
(* created by, from the directories of the scripts on its stack, innermost *)
(* first, and registers with its id.                                       *)
(*                                                                         *)
(* A path matches a directory when it is a substring of it; names are not  *)
(* spelled out and Contains says which do.  The stored pairs are searched  *)
(* in the order of an unordered map, that is, in any order.                *)
(***************************************************************************)
EXTENDS Naturals, Sequences

CONSTANTS
  AppIds,      \* application ids, also the name of the bootstrap service
  JsServer,    \* "com.webos.service.jsserver", one of them
  Paths,       \* service paths, as given to setAppId
  Home,        \* Home[d]: the path of the service the scripts in directory d belong to
  Contains,    \* the pairs <<d, p>> of a directory and a path that is a substring of it
  Stacks,      \* the script directories on the stack of a constructor call
  MaxFrames,   \* how many frames of the stack findMyAppId looks at: 50 in the code
  Empty,       \* the empty string, no id and no path
  Null         \* what null, undefined and a toString() that throws are converted to

Directories == DOMAIN Home

ASSUME AppIdAssumption ==
  /\ JsServer \in AppIds
  /\ Empty \notin AppIds \cup Paths
  /\ Null \notin AppIds \cup Paths \cup {Empty}
  /\ Home \in [Directories -> Paths]
  /\ Contains \subseteq Directories \X Paths
  /\ \A d \in Directories : <<d, Home[d]>> \in Contains
  /\ Stacks \subseteq Seq(Directories) \ {<< >>}
  /\ MaxFrames \in Nat \ {0}

VARIABLES
  fRegisteredServices,  \* per path, the id set for it, or Empty
  registered            \* the handles: their stack and the id they registered with

vars == <<fRegisteredServices, registered>>

Init ==
  /\ fRegisteredServices = [p \in Paths |-> Empty]
  /\ registered = {}

-----------------------------------------------------------------------------

\* What setAppId takes for a string: the id, the path and, converted from the same
\* argument as the id but on its own, the name that decides whether the caller has to
\* be a trusted script.  An object may be converted to a string of its choice each time.
Converted(S) == S \cup {Empty, Null}

\* setAppId(appId, servicePath) throws, and changes nothing: a script from outside
\* the service directories (waived for the name of the bootstrap service, and for
\* none), an argument that is empty or no string, or a path that has another id.
Refused_NeverForOtherId(trusted, name, appId, path) ==
  \/ name \notin {JsServer, Null} /\ ~trusted
  \/ {appId, path} \cap {Empty, Null} # {}
Refused(trusted, name, appId, path) ==
  \/ name \notin {JsServer, Null} /\ ~trusted
  \/ {appId, path} \cap {Empty, Null} # {}
  \/ fRegisteredServices[path] \notin {Empty, appId}

SetAppId(trusted, name, appId, path) ==
  /\ ~Refused(trusted, name, appId, path)
  /\ fRegisteredServices' = [fRegisteredServices EXCEPT ![path] = appId]
  /\ UNCHANGED registered

\* The ids findMyAppId may find in the frame of a directory.
Found(d) == {fRegisteredServices[p] : p \in {q \in Paths : <<d, q>> \in Contains}} \ {Empty}

\* CurrentStackTrace: the innermost frames of the constructor call.
StackTrace(stack) == {i \in DOMAIN stack : i <= MaxFrames}

\* findMyAppId: the first of these frames in which something is found decides.
FindMyAppId_AnyFrame(stack) == UNION {Found(stack[i]) : i \in StackTrace(stack)}
FindMyAppId(stack) ==
  UNION {Found(stack[i]) :
         i \in {j \in StackTrace(stack) : \A k \in 1..(j - 1) : Found(stack[k]) = {}}}

\* New: the constructor of a handle throws when nothing is found.
NewHandle(stack) ==
  /\ \E id \in FindMyAppId(stack) :
       registered' = registered \cup {[stack |-> stack, id |-> id]}
  /\ UNCHANGED fRegisteredServices

\* New of the bootstrap service
NewJsServer(stack) ==
  /\ registered' = registered \cup {[stack |-> stack, id |-> JsServer]}
  /\ UNCHANGED fRegisteredServices

Next ==
  \/ \E trusted \in BOOLEAN, name, appId \in Converted(AppIds), path \in Converted(Paths) :
       SetAppId(trusted, name, appId, path)
  \/ \E stack \in Stacks : NewHandle(stack) \/ NewJsServer(stack)

Spec == Init /\ [][Next]_vars

-----------------------------------------------------------------------------

TypeOK ==
  /\ fRegisteredServices \in [Paths -> AppIds \cup {Empty}]
  /\ registered \in SUBSET [stack : Stacks, id : AppIds]

\* Also when the paths of services overlap, the id of a handle is and remains that
\* of a path which is a substring of the directory of a script among the innermost
\* frames: of all the services ever set, no other can lend its id to the handle.
IdOfContainingService ==
  \A r \in registered :
    r.id = JsServer \/
      \E i \in DOMAIN r.stack, p \in Paths :
        /\ i <= MaxFrames
        /\ <<r.stack[i], p>> \in Contains
        /\ r.id = fRegisteredServices[p]

\* A handle is created by the innermost of the searched scripts that belongs to any
\* service with an id: it does not get the id of a caller further out, whose paths
\* findMyAppId would meet as well.  Which of several paths in the directory of that
\* script lends its id, this leaves open.
IdOfFirstFound ==
  [][\A r \in registered' \ registered :
       r.id # JsServer =>
         \E i \in DOMAIN r.stack :
           /\ i <= MaxFrames
           /\ \E p \in Paths :
                <<r.stack[i], p>> \in Contains /\ r.id = fRegisteredServices[p]
           /\ \A k \in 1..(i - 1), p \in Paths :
                <<r.stack[k], p>> \in Contains => fRegisteredServices[p] = Empty]_vars

\* README.md:139-141, a service registers with the "application ID set using setAppId"
\* in its bootstrap code: when the service that creates a handle has an id, the handle
\* gets that id.
IdOfInnermostService ==
  [][\A r \in registered' \ registered :
       r.id # JsServer /\ fRegisteredServices[Home[Head(r.stack)]] # Empty
         => r.id = fRegisteredServices[Home[Head(r.stack)]]]_vars

=============================================================================
