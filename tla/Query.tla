--------------------------------- MODULE Query ---------------------------------
(***************************************************************************)
(* POST /query and GET /tree: how the keys of a body become a chain of     *)
(* specifiers, how the chain is resolved against a screen that changes all *)
(* the while, and what the test case makes of the failures XCTest reports  *)
(* when it looks at the screen.                                            *)
(*                                                                         *)
(* An XCUIElementQuery is not a set of elements but a recipe: a function   *)
(* from what is on the screen to the elements selected.  Specifiers extend *)
(* the recipe and look at nothing.  The elements are then counted in one   *)
(* look, and each of them is looked up again, by its position, when its    *)
(* snapshot is taken.                                                      *)
(***************************************************************************)
EXTENDS Integers, FiniteSets, Sequences

CONSTANTS Element,     \* what the application may show
          NoElement,   \* the snapshot of an element that is not there
          Place,       \* the place of each element in the hierarchy, depth first
          Ancestors,   \* the elements each element is inside of
          Bodies,      \* the bodies clients send: sets of specifiers
          MaxFailures  \* bound: failures that are registered

FilterNames == {"marked", "id", "text", "text_like", "type", "property", "property_like"}

supportedSpecifierNames ==
    FilterNames \cup {"descendant_element", "index", "coordinate", "coordinates"}

(* A key of a body and its value: whether it can be understood, the elements *)
(* it matches, for descendant_element the parents, for index the index.      *)
Specifier == [name : supportedSpecifierNames \cup {"query", "unsupported"},
              valid : BOOLEAN, matches : SUBSET Element, parents : SUBSET Element,
              index : Nat]

ASSUME QueryAssumption ==
    /\ IsFiniteSet(Element) /\ NoElement \notin Element
    /\ Place \in [Element -> Nat]
    /\ \A d, e \in Element : Place[d] = Place[e] => d = e
    /\ Ancestors \in [Element -> SUBSET Element]
    /\ \A e \in Element : \A a \in Ancestors[e] : Ancestors[a] \subseteq Ancestors[e]
    /\ \A body \in Bodies : /\ body \subseteq Specifier
                            /\ \A s, t \in body : s.name = t.name => s = t
    /\ MaxFailures \in Nat

(* A screen shows no element without what it is inside of. *)
Screen == {s \in SUBSET Element : \A e \in s : Ancestors[e] \subseteq s}

VARIABLES
    screen,
    currentApplication, \* whether there is one
    didRegisterAXTestFailure,
    pc,        \* the next step of the handler
    route,     \* the route of the request, or of the last one
    body,      \* its body
    selectors, \* the specifiers that are still to be applied
    query,     \* the recipe so far
    count,     \* the number of foundElements
    results,   \* the elements whose snapshots have been taken
    reply,     \* what the last request was answered
    \* What has happened since the request came:
    appeared, vanished, \* something has, on the screen
    failed,             \* a look has failed and was taken for an empty one
    \* What has happened since the server started:
    failures,  \* failures that were registered
    alarms     \* deadlock exceptions

interception == <<didRegisterAXTestFailure, failures, alarms>>
handler == <<route, body, selectors, query, count, results, reply>>
history == <<appeared, vanished, failed>>
vars == <<screen, currentApplication, interception, pc, handler, history>>

(* How many elements of a set come before e, and the element at an index:    *)
(* elementBoundByIndex.                                                      *)
Rank(e, set) == Cardinality({d \in set : Place[d] < Place[e]})
BoundByIndex(set, i) == {e \in set : Rank(e, set) = i}

Everything == [s \in Screen |-> s]

Init ==
    /\ screen \in Screen
    /\ currentApplication = FALSE
    /\ didRegisterAXTestFailure = FALSE
    /\ pc = "idle"
    /\ route = "none"
    /\ body = {}
    /\ selectors = {}
    /\ query = Everything
    /\ count = 0
    /\ results = <<>>
    /\ reply = "none"
    /\ appeared = FALSE
    /\ vanished = FALSE
    /\ failed = FALSE
    /\ failures = 0
    /\ alarms = 0

-------------------------------------------------------------------------------
(* The application under test.                                             *)

appear(e) ==
    /\ e \notin screen
    /\ Ancestors[e] \subseteq screen
    /\ screen' = screen \cup {e}
    /\ appeared' = TRUE
    /\ UNCHANGED <<currentApplication, interception, pc, handler, vanished, failed>>

(* An element goes, with all that is inside of it. *)
vanish(e) ==
    /\ e \in screen
    /\ screen' = {d \in screen : d # e /\ e \notin Ancestors[d]}
    /\ vanished' = TRUE
    /\ UNCHANGED <<currentApplication, interception, pc, handler, appeared, failed>>

-------------------------------------------------------------------------------
(* The test case is told of every failure of XCTest and lets it pass, except *)
(* that a snapshot that cannot be refreshed after an earlier failure means a *)
(* deadlocked application.                                                   *)

(* Fault: the flag is not reset. *)
RaisesAgain(isPossibleDeadlock, raised) ==
    \/ /\ ~isPossibleDeadlock /\ ~raised
       /\ failures < MaxFailures
       /\ didRegisterAXTestFailure' = TRUE
       /\ failures' = failures + 1
       /\ UNCHANGED alarms
    \/ /\ isPossibleDeadlock
       /\ raised = didRegisterAXTestFailure
       /\ alarms' = IF raised THEN alarms + 1 ELSE alarms
       /\ UNCHANGED <<didRegisterAXTestFailure, failures>>

enqueueFailure(isPossibleDeadlock, raised) ==
    \/ /\ ~isPossibleDeadlock /\ ~raised
       /\ failures < MaxFailures
       /\ didRegisterAXTestFailure' = TRUE
       /\ failures' = failures + 1
       /\ UNCHANGED alarms
    \/ /\ isPossibleDeadlock
       /\ raised = didRegisterAXTestFailure
       /\ didRegisterAXTestFailure' = FALSE
       /\ alarms' = IF raised THEN alarms + 1 ELSE alarms
       /\ UNCHANGED failures

(* A failure of a look that goes on all the same, or of another handler or   *)
(* one of the looks for alerts, who may catch the exception.                 *)
registerFailure ==
    /\ pc \in {"idle", "alerts", "resolve", "bind", "snapshot", "tree"}
    /\ \/ enqueueFailure(FALSE, FALSE)
       \/ pc \in {"idle", "alerts"} /\ \E raised \in BOOLEAN : enqueueFailure(TRUE, raised)
    /\ UNCHANGED <<screen, currentApplication, pc, handler, history>>

answer(r) ==
    /\ reply' = r
    /\ pc' = "idle"

(* A look at the screen, of a handler that goes on at step next: it works;   *)
(* it fails and is taken for one that found nothing; or it raises.           *)
works(next) ==
    /\ pc' = next
    /\ UNCHANGED <<reply, interception, failed>>

missed ==
    /\ failed' = TRUE
    /\ \E isPossibleDeadlock \in BOOLEAN : enqueueFailure(isPossibleDeadlock, FALSE)

findsNothing(next) ==
    /\ pc' = next
    /\ UNCHANGED reply
    /\ missed

raises ==
    /\ answer("500")
    /\ UNCHANGED failed
    /\ enqueueFailure(TRUE, TRUE)

-------------------------------------------------------------------------------
(* The handlers.                                                           *)

postSession ==
    /\ pc = "idle"
    /\ currentApplication' = TRUE
    /\ UNCHANGED <<screen, interception, pc, handler, history>>

(* A request comes. *)
receive(path, json) ==
    /\ pc = "idle"
    /\ pc' = "alerts"
    /\ route' = path
    /\ body' = json
    /\ selectors' = {}
    /\ query' = Everything
    /\ count' = 0
    /\ results' = <<>>
    /\ reply' = "none"
    /\ appeared' = FALSE
    /\ vanished' = FALSE
    /\ failed' = FALSE
    /\ UNCHANGED <<screen, currentApplication, interception>>

(* Module SpringBoard tells when alerts block a request. *)
handleAlertsOrThrow ==
    /\ pc = "alerts"
    /\ \/ answer("error") /\ UNCHANGED <<interception, failed>>
       \/ works(IF route = "tree" THEN "tree" ELSE "configure")
       \/ raises
    /\ UNCHANGED <<screen, currentApplication, route, body, selectors, query, count,
                   results, appeared, vanished>>

(* The snapshot of the whole application, or of nil if there is none. *)
tree ==
    /\ pc = "tree"
    /\ \/ /\ answer("tree")
          /\ \/ UNCHANGED <<interception, failed>>
             \/ missed
       \/ raises
    /\ UNCHANGED <<screen, currentApplication, route, body, selectors, query, count,
                   results, appeared, vanished>>

Named(specifiers) == {s.name : s \in specifiers}

(* A query string is taken out of the body, unread. *)
Specifiers(json) == {s \in json : s.name # "query"}

(* The body is one the configuration accepts: the validator knows its keys,  *)
(* and a configuration with coordinates can read them and has only one kind. *)
Acceptable(json) ==
    /\ Named(Specifiers(json)) \subseteq supportedSpecifierNames
    /\ ~({"coordinate", "coordinates"} \subseteq Named(json))
    /\ \A s \in json : s.name \in {"coordinate", "coordinates"} => s.valid

(* The configuration is made, and execute makes its first checks. *)
configWithJSON ==
    /\ pc = "configure"
    /\ \/ /\ Acceptable(body) /\ Specifiers(body) # {} /\ currentApplication
          /\ selectors' = Specifiers(body)
          /\ pc' = "resolve"
          /\ UNCHANGED reply
       \/ /\ ~Acceptable(body) \/ Specifiers(body) = {} \/ ~currentApplication
          /\ answer("error")
          /\ UNCHANGED selectors
    /\ UNCHANGED <<screen, currentApplication, interception, route, body, query, count,
                   results, history>>

(* The application is resolved for its own sake. *)
cbxQueryForDescendantsOfAnyType ==
    /\ pc = "resolve"
    /\ \/ works("apply") \/ findsNothing("apply") \/ raises
    /\ UNCHANGED <<screen, currentApplication, route, body, selectors, query, count,
                   results, appeared, vanished>>

(* Fault: all specifiers have the same priority. *)
PriorityForgotten(s) == 0

executionPriority(s) == IF s.name = "index" THEN 999 ELSE 0

(* The specifiers of a dictionary come in any order, then sorted by their    *)
(* priority: any of the least priority may be the next.                      *)
IsNext(s) ==
    \A t \in selectors : executionPriority(s) <= executionPriority(t)

applyInternal(s, from) ==
    [scr \in Screen |->
        CASE s.name = "index" -> BoundByIndex(from[scr], s.index)
          [] s.name = "descendant_element" ->
                {e \in scr : /\ e \in s.matches
                             /\ \E p \in from[scr] : p \in s.parents /\ p \in Ancestors[e]}
          [] OTHER -> {e \in from[scr] : e \in s.matches}]

(* Specifiers by coordinate have no applyInternal; the others raise if they  *)
(* cannot make sense of their value.                                         *)
CanApply(s) == s.name \notin {"coordinate", "coordinates"} /\ s.valid

applyToQuery(s) ==
    /\ pc = "apply"
    /\ IsNext(s)
    /\ selectors' = selectors \ {s}
    /\ \/ ~CanApply(s) /\ answer("error") /\ UNCHANGED query
       \/ /\ CanApply(s)
          /\ query' = applyInternal(s, query)
          /\ pc' = IF selectors' = {} THEN "bind" ELSE "apply"
          /\ UNCHANGED reply
    /\ UNCHANGED <<screen, currentApplication, interception, route, body, count,
                   results, history>>

allElementsBoundByIndex ==
    /\ pc = "bind"
    /\ \/ works("snapshot") /\ count' = Cardinality(query[screen])
       \/ findsNothing("snapshot") /\ count' = 0
       \/ raises /\ UNCHANGED count
    /\ UNCHANGED <<screen, currentApplication, route, body, selectors, query, results,
                   appeared, vanished>>

(* Fault: the positions are counted from the end. *)
SnapshotsBackwards ==
    /\ pc = "snapshot"
    /\ Len(results) < count
    /\ LET there == BoundByIndex(query[screen], (count - 1) - Len(results)) IN
       \/ /\ works("snapshot")
          /\ \E e \in IF there = {} THEN {NoElement} ELSE there :
                results' = Append(results, e)
       \/ findsNothing("snapshot") /\ results' = Append(results, NoElement)
       \/ raises /\ UNCHANGED results
    /\ UNCHANGED <<screen, currentApplication, route, body, selectors, query, count,
                   appeared, vanished>>

(* Fault: one snapshot too many. *)
SnapshotsOnceMore ==
    /\ pc = "snapshot"
    /\ Len(results) <= count
    /\ LET there == BoundByIndex(query[screen], Len(results)) IN
       \/ /\ works("snapshot")
          /\ \E e \in IF there = {} THEN {NoElement} ELSE there :
                results' = Append(results, e)
       \/ findsNothing("snapshot") /\ results' = Append(results, NoElement)
       \/ raises /\ UNCHANGED results
    /\ UNCHANGED <<screen, currentApplication, route, body, selectors, query, count,
                   appeared, vanished>>

(* Fault: positions are counted from one. *)
SnapshotsFromOne ==
    /\ pc = "snapshot"
    /\ Len(results) < count
    /\ LET there == BoundByIndex(query[screen], Len(results) + 1) IN
       \/ /\ works("snapshot")
          /\ \E e \in IF there = {} THEN {NoElement} ELSE there :
                results' = Append(results, e)
       \/ findsNothing("snapshot") /\ results' = Append(results, NoElement)
       \/ raises /\ UNCHANGED results
    /\ UNCHANGED <<screen, currentApplication, route, body, selectors, query, count,
                   appeared, vanished>>

(* Each found element is resolved again, by its position in the query. *)
elementSnapshot ==
    /\ pc = "snapshot"
    /\ Len(results) < count
    /\ LET there == BoundByIndex(query[screen], Len(results)) IN
       \/ /\ works("snapshot")
          /\ \E e \in IF there = {} THEN {NoElement} ELSE there :
                results' = Append(results, e)
       \/ findsNothing("snapshot") /\ results' = Append(results, NoElement)
       \/ raises /\ UNCHANGED results
    /\ UNCHANGED <<screen, currentApplication, route, body, selectors, query, count,
                   appeared, vanished>>

respond ==
    /\ pc = "snapshot"
    /\ Len(results) = count
    /\ answer("results")
    /\ UNCHANGED <<screen, currentApplication, interception, route, body, selectors,
                   query, count, results, history>>

-------------------------------------------------------------------------------
Handler ==
    \/ handleAlertsOrThrow \/ tree \/ configWithJSON \/ cbxQueryForDescendantsOfAnyType
    \/ \E s \in selectors : applyToQuery(s)
    \/ allElementsBoundByIndex \/ elementSnapshot \/ respond

Client == postSession \/ receive("tree", {}) \/ \E json \in Bodies : receive("query", json)

Next == Handler \/ Client \/ registerFailure \/ \E e \in Element : appear(e) \/ vanish(e)

Spec == Init /\ [][Next]_vars

-------------------------------------------------------------------------------
TypeOK ==
    /\ screen \in Screen
    /\ currentApplication \in BOOLEAN
    /\ didRegisterAXTestFailure \in BOOLEAN
    /\ pc \in {"idle", "alerts", "configure", "resolve", "apply", "bind", "snapshot", "tree"}
    /\ route \in {"none", "query", "tree"}
    /\ body \in Bodies \cup {{}}
    /\ selectors \subseteq body
    /\ query \in [Screen -> SUBSET Element]
    /\ count \in 0 .. Cardinality(Element)
    /\ results \in Seq(Element \cup {NoElement})
    /\ Len(results) <= count
    /\ reply \in {"none", "error", "500", "tree", "results"}
    /\ appeared \in BOOLEAN
    /\ vanished \in BOOLEAN
    /\ failed \in BOOLEAN
    /\ failures \in 0 .. MaxFailures
    /\ alarms \in Nat

still == ~appeared /\ ~vanished /\ ~failed

(* What a body asks for, whatever the order of its keys: the elements that   *)
(* match all of it, and of these the one at the index.                       *)
Matching(json, scr) ==
    {e \in scr : \A s \in Specifiers(json) :
        /\ s.name # "index" => e \in s.matches
        /\ s.name = "descendant_element" => Ancestors[e] \cap s.parents # {}}

Selection(json, scr) ==
    {e \in Matching(json, scr) : \A s \in Specifiers(json) :
        s.name = "index" => Rank(e, Matching(json, scr)) = s.index}

Lists(list, set) ==
    /\ Len(list) = Cardinality(set)
    /\ \A e \in set : list[Rank(e, set) + 1] = e

IsExact == Lists(results, Selection(body, screen))

Filters(json) == {s \in Specifiers(json) : s.name \in FilterNames}
HasDescendants(json) == "descendant_element" \in Named(json)

(* A query that is answered while the screen keeps still lists the elements  *)
(* that match all of its keys, in their order, in whatever order a hash      *)
(* table gives the keys: "E.g. index should come last"                       *)
(* (QueryConfiguration.m:48).  A descendant_element among filters is the     *)
(* exception, see AnyOrderSelectsTheSame.                                    *)
QuietQueryIsExact ==
    reply = "results" /\ still /\ (HasDescendants(body) => Filters(body) = {}) => IsExact

(* "The end result is an AND-ed query that matches key1 to "foo" and key2 to *)
(* "bar"" (QuerySpecifier.h:76), and a specifier whose priority is Any may   *)
(* be applied in any order (QuerySpecifier.h:14).                            *)
AnyOrderSelectsTheSame == reply = "results" /\ still => IsExact

(* Although every element is looked up again by its position, a query lists  *)
(* no element twice or out of order, unless something has come up on the     *)
(* screen since the request came: what goes meanwhile moves the positions    *)
(* only towards the elements already listed (Query.m:52-57).                 *)
InOrderUnlessAppeared ==
    ~appeared =>
        \A i, j \in DOMAIN results :
            i < j /\ results[i] # NoElement /\ results[j] # NoElement
                => Place[results[i]] < Place[results[j]]

(* An empty entry is listed only if something has gone since the request     *)
(* came or a look failed (Query.m:55, JSONUtils.m:77).                       *)
NothingUnlessVanished ==
    ~vanished /\ ~failed => \A i \in DOMAIN results : results[i] # NoElement

(* Each deadlock exception takes a failure that was registered before and    *)
(* has not led to one yet, in whichever handler that was: "Reseting to NO to *)
(* enable future deadlock detection" (FBFailureProofTestCase.m:57).          *)
AlarmsArePaid == alarms <= failures
================================================================================
