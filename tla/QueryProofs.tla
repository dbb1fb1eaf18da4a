----------------------------- MODULE QueryProofs -----------------------------
(***************************************************************************)
(* Proofs about Query, for any hierarchy of elements, any bodies and any   *)
(* number of failures.                                                     *)
(***************************************************************************)
EXTENDS Query, FiniteSetTheorems, TLAPS

(* TypeOK in parts. *)
ScreenType == screen \in Screen

FlagTypes ==
    /\ currentApplication \in BOOLEAN /\ didRegisterAXTestFailure \in BOOLEAN
    /\ appeared \in BOOLEAN /\ vanished \in BOOLEAN /\ failed \in BOOLEAN

CounterTypes == failures \in 0 .. MaxFailures /\ alarms \in Nat

RequestTypes ==
    /\ pc \in {"idle", "alerts", "configure", "resolve", "apply", "bind", "snapshot", "tree"}
    /\ route \in {"none", "query", "tree"}
    /\ reply \in {"none", "error", "500", "tree", "results"}
    /\ body \in Bodies \cup {{}}
    /\ selectors \subseteq body

QueryType == query \in [Screen -> SUBSET Element]

ListTypes ==
    /\ count \in 0 .. Cardinality(Element)
    /\ results \in Seq(Element \cup {NoElement})
    /\ Len(results) <= count

(* How far the handler has come with the specifiers and the results. *)
Stages ==
    /\ pc # "idle" => reply = "none"
    /\ pc \notin {"idle", "snapshot"} => results = <<>> /\ count = 0
    /\ pc = "resolve" => query = Everything /\ selectors = Specifiers(body)
    /\ pc \in {"alerts", "configure", "tree"} => query = Everything
    /\ pc \in {"bind", "snapshot"} \/ reply = "results" => selectors = {}
    /\ pc \in {"resolve", "apply"} => selectors # {} /\ selectors \subseteq Specifiers(body)

(* The specifiers that have been applied, each of which made sense. *)
Applied == Specifiers(body) \ selectors
Applying == pc \in {"apply", "bind", "snapshot"} \/ reply = "results"

AppliedCould == Applying => \A s \in Applied : CanApply(s)
Accepted == Applying \/ pc = "resolve" => Acceptable(body)

Unambiguous == HasDescendants(body) => Filters(body) = {}

(* The recipe selects what the specifiers applied so far ask for, and an     *)
(* index is the last of them.                                                *)
IndexIsLast == Applying /\ "index" \in Named(Applied) => selectors = {}
RecipeIsExact ==
    Applying /\ Unambiguous => \A scr \in Screen : query[scr] = Selection(Applied, scr)

(* What more on the screen does to a recipe: it never selects fewer elements,*)
(* and it selects more of them, or it is one element by its index.           *)
Grows(q) ==
    \A s, t \in Screen : s \subseteq t => Cardinality(q[s]) <= Cardinality(q[t])
Monotone(q) == \A s, t \in Screen : s \subseteq t => q[s] \subseteq q[t]
Small(q) == \A s \in Screen : Cardinality(q[s]) <= 1

Shape == /\ Grows(query)
         /\ Monotone(query) \/ (Small(query) /\ selectors = {} /\ count <= 1)

(* As long as nothing appears, the elements up to the i-th result and with it *)
(* are at most i: the next positions are behind them.                         *)
UpTo(p, set) == {d \in set : Place[d] <= p}
ListIsAhead ==
    Monotone(query) /\ ~appeared =>
        \A i \in DOMAIN results : results[i] # NoElement =>
            Cardinality(UpTo(Place[results[i]], query[screen])) <= i

(* As long as nothing goes, there is an element for each position. *)
PositionsAreTaken ==
    pc = "snapshot" /\ ~vanished /\ ~failed => count <= Cardinality(query[screen])

(* As long as nothing changes, each result is the element at its position. *)
ListIsExact ==
    (pc = "snapshot" \/ reply = "results") /\ still =>
        /\ count = Cardinality(query[screen])
        /\ \A i \in DOMAIN results : results[i] \in BoundByIndex(query[screen], i - 1)
        /\ reply = "results" => Len(results) = count

(* A registered failure that has not led to an exception yet is one to spare. *)
AlarmsLag == alarms <= failures /\ (didRegisterAXTestFailure => alarms < failures)

Types == /\ ScreenType /\ FlagTypes /\ CounterTypes
         /\ RequestTypes /\ QueryType /\ ListTypes

Recipe == AppliedCould /\ Accepted /\ IndexIsLast /\ RecipeIsExact

Listing == ListIsAhead /\ InOrderUnlessAppeared /\ PositionsAreTaken
           /\ NothingUnlessVanished /\ ListIsExact

Inv == Types /\ Stages /\ Recipe /\ Shape /\ Listing /\ AlarmsLag

-------------------------------------------------------------------------------
(* Positions in a set of elements.                                           *)

LEMMA Constants ==
    /\ IsFiniteSet(Element) /\ NoElement \notin Element
    /\ Place \in [Element -> Nat]
    /\ \A d, e \in Element : Place[d] = Place[e] => d = e
    /\ Ancestors \in [Element -> SUBSET Element]
    /\ \A e \in Element : \A a \in Ancestors[e] : Ancestors[a] \subseteq Ancestors[e]
    /\ MaxFailures \in Nat
  BY QueryAssumption DEF QueryAssumption

LEMMA SubsetsAreFinite ==
    ASSUME NEW T \in SUBSET Element, NEW S \in SUBSET T
    PROVE  /\ IsFiniteSet(S) /\ Cardinality(S) \in Nat
           /\ IsFiniteSet(T) /\ Cardinality(T) \in Nat
           /\ Cardinality(S) <= Cardinality(T)
           /\ Cardinality(S) = Cardinality(T) => S = T
<1>1. IsFiniteSet(T)
  BY Constants, FS_Subset
<1>2. /\ IsFiniteSet(S) /\ Cardinality(S) <= Cardinality(T)
      /\ Cardinality(S) = Cardinality(T) => S = T
  BY <1>1, FS_Subset
<1> QED
  BY <1>1, <1>2, FS_CardinalityType

LEMMA RankType ==
    ASSUME NEW S \in SUBSET Element, NEW e \in Element PROVE Rank(e, S) \in Nat
<1>1. {d \in S : Place[d] < Place[e]} \in SUBSET S
  OBVIOUS
<1> QED
  BY <1>1, SubsetsAreFinite DEF Rank

LEMMA RankMonotone ==
    ASSUME NEW T \in SUBSET Element, NEW S \in SUBSET T, NEW e \in Element
    PROVE  Rank(e, S) <= Rank(e, T)
<1> DEFINE A == {d \in S : Place[d] < Place[e]}
           B == {d \in T : Place[d] < Place[e]}
<1>1. B \in SUBSET Element /\ A \in SUBSET B
  OBVIOUS
<1> QED
  BY <1>1, SubsetsAreFinite DEF Rank

(* An element is below the number of elements, and each has its own rank. *)
LEMMA RankBelow ==
    ASSUME NEW S \in SUBSET Element, NEW e \in S
    PROVE  Rank(e, S) < Cardinality(S)
<1> DEFINE A == {d \in S : Place[d] < Place[e]}
<1>1. A \in SUBSET S /\ e \notin A /\ A # S
  BY Constants
<1>2. /\ Cardinality(A) <= Cardinality(S) /\ Cardinality(A) # Cardinality(S)
      /\ Cardinality(A) \in Nat /\ Cardinality(S) \in Nat
  BY <1>1, SubsetsAreFinite
<1> HIDE DEF A
<1>3. Cardinality(A) < Cardinality(S)
  BY <1>2
<1> QED
  BY <1>3 DEF Rank, A

LEMMA RankIncreases ==
    ASSUME NEW S \in SUBSET Element, NEW d \in S, NEW e \in S, Place[d] < Place[e]
    PROVE  Rank(d, S) < Rank(e, S)
<1> DEFINE A == {c \in S : Place[c] < Place[d]}
           B == {c \in S : Place[c] < Place[e]}
<1>1. B \in SUBSET Element /\ A \in SUBSET B /\ d \in B /\ d \notin A
  BY Constants
<1>2. /\ Cardinality(A) <= Cardinality(B) /\ Cardinality(A) # Cardinality(B)
      /\ Cardinality(A) \in Nat /\ Cardinality(B) \in Nat
  BY <1>1, SubsetsAreFinite
<1> HIDE DEF A, B
<1>3. Cardinality(A) < Cardinality(B)
  BY <1>2
<1> QED
  BY <1>3 DEF Rank, A, B

LEMMA RankInjective ==
    ASSUME NEW S \in SUBSET Element, NEW d \in S, NEW e \in S, Rank(d, S) = Rank(e, S)
    PROVE  d = e
<1> SUFFICES ASSUME d # e PROVE FALSE
  OBVIOUS
<1>1. Place[d] < Place[e] \/ Place[e] < Place[d]
  BY Constants
<1>2. Rank(d, S) < Rank(e, S) \/ Rank(e, S) < Rank(d, S)
  BY <1>1, RankIncreases
<1>3. Rank(d, S) \in Nat /\ Rank(e, S) \in Nat
  BY RankType
<1> QED
  BY <1>2, <1>3

(* There is an element at each position below their number: the ranks map    *)
(* the elements one to one to as many positions.                             *)
LEMMA PositionHasElement ==
    ASSUME NEW S \in SUBSET Element, NEW i \in Nat, i < Cardinality(S)
    PROVE  BoundByIndex(S, i) # {}
<1> DEFINE n == Cardinality(S)
           f == [e \in S |-> Rank(e, S)]
<1>1. n \in Nat /\ IsFiniteSet(S)
  BY SubsetsAreFinite
<1>2. f \in [S -> 0 .. n - 1]
  <2> SUFFICES ASSUME NEW e \in S PROVE Rank(e, S) \in 0 .. n - 1
    OBVIOUS
  <2>1. Rank(e, S) \in Nat /\ Rank(e, S) < n
    BY RankType, RankBelow
  <2> QED
    BY <1>1, <2>1
<1>3. f \in Injection(S, 0 .. n - 1)
  BY <1>2, RankInjective DEF Injection, IsInjective
<1>4. IsFiniteSet(0 .. n - 1) /\ Cardinality(0 .. n - 1) = n
  <2> HIDE DEF n
  <2>1. /\ IsFiniteSet(0 .. n - 1)
        /\ Cardinality(0 .. n - 1) = IF 0 > n - 1 THEN 0 ELSE (n - 1) - 0 + 1
    BY <1>1, FS_Interval
  <2> QED
    BY <1>1, <2>1
<1>5. f \in Surjection(S, 0 .. n - 1)
  BY <1>3, <1>4, FS_Injection
<1>6. i \in 0 .. n - 1
  BY <1>1
<1>7. PICK e \in S : f[e] = i
  BY <1>5, <1>6 DEF Surjection
<1> QED
  BY <1>7 DEF BoundByIndex

(* And never more than one. *)
LEMMA PositionHasOne ==
    ASSUME NEW S \in SUBSET Element, NEW i \in Nat
    PROVE  Cardinality(BoundByIndex(S, i)) <= 1
<1> DEFINE B == BoundByIndex(S, i)
<1>1. CASE B = {}
  BY <1>1, FS_EmptySet
<1>2. ASSUME NEW e \in B PROVE Cardinality(B) <= 1
  <2>1. B = {e}
    BY <1>2, RankInjective DEF BoundByIndex
  <2>2. Cardinality({e}) = 1
    BY FS_Singleton
  <2> HIDE DEF B
  <2> QED
    BY <2>1, <2>2
<1> QED
  BY <1>1, <1>2

-------------------------------------------------------------------------------
(* Recipes.                                                                  *)

RecipeSet == [Screen -> SUBSET Element]

LEMMA BodyType == ASSUME RequestTypes PROVE body \subseteq Specifier
  BY QueryAssumption DEF QueryAssumption, RequestTypes

LEMMA ScreenIsSet == ASSUME NEW s \in Screen PROVE s \in SUBSET Element
  BY DEF Screen

LEMMA RecipeType ==
    ASSUME NEW from \in RecipeSet, NEW s PROVE applyInternal(s, from) \in RecipeSet
<1> DEFINE q == applyInternal(s, from)
<1>1. ASSUME NEW scr \in Screen PROVE q[scr] \in SUBSET Element
  <2>1. scr \in SUBSET Element /\ from[scr] \in SUBSET Element
    BY ScreenIsSet DEF RecipeSet
  <2>2. CASE s.name = "index"
    <3>1. q[scr] = BoundByIndex(from[scr], s.index)
      BY <2>2 DEF applyInternal
    <3> QED
      BY <2>1, <3>1 DEF BoundByIndex
  <2>3. CASE s.name = "descendant_element"
    <3>1. q[scr] = {e \in scr : /\ e \in s.matches
                                /\ \E p \in from[scr] : p \in s.parents /\ p \in Ancestors[e]}
      BY <2>3 DEF applyInternal
    <3> QED
      BY <2>1, <3>1
  <2>4. CASE s.name # "index" /\ s.name # "descendant_element"
    <3>1. q[scr] = {e \in from[scr] : e \in s.matches}
      BY <2>4 DEF applyInternal
    <3> QED
      BY <2>1, <3>1
  <2> QED
    BY <2>2, <2>3, <2>4
<1>2. q = [scr \in Screen |-> q[scr]]
  BY DEF applyInternal
<1>3. q \in [Screen -> SUBSET Element]
  <2> HIDE DEF q
  <2> QED
    BY <1>1, <1>2
<1> QED
  BY <1>3 DEF RecipeSet

LEMMA MonotoneGrows == ASSUME NEW q \in RecipeSet, Monotone(q) PROVE Grows(q)
<1> SUFFICES ASSUME NEW s \in Screen, NEW t \in Screen, s \subseteq t
             PROVE  Cardinality(q[s]) <= Cardinality(q[t])
  BY DEF Grows
<1>1. q[t] \in SUBSET Element /\ q[s] \in SUBSET q[t]
  BY DEF Monotone, RecipeSet
<1> QED
  BY <1>1, SubsetsAreFinite

LEMMA EverythingIsMonotone == Everything \in RecipeSet /\ Monotone(Everything)
  BY ScreenIsSet DEF Everything, RecipeSet, Monotone

(* A filter, and the descendants of what was selected, keep a recipe         *)
(* monotone.                                                                 *)
LEMMA FilterIsMonotone ==
    ASSUME NEW from \in RecipeSet, Monotone(from), NEW s, s.name # "index"
    PROVE  Monotone(applyInternal(s, from))
<1> SUFFICES ASSUME NEW a \in Screen, NEW b \in Screen, a \subseteq b
             PROVE  applyInternal(s, from)[a] \subseteq applyInternal(s, from)[b]
  BY DEF Monotone
<1>1. from[a] \subseteq from[b]
  BY DEF Monotone
<1>2. CASE s.name = "descendant_element"
  BY <1>1, <1>2 DEF applyInternal
<1>3. CASE s.name # "descendant_element"
  BY <1>1, <1>3 DEF applyInternal
<1> QED
  BY <1>2, <1>3

(* An index selects at most one element, and still one when there are more. *)
LEMMA IndexIsSmall ==
    ASSUME NEW from \in RecipeSet, Monotone(from), NEW s, s.name = "index", s.index \in Nat
    PROVE  Small(applyInternal(s, from)) /\ Grows(applyInternal(s, from))
<1> DEFINE q == applyInternal(s, from)
<1>1. ASSUME NEW a \in Screen
      PROVE  q[a] = BoundByIndex(from[a], s.index) /\ from[a] \in SUBSET Element
  BY DEF applyInternal, RecipeSet
<1>2. ASSUME NEW a \in Screen PROVE Cardinality(q[a]) <= 1
  BY <1>1, PositionHasOne
<1>3. ASSUME NEW a \in Screen, NEW b \in Screen, a \subseteq b
      PROVE  Cardinality(q[a]) <= Cardinality(q[b])
  <2>1. q[a] \in SUBSET Element /\ q[b] \in SUBSET Element
    BY <1>1 DEF BoundByIndex
  <2>2. Cardinality(q[a]) \in Nat /\ Cardinality(q[b]) \in Nat /\ Cardinality(q[a]) <= 1
    BY <1>2, <2>1, SubsetsAreFinite
  <2>3. CASE q[a] = {}
    <3>1. Cardinality(q[a]) = 0
      BY <2>3, FS_EmptySet
    <3> HIDE DEF q
    <3> QED
      BY <2>2, <3>1
  <2>4. ASSUME NEW e \in q[a] PROVE Cardinality(q[a]) <= Cardinality(q[b])
    <3>1. e \in from[a] /\ Rank(e, from[a]) = s.index
      BY <1>1, <2>4 DEF BoundByIndex
    <3>2. s.index < Cardinality(from[a])
      BY <1>1, <3>1, RankBelow
    <3>3. /\ Cardinality(from[a]) <= Cardinality(from[b])
          /\ Cardinality(from[a]) \in Nat /\ Cardinality(from[b]) \in Nat
      <4>1. from[a] \in SUBSET from[b] /\ from[b] \in SUBSET Element
        BY <1>1, <1>3 DEF Monotone
      <4> QED
        BY <4>1, SubsetsAreFinite
    <3>4. s.index < Cardinality(from[b])
      BY <3>2, <3>3
    <3>5. q[b] # {}
      BY <1>1, <3>4, PositionHasElement
    <3>6. Cardinality(q[b]) # 0
      BY <2>1, <3>5, SubsetsAreFinite, FS_EmptySet
    <3> HIDE DEF q
    <3> QED
      BY <2>2, <3>6
  <2> QED
    BY <2>3, <2>4
<1> QED
  BY <1>2, <1>3 DEF Small, Grows

-------------------------------------------------------------------------------
(* Types.                                                                    *)

(* The test case's flag and the counters change with a failure only. *)
LEMMA OnlyFailuresCount ==
    ASSUME [Next]_vars
    PROVE  \/ UNCHANGED interception
           \/ \E isPossibleDeadlock, raised \in BOOLEAN :
                 enqueueFailure(isPossibleDeadlock, raised)
<1> DEFINE Counted == \E isPossibleDeadlock, raised \in BOOLEAN :
                         enqueueFailure(isPossibleDeadlock, raised)
<1>1. ASSUME missed PROVE Counted
  BY <1>1 DEF missed
<1>2. ASSUME raises PROVE Counted
  BY <1>2 DEF raises
<1> HIDE DEF Counted
<1>5. CASE registerFailure
  BY <1>5 DEF registerFailure, Counted
<1>6. CASE handleAlertsOrThrow \/ tree
  <2>1. UNCHANGED interception \/ missed \/ raises
    BY <1>6 DEF handleAlertsOrThrow, tree, works
  <2> QED
    BY <1>1, <1>2, <2>1 DEF Counted
<1>7. CASE cbxQueryForDescendantsOfAnyType \/ allElementsBoundByIndex \/ elementSnapshot
  <2>1. UNCHANGED interception \/ missed \/ raises
    BY <1>7 DEF cbxQueryForDescendantsOfAnyType, allElementsBoundByIndex,
                elementSnapshot, works, findsNothing
  <2> QED
    BY <1>1, <1>2, <2>1 DEF Counted
<1>8. CASE configWithJSON \/ respond \/ postSession
  BY <1>8 DEF configWithJSON, respond, postSession
<1>9. ASSUME NEW s, applyToQuery(s) PROVE UNCHANGED interception
  BY <1>9 DEF applyToQuery
<1>10. ASSUME NEW path, NEW json, receive(path, json) PROVE UNCHANGED interception
  BY <1>10 DEF receive
<1>11. ASSUME NEW e, appear(e) \/ vanish(e) PROVE UNCHANGED interception
  BY <1>11 DEF appear, vanish
<1>12. CASE UNCHANGED vars
  BY <1>12 DEF vars
<1> QED
  BY <1>5, <1>6, <1>7, <1>8, <1>9, <1>10, <1>11, <1>12 DEF Next, Handler, Client, Counted

LEMMA CountersStep ==
    ASSUME Types, AlarmsLag, [Next]_vars
    PROVE  /\ CounterTypes' /\ AlarmsLag'
           /\ didRegisterAXTestFailure' \in BOOLEAN
<1>1. /\ MaxFailures \in Nat /\ failures \in Nat /\ failures <= MaxFailures
      /\ alarms \in Nat /\ alarms <= failures
      /\ didRegisterAXTestFailure => alarms < failures
  BY Constants DEF Types, CounterTypes, AlarmsLag
<1>2. ASSUME failures' \in Nat, failures' <= MaxFailures, alarms' \in Nat, alarms' <= failures',
             didRegisterAXTestFailure' => alarms' < failures',
             didRegisterAXTestFailure' \in BOOLEAN
      PROVE  CounterTypes' /\ AlarmsLag' /\ didRegisterAXTestFailure' \in BOOLEAN
  BY <1>1, <1>2 DEF CounterTypes, AlarmsLag
<1>3. CASE UNCHANGED interception
  <2>1. /\ failures' = failures /\ alarms' = alarms
        /\ didRegisterAXTestFailure' = didRegisterAXTestFailure
    BY <1>3 DEF interception
  <2> QED
    BY <1>1, <1>2, <2>1 DEF Types, FlagTypes
<1>4. ASSUME NEW d \in BOOLEAN, NEW r \in BOOLEAN, enqueueFailure(d, r)
      PROVE  CounterTypes' /\ AlarmsLag' /\ didRegisterAXTestFailure' \in BOOLEAN
  <2>1. CASE /\ failures' = failures + 1 /\ alarms' = alarms /\ failures < MaxFailures
             /\ didRegisterAXTestFailure' = TRUE
    BY <1>1, <1>2, <2>1
  <2>2. CASE /\ failures' = failures /\ alarms' = alarms
             /\ didRegisterAXTestFailure' = FALSE
    BY <1>1, <1>2, <2>2
  <2>3. CASE /\ failures' = failures /\ alarms' = alarms + 1 /\ didRegisterAXTestFailure
             /\ didRegisterAXTestFailure' = FALSE
    <3>1. alarms < failures
      BY <1>1, <2>3, Zenon
    <3>2. alarms + 1 \in Nat /\ alarms + 1 <= failures
      BY <1>1, <3>1
    <3> QED
      BY <1>1, <1>2, <2>3, <3>2
  <2> QED
    BY <1>4, <2>1, <2>2, <2>3, Zenon DEF enqueueFailure
<1> QED
  BY <1>3, <1>4, OnlyFailuresCount

(* The steps that look at the screen keep it, and the recipe. *)
LEMMA FlagsStep == ASSUME Types, [Next]_vars
                   PROVE  /\ currentApplication' \in BOOLEAN /\ appeared' \in BOOLEAN
                          /\ vanished' \in BOOLEAN /\ failed' \in BOOLEAN
<1> USE DEF Types, FlagTypes
<1>1. CASE registerFailure
  BY <1>1 DEF registerFailure, history
<1>2. CASE handleAlertsOrThrow \/ tree
  BY <1>2 DEF handleAlertsOrThrow, tree, works, missed, raises
<1>3. CASE cbxQueryForDescendantsOfAnyType \/ allElementsBoundByIndex \/ elementSnapshot
  BY <1>3 DEF cbxQueryForDescendantsOfAnyType, allElementsBoundByIndex, elementSnapshot,
              works, findsNothing, missed, raises
<1>4. CASE configWithJSON \/ respond \/ postSession
  BY <1>4 DEF configWithJSON, respond, postSession, history
<1>5. ASSUME NEW s, applyToQuery(s)
      PROVE  UNCHANGED <<currentApplication, appeared, vanished, failed>>
  BY <1>5 DEF applyToQuery, history
<1>6. ASSUME NEW path, NEW json, receive(path, json)
      PROVE  /\ currentApplication' = currentApplication
             /\ appeared' = FALSE /\ vanished' = FALSE /\ failed' = FALSE
  BY <1>6 DEF receive
<1>7. ASSUME NEW e, appear(e) \/ vanish(e)
      PROVE  /\ currentApplication' = currentApplication /\ failed' = failed
             /\ appeared' \in {appeared, TRUE} /\ vanished' \in {vanished, TRUE}
  BY <1>7 DEF appear, vanish
<1>8. CASE UNCHANGED vars
  BY <1>8 DEF vars, history
<1> QED
  BY <1>1, <1>2, <1>3, <1>4, <1>5, <1>6, <1>7, <1>8 DEF Next, Handler, Client

LEMMA ScreenStep == ASSUME Types, [Next]_vars PROVE ScreenType'
<1> USE DEF Types, ScreenType
<1>1. ASSUME NEW e \in Element, appear(e) PROVE ScreenType'
  BY <1>1 DEF appear, Screen
<1>2. ASSUME NEW e \in Element, vanish(e) PROVE ScreenType'
  BY <1>2, Constants DEF vanish, Screen
<1>3. CASE Handler \/ Client \/ registerFailure
  <2>1. screen' = screen
    BY <1>3 DEF Handler, Client, registerFailure, handleAlertsOrThrow, tree, configWithJSON,
       cbxQueryForDescendantsOfAnyType, applyToQuery, allElementsBoundByIndex,
       elementSnapshot, respond, postSession, receive
  <2> QED
    BY <2>1
<1>4. CASE UNCHANGED vars
  BY <1>4 DEF vars
<1> QED
  BY <1>1, <1>2, <1>3, <1>4 DEF Next

(* A look keeps the request; it ends the request or leaves the reply open. *)
LEMMA RequestStep == ASSUME Types, Stages, [Next]_vars PROVE RequestTypes' /\ Stages'
<1> USE DEF Types, RequestTypes, Stages
<1>1. CASE registerFailure
  BY <1>1 DEF registerFailure, handler
<1>2. CASE handleAlertsOrThrow
  BY <1>2 DEF handleAlertsOrThrow, works, raises, answer
<1>3. CASE tree
  BY <1>3 DEF tree, raises, answer
<1>4. CASE cbxQueryForDescendantsOfAnyType
  BY <1>4 DEF cbxQueryForDescendantsOfAnyType, works, findsNothing, raises, answer
<1>5. CASE allElementsBoundByIndex
  BY <1>5 DEF allElementsBoundByIndex, works, findsNothing, raises, answer
<1>6. CASE elementSnapshot
  <2>1. /\ pc = "snapshot" /\ pc' \in {"snapshot", "idle"}
        /\ reply' \in {reply, "500"} /\ UNCHANGED <<route, body, selectors, query>>
        /\ pc' = "snapshot" => reply' = reply
    BY <1>6 DEF elementSnapshot, works, findsNothing, raises, answer
  <2> QED
    BY <2>1
<1>7. CASE configWithJSON
  <2>1. Specifiers(body) \subseteq body
    BY DEF Specifiers
  <2> QED
    BY <1>7, <2>1 DEF configWithJSON, answer
<1>8. CASE respond
  BY <1>8 DEF respond, answer
<1>9. CASE postSession
  BY <1>9 DEF postSession, handler
<1>10. ASSUME NEW s \in selectors, applyToQuery(s) PROVE RequestTypes' /\ Stages'
  BY <1>10 DEF applyToQuery, answer
<1>11. ASSUME NEW path \in {"tree", "query"}, NEW json \in Bodies \cup {{}}, receive(path, json)
       PROVE  RequestTypes' /\ Stages'
  BY <1>11 DEF receive
<1>12. ASSUME NEW e, appear(e) \/ vanish(e) PROVE RequestTypes' /\ Stages'
  BY <1>12 DEF appear, vanish, handler
<1>13. CASE UNCHANGED vars
  BY <1>13 DEF vars, handler
<1> QED
  BY <1>1, <1>2, <1>3, <1>4, <1>5, <1>6, <1>7, <1>8, <1>9, <1>10, <1>11, <1>12, <1>13
  DEF Next, Handler, Client

(* The recipe changes when a request comes and when a specifier is applied. *)
LEMMA RecipeChanges ==
    ASSUME [Next]_vars
    PROVE  \/ UNCHANGED query
           \/ query' = Everything
           \/ \E s \in selectors : applyToQuery(s) /\ query' = applyInternal(s, query)
<1>1. CASE UNCHANGED query
  BY <1>1
<1>2. ASSUME NEW path, NEW json, receive(path, json) PROVE query' = Everything
  BY <1>2 DEF receive
<1>3. ASSUME NEW s \in selectors, applyToQuery(s)
      PROVE  UNCHANGED query \/ query' = applyInternal(s, query)
  BY <1>3 DEF applyToQuery
<1>4. CASE registerFailure \/ postSession \/ UNCHANGED vars
  BY <1>4 DEF registerFailure, postSession, handler, vars
<1>5. ASSUME NEW e, appear(e) \/ vanish(e) PROVE UNCHANGED query
  BY <1>5 DEF appear, vanish, handler
<1>6. CASE \/ handleAlertsOrThrow \/ tree \/ configWithJSON \/ cbxQueryForDescendantsOfAnyType
           \/ allElementsBoundByIndex \/ elementSnapshot \/ respond
  BY <1>6 DEF handleAlertsOrThrow, tree, configWithJSON, cbxQueryForDescendantsOfAnyType,
              allElementsBoundByIndex, elementSnapshot, respond
<1> QED
  BY <1>1, <1>2, <1>3, <1>4, <1>5, <1>6 DEF Next, Handler, Client

LEMMA QueryStep == ASSUME Types, [Next]_vars PROVE QueryType'
<1>1. query \in RecipeSet
  BY DEF Types, QueryType, RecipeSet
<1>2. query' \in RecipeSet
  BY <1>1, RecipeChanges, RecipeType, EverythingIsMonotone
<1> QED
  BY <1>2 DEF QueryType, RecipeSet

(* What a snapshot adds to the list. *)
Adds(e) ==
    /\ pc = "snapshot" /\ Len(results) < count
    /\ results' = Append(results, e)
    /\ UNCHANGED <<screen, selectors, body, query, count, reply, appeared, vanished>>
    /\ \/ e \in BoundByIndex(query[screen], Len(results)) /\ UNCHANGED failed
       \/ /\ e = NoElement
          /\ \/ failed' = TRUE
             \/ UNCHANGED failed /\ BoundByIndex(query[screen], Len(results)) = {}

LEMMA SnapshotAdds ==
    ASSUME elementSnapshot PROVE UNCHANGED results \/ \E e : Adds(e)
<1> DEFINE there == BoundByIndex(query[screen], Len(results))
           kept == <<screen, selectors, body, query, count, appeared, vanished>>
<1>1. /\ pc = "snapshot" /\ Len(results) < count
      /\ UNCHANGED kept
  BY DEF elementSnapshot
<1>2. \/ /\ works("snapshot")
         /\ \E e \in IF there = {} THEN {NoElement} ELSE there : results' = Append(results, e)
      \/ findsNothing("snapshot") /\ results' = Append(results, NoElement)
      \/ UNCHANGED results
  BY DEF elementSnapshot
<1> HIDE DEF there
<1>3. CASE findsNothing("snapshot") /\ results' = Append(results, NoElement)
  <2>1. failed' = TRUE /\ UNCHANGED reply
    BY <1>3 DEF findsNothing, missed
  <2> QED
    BY <1>1, <1>3, <2>1 DEF Adds, there
<1>4. ASSUME works("snapshot"),
             NEW e \in IF there = {} THEN {NoElement} ELSE there,
             results' = Append(results, e)
      PROVE  Adds(e)
  <2>1. UNCHANGED failed /\ UNCHANGED reply
    BY <1>4 DEF works
  <2>2. \/ e \in there
        \/ e = NoElement /\ there = {}
    BY <1>4
  <2> QED
    BY <1>1, <1>4, <2>1, <2>2 DEF Adds, there
<1> QED
  BY <1>2, <1>3, <1>4

(* The list and its length change in three ways. *)
LEMMA ListChanges ==
    ASSUME [Next]_vars
    PROVE  \/ UNCHANGED <<count, results>>
           \/ count' = 0 /\ results' = <<>> /\ pc' = "alerts"
           \/ allElementsBoundByIndex
           \/ \E e : Adds(e)
<1>1. ASSUME NEW path, NEW json, receive(path, json)
      PROVE  count' = 0 /\ results' = <<>> /\ pc' = "alerts"
  BY <1>1 DEF receive
<1>2. ASSUME NEW s, applyToQuery(s) PROVE UNCHANGED <<count, results>>
  BY <1>2 DEF applyToQuery
<1>3. CASE registerFailure \/ postSession \/ UNCHANGED vars
  BY <1>3 DEF registerFailure, postSession, handler, vars
<1>4. ASSUME NEW e, appear(e) \/ vanish(e) PROVE UNCHANGED <<count, results>>
  BY <1>4 DEF appear, vanish, handler
<1>5. CASE \/ handleAlertsOrThrow \/ tree \/ configWithJSON
           \/ cbxQueryForDescendantsOfAnyType \/ respond
  BY <1>5 DEF handleAlertsOrThrow, tree, configWithJSON, cbxQueryForDescendantsOfAnyType,
              respond
<1>6. CASE elementSnapshot
  <2>1. UNCHANGED count
    BY <1>6 DEF elementSnapshot
  <2> QED
    BY <1>6, <2>1, SnapshotAdds
<1> QED
  BY <1>1, <1>2, <1>3, <1>4, <1>5, <1>6 DEF Next, Handler, Client

(* The count is of a set of elements, or of none. *)
LEMMA BindStep ==
    ASSUME Types, Stages, allElementsBoundByIndex
    PROVE  /\ results = <<>> /\ results' = <<>> /\ reply' # "results"
           /\ \/ count' = Cardinality(query[screen]) /\ UNCHANGED failed
              \/ count' = 0 /\ failed' = TRUE
              \/ count' = count /\ pc' = "idle" /\ reply' = "500"
           /\ UNCHANGED <<screen, selectors, body, query, appeared, vanished>>
  BY DEF Types, Stages, allElementsBoundByIndex, works, findsNothing, missed, raises, answer

LEMMA SelectedIsSet ==
    ASSUME Types PROVE /\ screen \in Screen /\ query[screen] \in SUBSET Element
                       /\ Cardinality(query[screen]) \in Nat
                       /\ Cardinality(query[screen]) <= Cardinality(Element)
                       /\ Cardinality(Element) \in Nat
<1>1. screen \in Screen /\ query[screen] \in SUBSET Element
  BY DEF Types, ScreenType, QueryType
<1> QED
  BY <1>1, SubsetsAreFinite

LEMMA AppendFacts ==
    ASSUME Types, NEW e, Adds(e)
    PROVE  /\ e \in Element \cup {NoElement}
           /\ results' \in Seq(Element \cup {NoElement})
           /\ Len(results) \in Nat /\ Len(results') = Len(results) + 1
           /\ count \in Nat /\ Len(results') <= count
           /\ results'[Len(results) + 1] = e
           /\ \A i \in 1 .. Len(results) : results'[i] = results[i]
<1>1. results \in Seq(Element \cup {NoElement}) /\ count \in Nat
  BY SelectedIsSet DEF Types, ListTypes
<1>2. e \in Element \cup {NoElement}
  BY SelectedIsSet DEF Adds, BoundByIndex
<1>3. results' = Append(results, e) /\ Len(results) < count
  BY DEF Adds
<1> QED
  BY <1>1, <1>2, <1>3

LEMMA ListStep == ASSUME Types, Stages, [Next]_vars PROVE ListTypes'
<1> USE DEF Types, ListTypes
<1>1. CASE UNCHANGED <<count, results>>
  BY <1>1
<1>2. CASE count' = 0 /\ results' = <<>>
  BY <1>2, SelectedIsSet
<1>3. CASE allElementsBoundByIndex
  <2>1. results' = <<>>
    BY <1>3, BindStep
  <2>2. count' \in {Cardinality(query[screen]), 0, count}
    BY <1>3, BindStep
  <2>3. {Cardinality(query[screen]), 0, count} \subseteq 0 .. Cardinality(Element)
    BY SelectedIsSet
  <2>4. count' \in 0 .. Cardinality(Element)
    BY <2>2, <2>3
  <2> QED
    BY <2>1, <2>4
<1>4. ASSUME NEW e, Adds(e) PROVE ListTypes'
  <2>1. count' = count
    BY <1>4 DEF Adds
  <2> QED
    BY <1>4, <2>1, AppendFacts
<1> QED
  BY <1>1, <1>2, <1>3, <1>4, ListChanges

LEMMA InitInv == Init => Inv
<1> SUFFICES ASSUME Init PROVE Inv
  OBVIOUS
<1> USE DEF Init
<1>1. ScreenType /\ FlagTypes
  BY DEF ScreenType, FlagTypes
<1>9. CounterTypes
  BY Constants DEF CounterTypes
<1>10. RequestTypes
  BY DEF RequestTypes
<1>2. QueryType
  BY EverythingIsMonotone DEF QueryType, RecipeSet
<1>3. ListTypes
  <2>1. Cardinality(Element) \in Nat
    BY Constants, FS_CardinalityType
  <2> QED
    BY <2>1 DEF ListTypes
<1>4. Stages
  BY DEF Stages
<1>5. Recipe
  BY DEF Recipe, AppliedCould, Accepted, IndexIsLast, RecipeIsExact, Applying
<1>6. Shape
  BY EverythingIsMonotone, MonotoneGrows DEF Shape
<1>7. Listing
  BY DEF Listing, ListIsAhead, InOrderUnlessAppeared, PositionsAreTaken,
         NothingUnlessVanished, ListIsExact
<1>8. AlarmsLag
  BY DEF AlarmsLag
<1> QED
  BY <1>1, <1>2, <1>3, <1>4, <1>5, <1>6, <1>7, <1>8, <1>9, <1>10 DEF Inv, Types

LEMMA TypesStep == ASSUME Inv, [Next]_vars PROVE Types' /\ Stages' /\ AlarmsLag'
<1>1. FlagTypes' /\ CounterTypes' /\ AlarmsLag'
  BY FlagsStep, CountersStep DEF Inv, FlagTypes
<1>2. ScreenType' /\ RequestTypes' /\ Stages' /\ QueryType' /\ ListTypes'
  BY ScreenStep, RequestStep, QueryStep, ListStep DEF Inv
<1> QED
  BY <1>1, <1>2 DEF Types

-------------------------------------------------------------------------------
(* The recipe, step by step.                                                 *)

(* What a step other than that of a specifier does to the handler's progress *)
(* and to what the recipe depends on.                                        *)
LEMMA ProgressStep ==
    ASSUME Types, Stages, [Next]_vars
    PROVE  \/ UNCHANGED <<body, selectors, query>> /\ (Applying' => Applying)
              /\ (pc' = "resolve" => pc = "resolve")
           \/ ~Applying' /\ pc' # "resolve"
           \/ pc' = "resolve" /\ reply' = "none" /\ Acceptable(body) /\ UNCHANGED body
              /\ selectors' = Specifiers(body)
           \/ pc = "resolve" /\ pc' = "apply" /\ UNCHANGED <<body, selectors, query>>
           \/ \E s \in selectors : applyToQuery(s) /\ CanApply(s)
<1> USE DEF Types, RequestTypes, Stages, Applying
<1>1. CASE registerFailure
  BY <1>1 DEF registerFailure, handler
<1>2. CASE handleAlertsOrThrow
  BY <1>2 DEF handleAlertsOrThrow, works, raises, answer
<1>3. CASE tree
  BY <1>3 DEF tree, raises, answer
<1>4. CASE cbxQueryForDescendantsOfAnyType
  BY <1>4 DEF cbxQueryForDescendantsOfAnyType, works, findsNothing, raises, answer
<1>5. CASE allElementsBoundByIndex
  BY <1>5 DEF allElementsBoundByIndex, works, findsNothing, raises, answer
<1>6. CASE elementSnapshot
  <2>1. /\ pc = "snapshot" /\ pc' \in {"snapshot", "idle"}
        /\ UNCHANGED <<body, selectors, query>>
    BY <1>6 DEF elementSnapshot, works, findsNothing, raises, answer
  <2> QED
    BY <2>1
<1>7. CASE configWithJSON
  BY <1>7 DEF configWithJSON, answer
<1>8. CASE respond
  BY <1>8 DEF respond, answer
<1>9. CASE postSession
  BY <1>9 DEF postSession, handler
<1>10. ASSUME NEW s \in selectors, applyToQuery(s), ~CanApply(s)
       PROVE  ~Applying' /\ pc' # "resolve"
  BY <1>10 DEF applyToQuery, answer
<1>11. ASSUME NEW path, NEW json, receive(path, json) PROVE ~Applying' /\ pc' # "resolve"
  BY <1>11 DEF receive
<1>12. ASSUME NEW e, appear(e) \/ vanish(e)
       PROVE  UNCHANGED <<body, selectors, query, pc, reply>>
  BY <1>12 DEF appear, vanish, handler
<1>13. CASE UNCHANGED vars
  BY <1>13 DEF vars, handler
<1> QED
  BY <1>1, <1>2, <1>3, <1>4, <1>5, <1>6, <1>7, <1>8, <1>9, <1>10, <1>11, <1>12, <1>13
  DEF Next, Handler, Client

LEMMA NothingIsEverything ==
    \A scr \in Screen : Everything[scr] = Selection({}, scr)
  BY DEF Everything, Selection, Matching, Specifiers

(* What is known when a specifier is applied. *)
LEMMA BeforeApplying ==
    ASSUME Inv, NEW s \in selectors, applyToQuery(s), CanApply(s)
    PROVE  /\ body \subseteq Specifier /\ s \in body /\ s \in Specifiers(body)
           /\ Applied \subseteq body /\ Applied = Specifiers(Applied)
           /\ Applied' = Applied \cup {s} /\ Applied' = Specifiers(Applied')
           /\ \A t \in Applied : t.name # "index" /\ t.name # s.name /\ CanApply(t)
           /\ \A t \in body : t.name = s.name => t = s
           /\ Acceptable(body) /\ Applying
           /\ query' = applyInternal(s, query) /\ selectors' = selectors \ {s}
           /\ UNCHANGED <<body, screen, count, results>>
           /\ pc = "apply"
<1>1. /\ pc = "apply" /\ query' = applyInternal(s, query) /\ selectors' = selectors \ {s}
      /\ UNCHANGED <<body, screen, count, results>>
  BY DEF applyToQuery, CanApply
<1>2. Applying /\ AppliedCould /\ Accepted /\ IndexIsLast
  BY <1>1 DEF Inv, Recipe, Applying
<1>3. RequestTypes /\ selectors \subseteq Specifiers(body) /\ selectors \subseteq body
  BY <1>1 DEF Inv, Types, RequestTypes, Stages
<1>4. body \subseteq Specifier
  BY <1>3, BodyType
<1>5. \A t, u \in body : t.name = u.name => t = u
  BY <1>3, QueryAssumption DEF QueryAssumption, RequestTypes
<1>6. Applied' = Applied \cup {s}
  BY <1>1, <1>3 DEF Applied
<1>7. /\ \A t \in Specifiers(body) : t \in body /\ t.name # "query"
      /\ Applied = Specifiers(Applied) /\ Applied' = Specifiers(Applied')
  BY <1>3, <1>6 DEF Applied, Specifiers
<1>8. \A t \in Applied : t.name # "index"
  BY <1>2 DEF IndexIsLast, Named
<1>9. \A t \in Applied : t.name # s.name
  BY <1>3, <1>5, <1>7 DEF Applied
<1>10. \A t \in Applied : CanApply(t)
  BY <1>2 DEF AppliedCould
<1>11. Acceptable(body)
  BY <1>2 DEF Accepted
<1> QED
  BY <1>1, <1>2, <1>3, <1>4, <1>5, <1>6, <1>7, <1>8, <1>9, <1>10, <1>11 DEF Applied

(* An index is applied last: nothing else has its priority. *)
LEMMA IndexComesLast ==
    ASSUME Inv, NEW s \in selectors, applyToQuery(s), CanApply(s), s.name = "index"
    PROVE  selectors' = {}
<1>1. selectors \subseteq body /\ \A t \in body : t.name = s.name => t = s
  BY BeforeApplying DEF Inv, Types, RequestTypes
<1>2. ASSUME NEW t \in selectors PROVE t = s
  <2>1. executionPriority(s) <= executionPriority(t)
    BY DEF applyToQuery, IsNext
  <2>2. t.name = "index"
    BY <2>1 DEF executionPriority
  <2> QED
    BY <1>1, <2>2
<1> QED
  BY <1>2, BeforeApplying

(* What a recipe selects after one more specifier. *)
LEMMA OneMoreIsExact ==
    ASSUME Inv, NEW s \in selectors, applyToQuery(s), CanApply(s), Unambiguous,
           NEW scr \in Screen
    PROVE  query'[scr] = Selection(Applied \cup {s}, scr)
<1> DEFINE M == Matching(Applied, scr)
           N == Matching(Applied \cup {s}, scr)
<1>1. query[scr] = Selection(Applied, scr)
  BY BeforeApplying DEF Inv, Recipe, RecipeIsExact
<1>2. /\ Applied = Specifiers(Applied) /\ Applied \cup {s} = Specifiers(Applied \cup {s})
      /\ \A t \in Applied : t.name # "index"
      /\ query' = applyInternal(s, query)
  BY BeforeApplying
<1>3. query[scr] = M
  BY <1>1, <1>2, Zenon DEF Selection
<1>4. M = {e \in scr : \A t \in Applied :
              /\ t.name # "index" => e \in t.matches
              /\ t.name = "descendant_element" => Ancestors[e] \cap t.parents # {}}
  BY <1>2, Zenon DEF Matching
<1>5. N = {e \in scr : \A t \in Applied \cup {s} :
              /\ t.name # "index" => e \in t.matches
              /\ t.name = "descendant_element" => Ancestors[e] \cap t.parents # {}}
  BY <1>2, Zenon DEF Matching
<1>6. Selection(Applied \cup {s}, scr) =
        {e \in N : \A t \in Applied \cup {s} : t.name = "index" => Rank(e, N) = t.index}
  BY <1>2, Zenon DEF Selection
<1> HIDE DEF M, N
<1>7. Selection(Applied \cup {s}, scr) = {e \in N : s.name = "index" => Rank(e, N) = s.index}
  BY <1>2, <1>6
<1>8. CASE s.name = "index"
  <2>1. N = M
    BY <1>4, <1>5, <1>8
  <2>2. query'[scr] = BoundByIndex(M, s.index)
    BY <1>2, <1>3, <1>8 DEF applyInternal
  <2> QED
    BY <1>7, <1>8, <2>1, <2>2 DEF BoundByIndex
<1>9. CASE s.name = "descendant_element"
  <2>1. Applied = {}
    <3> SUFFICES ASSUME NEW t \in Applied PROVE FALSE
      OBVIOUS
    <3>1. /\ t \in body /\ t.name # "query" /\ CanApply(t)
          /\ t.name # "index" /\ t.name # "descendant_element"
          /\ s \in body /\ Acceptable(body) /\ t \in Specifiers(body)
      BY <1>9, BeforeApplying DEF Applied, Specifiers
    <3>2. t.name \in supportedSpecifierNames
      BY <3>1 DEF Acceptable, Named
    <3>3. t.name \in FilterNames
      BY <3>1, <3>2 DEF supportedSpecifierNames, CanApply
    <3>4. HasDescendants(body)
      BY <1>9, <3>1 DEF HasDescendants, Named
    <3> QED
      BY <3>1, <3>3, <3>4 DEF Unambiguous, Filters
  <2>2. M = scr
    BY <1>4, <2>1
  <2>3. query'[scr] = {e \in scr : /\ e \in s.matches
                                   /\ \E p \in scr : p \in s.parents /\ p \in Ancestors[e]}
    BY <1>2, <1>3, <1>9, <2>2 DEF applyInternal
  <2>4. N = {e \in scr : e \in s.matches /\ Ancestors[e] \cap s.parents # {}}
    BY <1>5, <1>9, <2>1
  <2>5. \A e \in scr : Ancestors[e] \subseteq scr
    BY DEF Screen
  <2>6. query'[scr] = N
    BY <2>3, <2>4, <2>5
  <2>7. Selection(Applied \cup {s}, scr) = N
    BY <1>7, <1>9
  <2> QED
    BY <2>6, <2>7
<1>10. CASE s.name # "index" /\ s.name # "descendant_element"
  <2>1. N = {e \in M : e \in s.matches}
    BY <1>4, <1>5, <1>10
  <2>2. query'[scr] = {e \in M : e \in s.matches}
    BY <1>2, <1>3, <1>10 DEF applyInternal
  <2>3. Selection(Applied \cup {s}, scr) = N
    BY <1>7, <1>10
  <2> QED
    BY <2>1, <2>2, <2>3
<1> QED
  BY <1>8, <1>9, <1>10

LEMMA ApplyKeepsRecipe ==
    ASSUME Inv, NEW s \in selectors, applyToQuery(s), CanApply(s)
    PROVE  Recipe'
<1>1. /\ Applied' = Applied \cup {s} /\ body' = body
      /\ \A t \in Applied : t.name # "index" /\ CanApply(t)
      /\ Acceptable(body)
  BY BeforeApplying
<1>2. AppliedCould'
  BY <1>1 DEF AppliedCould
<1>3. Accepted'
  BY <1>1 DEF Accepted
<1>4. IndexIsLast'
  BY <1>1, IndexComesLast DEF IndexIsLast, Named
<1>5. RecipeIsExact'
  <2>1. Unambiguous' <=> Unambiguous
    BY <1>1 DEF Unambiguous
  <2> QED
    BY <1>1, <2>1, OneMoreIsExact DEF RecipeIsExact
<1> QED
  BY <1>2, <1>3, <1>4, <1>5 DEF Recipe

LEMMA RecipeStep == ASSUME Inv, [Next]_vars PROVE Recipe'
<1>0. Types /\ Stages /\ Recipe
  BY DEF Inv
<1>1. CASE /\ UNCHANGED <<body, selectors, query>> /\ (Applying' => Applying)
           /\ (pc' = "resolve" => pc = "resolve")
  <2>1. Applied' = Applied /\ (Unambiguous' <=> Unambiguous)
    BY <1>1 DEF Applied, Unambiguous
  <2>2. AppliedCould' /\ Accepted' /\ IndexIsLast'
    BY <1>0, <1>1, <2>1 DEF Recipe, AppliedCould, Accepted, IndexIsLast
  <2>3. RecipeIsExact'
    BY <1>0, <1>1, <2>1 DEF Recipe, RecipeIsExact
  <2> QED
    BY <2>2, <2>3 DEF Recipe
<1>2. CASE ~Applying' /\ pc' # "resolve"
  BY <1>2 DEF Recipe, AppliedCould, Accepted, IndexIsLast, RecipeIsExact
<1>3. CASE /\ pc' = "resolve" /\ reply' = "none" /\ Acceptable(body) /\ UNCHANGED body
           /\ selectors' = Specifiers(body)
  BY <1>3 DEF Recipe, AppliedCould, Accepted, IndexIsLast, RecipeIsExact, Applying
<1>4. CASE pc = "resolve" /\ pc' = "apply" /\ UNCHANGED <<body, selectors, query>>
  <2>1. query' = Everything /\ Applied' = {} /\ Acceptable(body')
    BY <1>0, <1>4 DEF Stages, Applied, Recipe, Accepted
  <2>2. AppliedCould' /\ Accepted' /\ IndexIsLast'
    BY <2>1 DEF AppliedCould, Accepted, IndexIsLast, Named
  <2>3. RecipeIsExact'
    BY <2>1, NothingIsEverything DEF RecipeIsExact
  <2> QED
    BY <2>2, <2>3 DEF Recipe
<1> QED
  BY <1>0, <1>1, <1>2, <1>3, <1>4, ProgressStep, ApplyKeepsRecipe

-------------------------------------------------------------------------------
(* The shape of the recipe, and the list.                                    *)

LEMMA ShapeStep == ASSUME Inv, [Next]_vars PROVE Shape'
<1>1. /\ Types /\ Stages /\ Shape /\ query \in RecipeSet
  BY DEF Inv, Types, QueryType, RecipeSet
<1>2. CASE query' = Everything
  BY <1>2, EverythingIsMonotone, MonotoneGrows DEF Shape
<1>3. CASE UNCHANGED <<query, selectors>> /\ count' <= count
  <2>1. count' <= 1 \/ ~(count <= 1)
    <3>1. count \in Nat /\ count' \in Nat
      BY <1>1, ListStep, SelectedIsSet DEF Types, ListTypes
    <3> QED
      BY <1>3, <3>1
  <2> QED
    BY <1>1, <1>3, <2>1 DEF Shape
<1>4. ASSUME NEW s \in selectors, applyToQuery(s) PROVE Shape'
  <2>1. Monotone(query) /\ Grows(query)
    BY <1>1, <1>4 DEF Shape
  <2>2. CASE UNCHANGED query
    BY <2>1, <2>2 DEF Shape
  <2>3. CASE CanApply(s) /\ s.name = "index"
    <3>1. s.index \in Nat
      BY <1>4, <2>3, BeforeApplying DEF Specifier
    <3>2. query' = applyInternal(s, query) /\ count' = 0
      BY <1>1, <1>4, <2>3, BeforeApplying DEF Stages
    <3>3. Small(query') /\ Grows(query')
      BY <1>1, <2>1, <2>3, <3>1, <3>2, IndexIsSmall
    <3>4. selectors' = {}
      BY <1>4, <2>3, IndexComesLast
    <3>5. count' <= 1
      BY <3>2
    <3> QED
      BY <3>3, <3>4, <3>5 DEF Shape
  <2>4. CASE CanApply(s) /\ s.name # "index"
    <3>1. query' = applyInternal(s, query)
      BY <1>4, <2>4, BeforeApplying
    <3>2. Monotone(query') /\ query' \in RecipeSet
      BY <1>1, <2>1, <2>4, <3>1, FilterIsMonotone, RecipeType
    <3> QED
      BY <3>2, MonotoneGrows DEF Shape
  <2> QED
    BY <1>4, <2>2, <2>3, <2>4 DEF applyToQuery
<1>5. CASE allElementsBoundByIndex
  <2>1. UNCHANGED <<query, selectors>>
    BY <1>1, <1>5, BindStep
  <2>2. CASE Monotone(query)
    BY <1>1, <2>1, <2>2 DEF Shape
  <2>3. CASE Small(query) /\ selectors = {} /\ count <= 1
    <3>1. Cardinality(query[screen]) <= 1
      BY <1>1, <2>3, SelectedIsSet DEF Small
    <3>2. count' \in {Cardinality(query[screen]), 0, count}
      BY <1>1, <1>5, BindStep
    <3>3. count' <= 1
      BY <2>3, <3>1, <3>2
    <3> QED
      BY <1>1, <2>1, <2>3, <3>3 DEF Shape
  <2> QED
    BY <1>1, <2>2, <2>3 DEF Shape
<1>6. CASE configWithJSON
  BY <1>1, <1>2, <1>6 DEF configWithJSON, Stages
<1>7. CASE UNCHANGED <<query, selectors, count>>
  <2>1. count \in Nat
    BY <1>1, SelectedIsSet DEF Types, ListTypes
  <2> QED
    BY <1>3, <1>7, <2>1
<1>8. ASSUME NEW path, NEW json, receive(path, json) PROVE query' = Everything
  BY <1>8 DEF receive
<1>9. CASE registerFailure \/ postSession \/ UNCHANGED vars
  <2>1. UNCHANGED <<query, selectors, count>>
    BY <1>9 DEF registerFailure, postSession, handler, vars
  <2> QED
    BY <1>7, <2>1
<1>10. ASSUME NEW e, appear(e) \/ vanish(e) PROVE UNCHANGED <<query, selectors, count>>
  BY <1>10 DEF appear, vanish, handler
<1>11. CASE \/ handleAlertsOrThrow \/ tree \/ cbxQueryForDescendantsOfAnyType
            \/ elementSnapshot \/ respond
  <2>1. UNCHANGED <<query, selectors, count>>
    BY <1>11 DEF handleAlertsOrThrow, tree, cbxQueryForDescendantsOfAnyType,
                 elementSnapshot, respond
  <2> QED
    BY <1>7, <2>1
<1> QED
  BY <1>2, <1>4, <1>5, <1>6, <1>7, <1>8, <1>9, <1>10, <1>11 DEF Next, Handler, Client

LEMMA UpToIsNext ==
    ASSUME NEW S \in SUBSET Element, NEW e \in S
    PROVE  Cardinality(UpTo(Place[e], S)) = Rank(e, S) + 1
<1> DEFINE A == {d \in S : Place[d] < Place[e]}
<1>1. UpTo(Place[e], S) = A \cup {e}
  BY Constants DEF UpTo
<1>2. A \in SUBSET S /\ e \notin A
  BY Constants
<1>3. IsFiniteSet(A)
  BY <1>2, SubsetsAreFinite
<1>4. Cardinality(A \cup {e}) = Cardinality(A) + 1
  BY <1>2, <1>3, FS_AddElement
<1> QED
  BY <1>1, <1>4 DEF Rank

LEMMA UpToMonotone ==
    ASSUME NEW T \in SUBSET Element, NEW S \in SUBSET T, NEW p \in Nat, NEW q \in Nat, p <= q
    PROVE  /\ Cardinality(UpTo(p, S)) <= Cardinality(UpTo(q, T))
           /\ Cardinality(UpTo(p, S)) \in Nat /\ Cardinality(UpTo(q, T)) \in Nat
<1>1. UpTo(q, T) \in SUBSET Element /\ UpTo(p, S) \in SUBSET UpTo(q, T)
  BY Constants DEF UpTo
<1> QED
  BY <1>1, SubsetsAreFinite

(* The element at the next position is behind the elements of the list. *)
LEMMA NextIsBehind ==
    ASSUME Inv, NEW e, Adds(e), e # NoElement, ~appeared,
           NEW i \in 1 .. Len(results), results[i] # NoElement
    PROVE  Place[results[i]] < Place[e]
<1> DEFINE sel == query[screen]
           d == results[i]
<1>1. Types /\ Shape /\ ListIsAhead
  BY DEF Inv, Listing
<1>2. /\ sel \in SUBSET Element /\ e \in sel /\ e \in Element /\ Rank(e, sel) = Len(results)
      /\ count \in Nat /\ Len(results) < count /\ Len(results) \in Nat
  BY <1>1, SelectedIsSet DEF Adds, BoundByIndex, Types, ListTypes
<1>3. d \in Element /\ i \in DOMAIN results
  BY <1>1 DEF Types, ListTypes
<1>4. Monotone(query)
  <2>1. ~(count <= 1)
    BY <1>2
  <2> QED
    BY <1>1, <2>1 DEF Shape
<1>5. Cardinality(UpTo(Place[d], sel)) <= i
  BY <1>1, <1>3, <1>4 DEF ListIsAhead
<1>6. Cardinality(UpTo(Place[e], sel)) = Len(results) + 1
  BY <1>2, UpToIsNext
<1>7. Place[d] \in Nat /\ Place[e] \in Nat
  BY <1>2, <1>3, Constants
<1>8. ASSUME Place[e] <= Place[d] PROVE FALSE
  <2>1. /\ Cardinality(UpTo(Place[e], sel)) <= Cardinality(UpTo(Place[d], sel))
        /\ Cardinality(UpTo(Place[d], sel)) \in Nat
    BY <1>2, <1>7, <1>8, UpToMonotone
  <2> HIDE DEF sel, d
  <2> QED
    BY <1>2, <1>5, <1>6, <2>1
<1> QED
  BY <1>7, <1>8

(* As long as nothing has gone, there is one. *)
LEMMA NextIsThere ==
    ASSUME Inv, NEW e, Adds(e), ~vanished, ~failed, ~failed'
    PROVE  e \in BoundByIndex(query[screen], Len(results)) /\ e # NoElement
<1>1. Types /\ PositionsAreTaken
  BY DEF Inv, Listing
<1>2. /\ query[screen] \in SUBSET Element /\ Cardinality(query[screen]) \in Nat
      /\ Len(results) \in Nat /\ count \in Nat
  BY <1>1, SelectedIsSet DEF Types, ListTypes
<1>3. Len(results) < count /\ count <= Cardinality(query[screen])
  BY <1>1 DEF Adds, PositionsAreTaken
<1>4. Len(results) < Cardinality(query[screen])
  BY <1>2, <1>3
<1>5. BoundByIndex(query[screen], Len(results)) # {}
  BY <1>2, <1>4, PositionHasElement
<1>6. e \in BoundByIndex(query[screen], Len(results))
  BY <1>5 DEF Adds
<1> QED
  BY <1>2, <1>6, Constants DEF BoundByIndex

LEMMA AddsStep == ASSUME Inv, NEW e, Adds(e) PROVE Listing'
<1> DEFINE n == Len(results)
           sel == query[screen]
<1>1. /\ Types /\ Stages /\ ListIsAhead /\ InOrderUnlessAppeared /\ PositionsAreTaken
      /\ NothingUnlessVanished /\ ListIsExact
  BY DEF Inv, Listing
<1>2. /\ n \in Nat /\ DOMAIN results' = 1 .. n + 1 /\ DOMAIN results = 1 .. n
      /\ results'[n + 1] = e /\ \A i \in 1 .. n : results'[i] = results[i]
      /\ Len(results') = n + 1
  BY <1>1, AppendFacts DEF Types, ListTypes
<1>3. /\ query' = query /\ screen' = screen /\ count' = count /\ reply' = reply
      /\ appeared' = appeared /\ vanished' = vanished /\ pc = "snapshot"
      /\ query'[screen'] = sel /\ reply = "none"
  BY <1>1 DEF Adds, Stages
<1>4. ~failed' => ~failed
  <2>1. failed' = TRUE \/ failed' = failed
    BY DEF Adds
  <2> QED
    BY <2>1
<1>5. e # NoElement => e \in BoundByIndex(sel, n)
  BY DEF Adds
<1> HIDE DEF n
<1>6. ListIsAhead'
  <2> SUFFICES ASSUME Monotone(query), ~appeared, NEW i \in 1 .. n + 1, results'[i] # NoElement
               PROVE  Cardinality(UpTo(Place[results'[i]], sel)) <= i
    BY <1>2, <1>3 DEF ListIsAhead
  <2>1. CASE i \in 1 .. n
    BY <1>1, <1>2, <2>1 DEF ListIsAhead
  <2>2. CASE i = n + 1
    <3>1. e \in sel /\ Rank(e, sel) = n /\ sel \in SUBSET Element
      BY <1>1, <1>2, <1>5, <2>2, SelectedIsSet DEF BoundByIndex
    <3>2. Cardinality(UpTo(Place[e], sel)) = n + 1
      BY <3>1, UpToIsNext
    <3> HIDE DEF sel
    <3> QED
      BY <1>2, <2>2, <3>2
  <2> QED
    BY <1>2, <2>1, <2>2
<1>7. InOrderUnlessAppeared'
  <2> SUFFICES ASSUME ~appeared, NEW i \in 1 .. n + 1, NEW j \in 1 .. n + 1, i < j,
                      results'[i] # NoElement, results'[j] # NoElement
               PROVE  Place[results'[i]] < Place[results'[j]]
    BY <1>2, <1>3 DEF InOrderUnlessAppeared
  <2>1. i \in 1 .. n
    BY <1>2
  <2>2. CASE j \in 1 .. n
    BY <1>1, <1>2, <2>1, <2>2 DEF InOrderUnlessAppeared
  <2>3. CASE j = n + 1
    <3>1. results'[i] = results[i] /\ results'[j] = e
      BY <1>2, <2>1, <2>3
    <3>2. Place[results[i]] < Place[e]
      BY <2>1, <3>1, NextIsBehind DEF n
    <3> QED
      BY <3>1, <3>2
  <2> QED
    BY <1>2, <2>2, <2>3
<1>8. PositionsAreTaken'
  BY <1>1, <1>3, <1>4 DEF PositionsAreTaken
<1>9. NothingUnlessVanished'
  <2> SUFFICES ASSUME ~vanished, ~failed', NEW i \in 1 .. n + 1
               PROVE  results'[i] # NoElement
    BY <1>2, <1>3 DEF NothingUnlessVanished
  <2>1. CASE i \in 1 .. n
    BY <1>1, <1>2, <1>4, <2>1 DEF NothingUnlessVanished
  <2>2. CASE i = n + 1
    BY <1>2, <1>4, <2>2, NextIsThere
  <2> QED
    BY <1>2, <2>1, <2>2
<1>10. ListIsExact'
  <2> SUFFICES ASSUME ~appeared, ~vanished, ~failed'
               PROVE  /\ count = Cardinality(sel)
                      /\ \A i \in 1 .. n + 1 : results'[i] \in BoundByIndex(sel, i - 1)
    BY <1>2, <1>3 DEF ListIsExact, still
  <2>1. /\ count = Cardinality(sel)
        /\ \A i \in 1 .. n : results[i] \in BoundByIndex(sel, i - 1)
    BY <1>1, <1>2, <1>3, <1>4 DEF ListIsExact, still
  <2>2. e \in BoundByIndex(sel, n)
    BY <1>4, NextIsThere DEF n
  <2> HIDE DEF sel
  <2>3. ASSUME NEW i \in 1 .. n + 1 PROVE results'[i] \in BoundByIndex(sel, i - 1)
    <3>1. CASE i \in 1 .. n
      BY <1>2, <2>1, <3>1
    <3>2. CASE i = n + 1
      <4>1. i - 1 = n
        BY <1>2, <3>2
      <4> QED
        BY <1>2, <2>2, <3>2, <4>1
    <3> QED
      BY <1>2, <3>1, <3>2
  <2> QED
    BY <2>1, <2>3
<1> QED
  BY <1>6, <1>7, <1>8, <1>9, <1>10 DEF Listing

(* The screen changes under the list. *)
LEMMA AppearStep == ASSUME Inv, NEW x \in Element, appear(x) PROVE Listing'
<1>1. /\ screen \subseteq screen' /\ appeared' = TRUE
      /\ UNCHANGED <<query, count, results, pc, reply, failed, vanished>>
  BY DEF appear, handler
<1>2. screen \in Screen /\ screen' \in Screen /\ query \in RecipeSet
  <2>1. [Next]_vars
    BY DEF Next
  <2> QED
    BY <2>1, ScreenStep DEF Inv, Types, ScreenType, QueryType, RecipeSet
<1>3. Cardinality(query[screen]) <= Cardinality(query'[screen'])
  BY <1>1, <1>2 DEF Inv, Shape, Grows
<1>4. /\ Cardinality(query[screen]) \in Nat /\ Cardinality(query'[screen']) \in Nat
  BY <1>1, <1>2, SubsetsAreFinite DEF RecipeSet
<1>5. PositionsAreTaken'
  <2> SUFFICES ASSUME pc = "snapshot", ~vanished, ~failed
               PROVE  count <= Cardinality(query'[screen'])
    BY <1>1 DEF PositionsAreTaken
  <2>1. count <= Cardinality(query[screen]) /\ count \in Nat
    BY SelectedIsSet DEF Inv, Listing, PositionsAreTaken, Types, ListTypes
  <2> QED
    BY <1>3, <1>4, <2>1
<1>6. ListIsAhead' /\ InOrderUnlessAppeared' /\ ListIsExact'
  BY <1>1 DEF ListIsAhead, InOrderUnlessAppeared, ListIsExact, still
<1>7. NothingUnlessVanished'
  BY <1>1 DEF Inv, Listing, NothingUnlessVanished
<1> QED
  BY <1>5, <1>6, <1>7 DEF Listing

LEMMA VanishStep == ASSUME Inv, NEW x \in Element, vanish(x) PROVE Listing'
<1>1. /\ screen' \subseteq screen /\ vanished' = TRUE
      /\ UNCHANGED <<query, count, results, pc, reply, failed, appeared>>
  BY DEF vanish, handler
<1>2. screen \in Screen /\ screen' \in Screen /\ query \in RecipeSet
  <2>1. [Next]_vars
    BY DEF Next
  <2> QED
    BY <2>1, ScreenStep DEF Inv, Types, ScreenType, QueryType, RecipeSet
<1>3. ListIsAhead'
  <2> SUFFICES ASSUME Monotone(query), ~appeared, NEW i \in DOMAIN results,
                      results[i] # NoElement
               PROVE  Cardinality(UpTo(Place[results[i]], query[screen'])) <= i
    BY <1>1 DEF ListIsAhead
  <2> DEFINE p == Place[results[i]]
  <2>1. results[i] \in Element /\ i \in Nat
    BY DEF Inv, Types, ListTypes
  <2>2. p \in Nat
    BY <2>1, Constants
  <2>3. Cardinality(UpTo(p, query[screen])) <= i
    BY DEF Inv, Listing, ListIsAhead
  <2>4. query[screen'] \in SUBSET query[screen] /\ query[screen] \in SUBSET Element
    BY <1>1, <1>2 DEF Monotone, RecipeSet
  <2> HIDE DEF p
  <2>5. /\ Cardinality(UpTo(p, query[screen'])) <= Cardinality(UpTo(p, query[screen]))
        /\ Cardinality(UpTo(p, query[screen'])) \in Nat
        /\ Cardinality(UpTo(p, query[screen])) \in Nat
    BY <2>2, <2>4, UpToMonotone
  <2>6. Cardinality(UpTo(p, query[screen'])) <= i
    BY <2>1, <2>3, <2>5
  <2> QED
    BY <2>6 DEF p
<1>4. PositionsAreTaken' /\ NothingUnlessVanished' /\ ListIsExact'
  BY <1>1 DEF PositionsAreTaken, NothingUnlessVanished, ListIsExact, still
<1>5. InOrderUnlessAppeared'
  BY <1>1 DEF Inv, Listing, InOrderUnlessAppeared
<1> QED
  BY <1>3, <1>4, <1>5 DEF Listing

(* All other steps leave the screen and the list as they are, or begin a new *)
(* list.                                                                     *)
LEMMA NewListStep ==
    ASSUME results' = <<>>, pc' # "snapshot", reply' # "results"
    PROVE  Listing'
  BY DEF Listing, ListIsAhead, InOrderUnlessAppeared, PositionsAreTaken,
         NothingUnlessVanished, ListIsExact

LEMMA BindKeepsListing == ASSUME Inv, allElementsBoundByIndex PROVE Listing'
<1>1. /\ results' = <<>> /\ reply' # "results" /\ query'[screen'] = query[screen]
      /\ \/ count' = Cardinality(query[screen])
         \/ failed' = TRUE
         \/ pc' = "idle"
  BY BindStep DEF Inv
<1>2. Cardinality(query[screen]) \in Nat
  BY SelectedIsSet DEF Inv
<1>3. ListIsAhead' /\ InOrderUnlessAppeared' /\ NothingUnlessVanished'
  BY <1>1 DEF ListIsAhead, InOrderUnlessAppeared, NothingUnlessVanished
<1>4. PositionsAreTaken'
  BY <1>1, <1>2 DEF PositionsAreTaken
<1>5. ListIsExact'
  BY <1>1 DEF ListIsExact, still
<1> QED
  BY <1>3, <1>4, <1>5 DEF Listing

LEMMA SameListStep ==
    ASSUME Listing, UNCHANGED <<screen, query, count, results, appeared, vanished>>,
           ~failed' => ~failed,
           pc' = "snapshot" => pc = "snapshot",
           reply' = "results" => reply = "results" \/ (pc = "snapshot" /\ Len(results) = count)
    PROVE  Listing'
<1> USE DEF Listing
<1>1. ListIsAhead' /\ InOrderUnlessAppeared'
  BY DEF ListIsAhead, InOrderUnlessAppeared
<1>2. PositionsAreTaken' /\ NothingUnlessVanished'
  BY DEF PositionsAreTaken, NothingUnlessVanished
<1>3. ListIsExact'
  BY DEF ListIsExact, still
<1> QED
  BY <1>1, <1>2, <1>3

LEMMA ListingStep == ASSUME Inv, [Next]_vars PROVE Listing'
<1>1. Types /\ Stages /\ Listing
  BY DEF Inv
<1>2. ASSUME NEW path, NEW json, receive(path, json) PROVE Listing'
  <2>1. results' = <<>> /\ pc' # "snapshot" /\ reply' # "results"
    BY <1>2 DEF receive
  <2> QED
    BY <2>1, NewListStep
<1>3. CASE handleAlertsOrThrow
  <2>1. results' = <<>> /\ pc' # "snapshot" /\ reply' # "results"
    BY <1>1, <1>3 DEF handleAlertsOrThrow, works, raises, answer, Stages
  <2> QED
    BY <2>1, NewListStep
<1>4. CASE tree
  <2>1. results' = <<>> /\ pc' # "snapshot" /\ reply' # "results"
    BY <1>1, <1>4 DEF tree, raises, answer, Stages
  <2> QED
    BY <2>1, NewListStep
<1>5. CASE configWithJSON
  <2>1. results' = <<>> /\ pc' # "snapshot" /\ reply' # "results"
    BY <1>1, <1>5 DEF configWithJSON, answer, Stages
  <2> QED
    BY <2>1, NewListStep
<1>6. CASE cbxQueryForDescendantsOfAnyType
  <2>1. results' = <<>> /\ pc' # "snapshot" /\ reply' # "results"
    BY <1>1, <1>6 DEF cbxQueryForDescendantsOfAnyType, works, findsNothing, raises, answer,
                      Stages
  <2> QED
    BY <2>1, NewListStep
<1>7. ASSUME NEW s \in selectors, applyToQuery(s) PROVE Listing'
  <2>1. results' = <<>> /\ pc' # "snapshot" /\ reply' # "results"
    BY <1>1, <1>7 DEF applyToQuery, answer, Stages
  <2> QED
    BY <2>1, NewListStep
<1>8. CASE elementSnapshot
  <2>1. UNCHANGED <<screen, query, count, appeared, vanished>> /\ pc = "snapshot"
    BY <1>8 DEF elementSnapshot
  <2>2. CASE UNCHANGED results
    <3>1. ~failed' => ~failed
      BY <1>1, <1>8 DEF elementSnapshot, works, findsNothing, missed, raises, Types, FlagTypes
    <3>2. reply' # "results"
      BY <1>1, <1>8, <2>1 DEF elementSnapshot, works, findsNothing, raises, answer, Stages
    <3> QED
      BY <1>1, <2>1, <2>2, <3>1, <3>2, SameListStep
  <2> QED
    BY <1>8, <2>2, SnapshotAdds, AddsStep
<1>9. CASE respond
  BY <1>1, <1>9, SameListStep DEF respond, history
<1>10. CASE registerFailure \/ postSession \/ UNCHANGED vars
  <2>1. UNCHANGED <<screen, query, count, results, appeared, vanished, failed, pc, reply>>
    BY <1>10 DEF registerFailure, postSession, handler, history, vars
  <2> QED
    BY <1>1, <2>1, SameListStep
<1> QED
  BY <1>2, <1>3, <1>4, <1>5, <1>6, <1>7, <1>8, <1>9, <1>10, BindKeepsListing, AppearStep,
     VanishStep DEF Next, Handler, Client

-------------------------------------------------------------------------------
(* The theorems.                                                             *)

LEMMA InvStep == Inv /\ [Next]_vars => Inv'
<1> SUFFICES ASSUME Inv, [Next]_vars PROVE Inv'
  OBVIOUS
<1>1. Types' /\ Stages' /\ AlarmsLag'
  BY TypesStep
<1>2. Recipe' /\ Shape' /\ Listing'
  BY RecipeStep, ShapeStep, ListingStep
<1> QED
  BY <1>1, <1>2 DEF Inv

(* The invariant holds of /query and /tree, whatever the screen does. *)
THEOREM InvariantHolds == Spec => []Inv
  BY InitInv, InvStep, PTL DEF Spec

(* Every variable keeps its type: never more results than found elements. *)
THEOREM TypeCorrect == Spec => []TypeOK
<1>1. Inv => TypeOK
  BY Zenon DEF Inv, Types, TypeOK, ScreenType, FlagTypes, CounterTypes, RequestTypes,
               QueryType, ListTypes
<1> QED
  BY <1>1, InvariantHolds, PTL

LEMMA ExactAnswer ==
    ASSUME Inv, reply = "results", still, Unambiguous PROVE IsExact
<1> DEFINE sel == query[screen]
<1>1. Types /\ Stages /\ Recipe /\ ListIsExact
  BY DEF Inv, Listing
<1>2. /\ count = Cardinality(sel) /\ Len(results) = count
      /\ \A i \in DOMAIN results : results[i] \in BoundByIndex(sel, i - 1)
  BY <1>1 DEF ListIsExact
<1>3. sel \in SUBSET Element /\ screen \in Screen /\ Cardinality(sel) \in Nat
  BY <1>1, SelectedIsSet
<1>4. sel = Selection(body, screen)
  <2>1. Applied = Specifiers(body)
    BY <1>1 DEF Applied, Stages
  <2>2. sel = Selection(Specifiers(body), screen)
    BY <1>1, <1>3, <2>1 DEF Recipe, RecipeIsExact, Applying
  <2>3. Specifiers(Specifiers(body)) = Specifiers(body)
    BY DEF Specifiers
  <2>4. Matching(Specifiers(body), screen) = Matching(body, screen)
    BY <2>3, Zenon DEF Matching
  <2>5. Selection(Specifiers(body), screen) = Selection(body, screen)
    BY <2>3, <2>4, Zenon DEF Selection
  <2> QED
    BY <2>2, <2>5
<1>5. ASSUME NEW e \in sel PROVE results[Rank(e, sel) + 1] = e
  <2> DEFINE r == Rank(e, sel)
  <2>1. r \in Nat /\ r < Cardinality(sel)
    BY <1>3, <1>5, RankType, RankBelow
  <2> HIDE DEF r
  <2>2. r + 1 \in DOMAIN results /\ (r + 1) - 1 = r
    BY <1>1, <1>2, <1>3, <2>1 DEF Types, ListTypes
  <2>3. results[r + 1] \in BoundByIndex(sel, r)
    BY <1>2, <2>2
  <2>4. results[r + 1] \in sel /\ Rank(results[r + 1], sel) = r
    BY <2>3 DEF BoundByIndex
  <2>5. results[r + 1] = e
    BY <1>3, <1>5, <2>4, RankInjective DEF r
  <2> QED
    BY <2>5 DEF r
<1> HIDE DEF sel
<1> QED
  BY <1>2, <1>4, <1>5 DEF IsExact, Lists

(* In every order of the keys, a query on a quiet screen lists the elements  *)
(* that match all of them, in their order.                                   *)
THEOREM QuietQueriesAreExact == Spec => []QuietQueryIsExact
<1>1. Inv => QuietQueryIsExact
  BY ExactAnswer DEF QuietQueryIsExact, Unambiguous
<1> QED
  BY <1>1, InvariantHolds, PTL

(* A list is in order and without repetition while nothing comes up. *)
THEOREM ListsInOrder == Spec => []InOrderUnlessAppeared
<1>1. Inv => InOrderUnlessAppeared
  BY DEF Inv, Listing
<1> QED
  BY <1>1, InvariantHolds, PTL

(* A list has no empty entry while nothing goes and no look fails. *)
THEOREM NothingOnlyIfVanished == Spec => []NothingUnlessVanished
<1>1. Inv => NothingUnlessVanished
  BY DEF Inv, Listing
<1> QED
  BY <1>1, InvariantHolds, PTL

(* There are never more deadlock exceptions than failures that were          *)
(* registered.                                                               *)
THEOREM AlarmsPaid == Spec => []AlarmsArePaid
<1>1. Inv => AlarmsArePaid
  BY DEF Inv, AlarmsLag, AlarmsArePaid
<1> QED
  BY <1>1, InvariantHolds, PTL
==============================================================================
