--------------------------- MODULE LiveDomainProofs ---------------------------
(***************************************************************************)
(* Lemmas about the operators of LiveDomain: what a row is after a status  *)
(* is written to it, that the node the ranking chooses is one of those it  *)
(* was given and is ranked highest, and that a plan of entries fits the    *)
(* nodes and prefers the best ones, whatever order it visits accounts in.  *)
(***************************************************************************)
EXTENDS LiveDomain, FiniteSetTheorems, TLAPS

\* A status written to a row leaves a row.
LEMMA WithStatusIsRow ==
    ASSUME NEW row \in SessionRow, NEW status \in SessionStatus
    PROVE  /\ WithStatus(row, status) \in SessionRow
           /\ WithStatus(row, status).status = status
           /\ WithStatus(row, status).keyed <=> status \in Active
           /\ SlotOf(WithStatus(row, status)) = SlotOf(row)
    <1> DEFINE key == HoldsSlot(status)
               age == IF status \in Terminal THEN "none" ELSE row.sending
    <1>1. key \in BOOLEAN /\ (key <=> status \in Active)
        BY DEF HoldsSlot
    <1>2. age \in SendAge
        BY DEF SessionRow, SendAge
    <1>3. WithStatus(row, status) =
              [row EXCEPT !.status = status, !.keyed = key, !.sending = age]
        BY DEF WithStatus
    <1> HIDE DEF key, age
    <1>4. WithStatus(row, status) \in SessionRow
        BY <1>1, <1>2, <1>3 DEF SessionRow
    <1>5. WithStatus(row, status).status = status
        BY <1>3 DEF SessionRow
    <1>6. WithStatus(row, status).keyed = key
        BY <1>3 DEF SessionRow
    <1>7. SlotOf(WithStatus(row, status)) = SlotOf(row)
        BY <1>3 DEF SessionRow, SlotOf
    <1> QED BY <1>1, <1>4, <1>5, <1>6, <1>7

\* A planned session is a row.
LEMMA PlannedSessionIsRow ==
    ASSUME NEW t \in Task, NEW a \in Account, NEW n \in Node,
           NEW k \in 0..MaxRestarts
    PROVE  /\ PlannedSession(t, a, n, k) \in SessionRow
           /\ PlannedSession(t, a, n, k).status = "planned"
           /\ PlannedSession(t, a, n, k).keyed
           /\ SlotOf(PlannedSession(t, a, n, k)) = <<t, a>>
    BY DEF PlannedSession, SessionRow, SessionStatus, Active, Terminal,
           SendAge, HoldsSlot, SlotOf

\* Of finitely many things one is measured highest.
LEMMA FiniteHasHighest ==
    ASSUME NEW S, IsFiniteSet(S), S # {}, NEW f, \A x \in S : f[x] \in Int
    PROVE  \E x \in S : \A y \in S : f[y] <= f[x]
    <1> DEFINE Above(x) == {y \in S : f[x] < f[y]}
               Less == StrictSubsetOrdering(S)
               T == {Above(x) : x \in S}
    <1>1. IsWellFoundedOn(Less, SUBSET S)
        BY FS_StrictSubsetOrderingWellFounded, FS_FiniteSubsetsOfFinite
    <1>2. T \subseteq SUBSET S /\ T # {}
        OBVIOUS
    <1>3. \E x \in T : \A y \in T : ~(<<y, x>> \in Less)
        <2> HIDE DEF T, Less
        <2> QED BY <1>1, <1>2, WFMin
    <1>4. PICK x \in S : \A y \in S : ~(<<Above(y), Above(x)>> \in Less)
        BY <1>3
    <1>5. ASSUME NEW y \in S, ~(f[y] <= f[x])
          PROVE  FALSE
        <2>1. y \in Above(x) /\ y \notin Above(y)
            BY <1>5
        <2>2. Above(y) \subseteq Above(x)
            BY <1>5
        <2>3. <<Above(y), Above(x)>> \in Less
            <3> HIDE DEF Above
            <3> SUFFICES /\ Above(y) \in SUBSET S /\ Above(x) \in SUBSET S
                         /\ Above(y) \subseteq Above(x) /\ Above(y) # Above(x)
                BY DEF StrictSubsetOrdering
            <3>1. Above(y) \in SUBSET S /\ Above(x) \in SUBSET S
                BY DEF Above
            <3> QED BY <3>1, <2>1, <2>2
        <2> QED BY <2>3, <1>4
    <1> QED BY <1>5

\* The chosen node is one of the nodes that accept, and no node that accepts
\* has a higher score: nodes are finitely many, so that there is a best one.
LEMMA BestNodeIsBest ==
    ASSUME NEW a \in Account, NEW nodes \in SUBSET Node, nodes # {}
    PROVE  /\ BestNode(a, nodes) \in nodes
           /\ \A m \in nodes : Score[a][m] <= Score[a][BestNode(a, nodes)]
    <1>1. IsFiniteSet(nodes)
        BY FS_Subset, DomainAssumption DEF DomainAssumption
    <1>2. \A m \in nodes : Score[a][m] \in Int
        BY DomainAssumption DEF DomainAssumption
    <1>3. \E n \in nodes : \A m \in nodes : Score[a][m] <= Score[a][n]
        BY <1>1, <1>2, FiniteHasHighest
    <1> QED BY <1>3 DEF BestNode

-------------------------------------------------------------------------------
(***************************************************************************)
(* Plans: who visits when, and what a visitor finds.                       *)
(***************************************************************************)
\* The accounts a plan puts on a node.
PlacedOn(place, n) == {a \in DOMAIN place : place[a] = n}

\* What a visiting order makes of a plan: each account gets the best of the
\* nodes that accept it, with what the plan has put on them before.
OpenTo(a, visit, accounts, place, rows, load) ==
    OpenNodes(rows, load, place, {b \in accounts : visit[b] < visit[a]})

Explains(visit, accounts, place, rows, load) ==
    /\ \A a \in accounts : visit[a] \in Int
    /\ \A a, b \in accounts : visit[a] = visit[b] => a = b
    /\ \A a \in accounts :
          LET open == OpenTo(a, visit, accounts, place, rows, load)
          IN  /\ a \in DOMAIN place <=> open # {}
              /\ open # {} => place[a] = BestNode(a, open)

\* A plan is what some visiting order makes of its accounts.
LEMMA PlanIsVisited ==
    ASSUME NEW accounts \in SUBSET Account, NEW rows, NEW load,
           NEW place \in EntryPlans(accounts, rows, load)
    PROVE  /\ DOMAIN place \subseteq accounts
           /\ \A a \in DOMAIN place : place[a] \in Node
           /\ \E visit : Explains(visit, accounts, place, rows, load)
    <1>1. /\ place \in UNION {[D -> Node] : D \in SUBSET accounts}
          /\ IsEntryPlan(place, accounts, rows, load)
        BY DEF EntryPlans
    <1>2. PICK visit \in Bijection(accounts, 1..Cardinality(accounts)) :
              \A a \in accounts :
                  LET earlier == {b \in accounts : visit[b] < visit[a]}
                      open == OpenNodes(rows, load, place, earlier)
                  IN  /\ a \in DOMAIN place <=> open # {}
                      /\ open # {} => place[a] = BestNode(a, open)
        BY <1>1 DEF IsEntryPlan
    <1>3. Cardinality(accounts) \in Nat
        BY FS_Subset, FS_CardinalityType, DomainAssumption
           DEF DomainAssumption
    <1>4. /\ \A a \in accounts : visit[a] \in Int
          /\ \A a, b \in accounts : visit[a] = visit[b] => a = b
        BY <1>3 DEF Bijection, Injection, IsInjective
    <1>5. Explains(visit, accounts, place, rows, load)
        BY <1>2, <1>4 DEF Explains, OpenTo
    <1> QED BY <1>1, <1>5

\* A plan leaves no node with more browsers than it has: the last account on
\* a node was accepted when all the others were counted.
LEMMA PlanFitsNodes ==
    ASSUME NEW accounts \in SUBSET Account, NEW rows,
           NEW load \in [Node -> Nat],
           NEW place \in EntryPlans(accounts, rows, load), NEW n \in Node
    PROVE  \/ PlacedOn(place, n) = {}
           \/ load[n] + Cardinality(PlacedOn(place, n)) <= MaxBrowser[n]
    <1> DEFINE here == PlacedOn(place, n)
    <1>1. PICK visit : Explains(visit, accounts, place, rows, load)
        BY PlanIsVisited
    <1>2. DOMAIN place \subseteq accounts /\ here \subseteq accounts
        BY PlanIsVisited DEF PlacedOn
    <1>3. IsFiniteSet(here)
        BY <1>2, FS_Subset, DomainAssumption DEF DomainAssumption
    <1>4. ASSUME here # {}
          PROVE  load[n] + Cardinality(here) <= MaxBrowser[n]
        <2>1. PICK a \in here : \A b \in here : visit[b] <= visit[a]
            <3> HIDE DEF here
            <3> QED BY <1>1, <1>2, <1>3, <1>4, FiniteHasHighest DEF Explains
        <2> DEFINE earlier == {b \in accounts : visit[b] < visit[a]}
                   open == OpenTo(a, visit, accounts, place, rows, load)
        <2>2. a \in accounts /\ a \in DOMAIN place /\ place[a] = n
            BY <2>1, <1>2 DEF PlacedOn
        <2>3. open # {} /\ n = BestNode(a, open)
            BY <1>1, <2>2 DEF Explains
        <2>4. n \in open
            <3>1. a \in Account /\ open \in SUBSET Node
                BY <2>2 DEF OpenNodes, OpenTo
            <3> HIDE DEF open
            <3> QED BY <3>1, <2>3, BestNodeIsBest
        <2>5. {b \in earlier \cap DOMAIN place : place[b] = n} = here \ {a}
            <3>1. \A b \in here : b # a => visit[b] < visit[a]
                BY <1>1, <1>2, <2>1, <2>2 DEF Explains
            <3> QED BY <3>1, <1>1, <1>2, <2>2 DEF PlacedOn, Explains
        <2>6. load[n] + Cardinality(here \ {a}) < MaxBrowser[n]
            BY <2>4, <2>5 DEF OpenNodes, CanAccept, OpenTo
        <2>7. /\ Cardinality(here \ {a}) = Cardinality(here) - 1
              /\ Cardinality(here) \in Nat
            BY <1>3, <2>1, FS_RemoveElement, FS_CardinalityType
        <2>8. MaxBrowser[n] \in Nat /\ load[n] \in Nat
            BY DomainAssumption DEF DomainAssumption
        <2> HIDE DEF here
        <2> QED BY <2>6, <2>7, <2>8
    <1> QED BY <1>4

\* A node that has room when the plan is carried out had room for everybody:
\* nobody stays out, and whoever is elsewhere ranks it no higher.
LEMMA PlanPrefersBest ==
    ASSUME NEW accounts \in SUBSET Account, NEW rows,
           NEW load \in [Node -> Nat],
           NEW place \in EntryPlans(accounts, rows, load), NEW n \in Node,
           CanAccept(rows[n], n, load[n] + Cardinality(PlacedOn(place, n)))
    PROVE  /\ DOMAIN place = accounts
           /\ \A a \in accounts : Score[a][n] <= Score[a][place[a]]
    <1> DEFINE here == PlacedOn(place, n)
    <1>1. PICK visit : Explains(visit, accounts, place, rows, load)
        BY PlanIsVisited
    <1>2. DOMAIN place \subseteq accounts /\ here \subseteq accounts
        BY PlanIsVisited DEF PlacedOn
    <1>3. IsFiniteSet(here)
        BY <1>2, FS_Subset, DomainAssumption DEF DomainAssumption
    <1>4. MaxBrowser[n] \in Nat /\ load[n] \in Nat
        BY DomainAssumption DEF DomainAssumption
    <1>5. ASSUME NEW a \in accounts
          PROVE  a \in DOMAIN place /\ Score[a][n] <= Score[a][place[a]]
        <2> DEFINE earlier == {b \in accounts : visit[b] < visit[a]}
                   open == OpenTo(a, visit, accounts, place, rows, load)
                   found == {b \in earlier \cap DOMAIN place : place[b] = n}
        <2>1. found \subseteq here
            BY DEF PlacedOn
        <2>2. /\ Cardinality(found) <= Cardinality(here)
              /\ Cardinality(found) \in Nat /\ Cardinality(here) \in Nat
            <3> HIDE DEF found, here
            <3> QED BY <2>1, <1>3, FS_Subset, FS_CardinalityType
        <2>3. CanAccept(rows[n], n, load[n] + Cardinality(found))
            <3> HIDE DEF found, here
            <3>1. CanAccept(rows[n], n, load[n] + Cardinality(here))
                BY DEF here
            <3> QED BY <3>1, <2>2, <1>4 DEF CanAccept
        <2>4. n \in open
            BY <2>3 DEF OpenNodes, OpenTo
        <2>5. a \in DOMAIN place /\ place[a] = BestNode(a, open)
            BY <2>4, <1>1 DEF Explains
        <2>6. a \in Account /\ open \in SUBSET Node
            BY DEF OpenNodes, OpenTo
        <2> HIDE DEF open
        <2> QED BY <2>4, <2>5, <2>6, BestNodeIsBest
    <1> QED BY <1>2, <1>5
===============================================================================
