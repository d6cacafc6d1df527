------------------------- MODULE LiveCenterNodeProofs -------------------------
(***************************************************************************)
(* What the center believes of its nodes, for any constants: how many      *)
(* browsers they have left, which of them a plan uses, and that a session  *)
(* it sends through has its browser open.                                  *)
(*                                                                         *)
(* A plan follows the ranking and every decision fits the nodes as it has  *)
(* counted them, whatever happens.  The browser rests on something the     *)
(* code does not establish by itself, and the hypothesis says what: it is  *)
(* gone before the center knows when its process dies.                     *)
(***************************************************************************)
EXTENDS LiveCenterSendProofs

-------------------------------------------------------------------------------
(***************************************************************************)
(* Counting sessions on nodes.                                             *)
(***************************************************************************)
\* The active sessions of a node, and the rows among rows that go there.
ActiveOn(n) == {s \in Sessions : session[s].node = n /\ IsActive(s)}
RowsOn(rows, n) == {r \in rows : r.node = n}

\* Each node has room for what rows puts there, if it does.
RowsFit(rows) ==
    \A n \in Node :
        \/ RowsOn(rows, n) = {}
        \/ Load[n] + Cardinality(RowsOn(rows, n)) <= MaxBrowser[n]

\* There are finitely many sessions, and no plan brings infinitely many.
FiniteInv ==
    /\ JobInv
    /\ IsFiniteSet(Sessions)
    /\ \A p \in Process : pc[p].at = "insert" => IsFiniteSet(pc[p].rows)

\* The load of a node is a count.
LEMMA LoadIsCount ==
    ASSUME IsFiniteSet(Sessions)
    PROVE  /\ Load \in [Node -> Nat]
           /\ \A n \in Node : /\ IsFiniteSet(ActiveOn(n))
                              /\ Load[n] = Cardinality(ActiveOn(n))
    <1>1. \A n \in Node : IsFiniteSet(ActiveOn(n))
        <2> SUFFICES ASSUME NEW n \in Node PROVE IsFiniteSet(ActiveOn(n))
            OBVIOUS
        <2>1. ActiveOn(n) \in SUBSET Sessions
            BY DEF ActiveOn
        <2> QED BY <2>1, FS_Subset
    <1>2. \A n \in Node : Cardinality(ActiveOn(n)) \in Nat
        BY <1>1, FS_CardinalityType
    <1>3. Load = [n \in Node |-> Cardinality(ActiveOn(n))]
        BY DEF Load, ActiveOn
    <1> HIDE DEF ActiveOn
    <1> QED BY <1>1, <1>2, <1>3

\* The rows of a plan are finitely many, one for each account it places.
PlannedRows(t, place) ==
    {PlannedSession(t, a, place[a], 0) : a \in DOMAIN place}

LEMMA PlannedRowsAreCounted ==
    ASSUME NEW t, NEW place, DOMAIN place \in SUBSET Account, NEW n
    PROVE  /\ IsFiniteSet(PlannedRows(t, place))
           /\ RowsOn(PlannedRows(t, place), n) = {} <=>
                  PlacedOn(place, n) = {}
           /\ Cardinality(RowsOn(PlannedRows(t, place), n)) =
                  Cardinality(PlacedOn(place, n))
    <1> DEFINE row(a) == PlannedSession(t, a, place[a], 0)
               rows == {row(a) : a \in DOMAIN place}
               D == DOMAIN place
               f == [a \in D |-> row(a)]
               here == PlacedOn(place, n)
               g == [a \in here |-> row(a)]
    <1>1. \A a : row(a).account = a /\ row(a).node = place[a]
        BY DEF PlannedSession
    <1>2. IsFiniteSet(D) /\ here \subseteq D
        BY FS_Subset, DomainAssumption DEF DomainAssumption, PlacedOn
    <1>3. RowsOn(rows, n) = {row(a) : a \in here}
        BY <1>1 DEF RowsOn, PlacedOn
    <1> HIDE DEF row
    <1>4. f \in Surjection(D, rows)
        BY DEF Surjection
    <1>5. IsFiniteSet(rows)
        <2> HIDE DEF f, rows
        <2> QED BY <1>2, <1>4, FS_Surjection
    <1>6. IsFiniteSet(here)
        <2> HIDE DEF here
        <2> QED BY <1>2, FS_Subset
    <1>7. g \in Bijection(here, RowsOn(rows, n))
        <2>1. \A a, b \in here : row(a) = row(b) => a = b
            BY <1>1
        <2> HIDE DEF here
        <2> QED BY <2>1, <1>3 DEF Bijection, Injection, Surjection, IsInjective
    <1>8. Cardinality(RowsOn(rows, n)) = Cardinality(here)
        <2> HIDE DEF g, here, rows
        <2> QED BY <1>6, <1>7, FS_Bijection DEF ExistsBijection
    <1>9. RowsOn(rows, n) = {} <=> here = {}
        <2> HIDE DEF here, rows
        <2> QED BY <1>3
    <1> HIDE DEF here
    <1> QED BY <1>5, <1>8, <1>9 DEF row, here, PlannedRows

-------------------------------------------------------------------------------
(***************************************************************************)
(* Plans and rebuilds.                                                     *)
(***************************************************************************)
\* The process p, an observer of the task, has planned place.
Plans(p, place) ==
    /\ pc[p].at = "plan"
    /\ place \in EntryPlans(Unseated(Watches[p]), nodeRow, Load)
    /\ pc'[p].rows = PlannedRows(Watches[p], place)

\* The process p has decided to rebuild its session.
Rebuilt(p) ==
    /\ pc[p].at = "restart"
    /\ MayRestart(pc[p].sess)
    /\ pc'[p].rows = Restarts(pc[p].sess)

\* Rows on their way into the table were so before, or are those of a plan or
\* of a rebuild, and nothing else happens then.
LEMMA WhereRowsComeFrom ==
    ASSUME PcOK, [Next]_vars, NEW p \in Process, pc'[p].at = "insert"
    PROVE  \/ pc'[p] = pc[p]
           \/ /\ UNCHANGED session
              /\ \A q \in Process : q # p => pc'[q] = pc[q]
              /\ \/ p \in Observer /\ \E place : Plans(p, place)
                 \/ p \in Worker /\ Rebuilt(p)
    <1>p. pc \in [Process -> Continuation] /\ Observer \cup Worker \subseteq Process
        BY DEF Process, PcOK
    <1>1. CASE UNCHANGED pc
        BY <1>1
    <1>2. ASSUME NEW q \in Process, GoesQuiet(q)
          PROVE  pc'[p] = pc[p]
        BY <1>2 DEF GoesQuiet, IsQuiet
    <1>3. ASSUME NEW o \in Observer, ObserveLive(o)
          PROVE  pc'[p] = pc[p]
        BY <1>3, <1>p DEF ObserveLive, Go
    <1>4. ASSUME NEW q \in Worker, ReportSessionStatus(q)
          PROVE  pc'[p] = pc[p]
        <2>1. PICK k : pc' = [pc EXCEPT ![q] = k] /\ k.at # "insert"
            BY <1>4 DEF ReportSessionStatus, Go, AfterReport
        <2> QED BY <2>1, <1>p
    <1>5. ASSUME NEW o \in Observer, PlanEntries(o), pc'[p] # pc[p]
          PROVE  /\ UNCHANGED session /\ p \in Observer
                 /\ \A q \in Process : q # p => pc'[q] = pc[q]
                 /\ \E place : Plans(p, place)
        <2>1. \E k : pc' = [pc EXCEPT ![o] = k]
            BY <1>5 DEF PlanEntries, Go
        <2>2. p = o /\ \A q \in Process : q # p => pc'[q] = pc[q]
            BY <2>1, <1>5, <1>p
        <2>3. pc' # [pc EXCEPT ![p] = [at |-> "check"]]
            BY <1>p
        <2>4. PICK place \in EntryPlans(Unseated(Watches[p]), nodeRow, Load) :
                  pc' = [pc EXCEPT ![p] =
                            [at |-> "insert",
                             rows |-> PlannedRows(Watches[p], place)]]
            BY <1>5, <2>2, <2>3 DEF PlanEntries, Go, PlannedRows
        <2>5. pc'[p].rows = PlannedRows(Watches[p], place)
            BY <2>4, <1>p
        <2>6. Plans(p, place)
            BY <2>2, <2>4, <2>5, <1>5 DEF PlanEntries, Plans
        <2> QED BY <2>2, <2>6, <1>5 DEF PlanEntries, db
    <1>6. ASSUME NEW q \in Worker, RestartSession(q), pc'[p] # pc[p]
          PROVE  /\ UNCHANGED session /\ p \in Worker /\ Rebuilt(p)
                 /\ \A r \in Process : r # p => pc'[r] = pc[r]
        <2>1. \E k : pc' = [pc EXCEPT ![q] = k]
            BY <1>6 DEF RestartSession
        <2>2. p = q /\ \A r \in Process : r # p => pc'[r] = pc[r]
            BY <2>1, <1>6, <1>p
        <2>3. pc'[p] = IF MayRestart(pc[p].sess)
                       THEN [at |-> "insert", rows |-> Restarts(pc[p].sess)]
                       ELSE [at |-> "idle"]
            BY <2>2, <1>6, <1>p DEF RestartSession
        <2>4. Rebuilt(p)
            BY <2>2, <2>3, <1>6 DEF RestartSession, Rebuilt
        <2> QED BY <2>2, <2>4, <1>6 DEF RestartSession, db
    <1> QED BY <1>1, <1>2, <1>3, <1>4, <1>5, <1>6, QuietNext

\* A plan fits the nodes it was made for.
LEMMA PlansFit ==
    ASSUME IsFiniteSet(Sessions), NEW t,
           NEW place \in EntryPlans(Unseated(t), nodeRow, Load)
    PROVE  IsFiniteSet(PlannedRows(t, place)) /\ RowsFit(PlannedRows(t, place))
    <1>1. Unseated(t) \in SUBSET Account /\ Load \in [Node -> Nat]
        BY LoadIsCount DEF Unseated
    <1>2. DOMAIN place \in SUBSET Account
        BY <1>1, PlanIsVisited
    <1>3. \A n \in Node :
              \/ PlacedOn(place, n) = {}
              \/ Load[n] + Cardinality(PlacedOn(place, n)) <= MaxBrowser[n]
        BY <1>1, PlanFitsNodes
    <1> DEFINE rows == PlannedRows(t, place)
    <1>4. /\ IsFiniteSet(rows)
          /\ \A n : /\ RowsOn(rows, n) = {} <=> PlacedOn(place, n) = {}
                    /\ Cardinality(RowsOn(rows, n)) =
                           Cardinality(PlacedOn(place, n))
        BY <1>2, PlannedRowsAreCounted
    <1> HIDE DEF rows
    <1>5. RowsFit(rows)
        BY <1>3, <1>4 DEF RowsFit
    <1> QED BY <1>4, <1>5 DEF rows

\* A plan uses the best nodes: whatever the observer reads, in whichever order
\* it visits the accounts, nobody is left out while a node has room, and
\* nobody is on a node while one that it ranks higher has room.
LEMMA PlanStep ==
    ASSUME PcOK, IsFiniteSet(Sessions), [Next]_vars,
           NEW o \in Observer, pc[o].at = "plan", pc'[o].at = "insert",
           NEW n \in Node,
           CanAccept(nodeRow[n], n, Load[n] + Cardinality({r \in pc'[o].rows :
                                                               r.node = n}))
    PROVE  /\ \A a \in Unseated(Watches[o]) :
                 \E r \in pc'[o].rows : r.account = a
           /\ \A r \in pc'[o].rows :
                 Score[r.account][n] <= Score[r.account][r.node]
    <1> DEFINE t == Watches[o]
    <1>1. PICK place \in EntryPlans(Unseated(t), nodeRow, Load) :
              pc'[o].rows = PlannedRows(t, place)
        BY WhereRowsComeFrom DEF Process, Plans, Rebuilt
    <1>2. Unseated(t) \in SUBSET Account /\ Load \in [Node -> Nat]
        BY LoadIsCount DEF Unseated
    <1>3. DOMAIN place \in SUBSET Account
        BY <1>2, PlanIsVisited
    <1>4. Cardinality({r \in pc'[o].rows : r.node = n}) =
              Cardinality(PlacedOn(place, n))
        BY <1>1, <1>3, PlannedRowsAreCounted DEF RowsOn
    <1>5. /\ DOMAIN place = Unseated(t)
          /\ \A a \in Unseated(t) : Score[a][n] <= Score[a][place[a]]
        <2> HIDE DEF t
        <2> QED BY <1>2, <1>4, PlanPrefersBest
    <1>6. \A a, m : /\ PlannedSession(t, a, m, 0).account = a
                   /\ PlannedSession(t, a, m, 0).node = m
        BY DEF PlannedSession
    <1>7. /\ \A a \in DOMAIN place :
                 PlannedSession(t, a, place[a], 0) \in pc'[o].rows
          /\ \A r \in pc'[o].rows : \E a \in DOMAIN place :
                 r = PlannedSession(t, a, place[a], 0)
        BY <1>1 DEF PlannedRows
    <1> HIDE DEF t
    <1>8. \A a \in Unseated(t) : \E r \in pc'[o].rows : r.account = a
        BY <1>5, <1>6, <1>7
    <1>9. ASSUME NEW r \in pc'[o].rows
          PROVE  Score[r.account][n] <= Score[r.account][r.node]
        <2>1. PICK a \in DOMAIN place : r = PlannedSession(t, a, place[a], 0)
            BY <1>7
        <2>2. r.account = a /\ r.node = place[a] /\ a \in Unseated(t)
            BY <2>1, <1>5, <1>6
        <2> QED BY <2>2, <1>5
    <1> QED BY <1>8, <1>9 DEF t

\* A rebuild fits the node it was routed to.
LEMMA RebuildsFit ==
    ASSUME IsFiniteSet(Sessions), NEW s \in Sessions,
           session[s] \in SessionRow, MayRestart(s)
    PROVE  IsFiniteSet(Restarts(s)) /\ RowsFit(Restarts(s))
    <1> DEFINE open == {m \in Node : CanAccept(nodeRow[m], m, Load[m])}
               b == BestNode(session[s].account, open)
               row == PlannedSession(session[s].task, session[s].account, b,
                                     session[s].restart + 1)
    <1>1. Restarts(s) = {row}
        BY DEF Restarts
    <1>2. row.node = b
        BY DEF PlannedSession
    <1>3. b \in open
        <2>1. open \in SUBSET Node /\ open # {} /\ session[s].account \in Account
            BY DEF MayRestart, SessionRow
        <2> HIDE DEF open
        <2> QED BY <2>1, BestNodeIsBest
    <1>4. b \in Node /\ Load[b] < MaxBrowser[b]
        BY <1>3 DEF CanAccept
    <1>5. MaxBrowser[b] \in Nat /\ Load[b] \in Nat
        BY <1>4, DomainAssumption, LoadIsCount DEF DomainAssumption
    <1>6. Cardinality({row}) = 1 /\ IsFiniteSet({row})
        BY FS_Singleton
    <1> HIDE DEF b, row
    <1>7. \A n \in Node : RowsOn({row}, n) = IF n = b THEN {row} ELSE {}
        BY <1>2 DEF RowsOn
    <1> QED BY <1>1, <1>4, <1>5, <1>6, <1>7 DEF RowsFit

\* New rows are finitely many and fit, whoever decided on them.
LEMMA NewRowsFit ==
    ASSUME FiniteInv, [Next]_vars, NEW p \in Process, pc'[p].at = "insert"
    PROVE  \/ pc'[p] = pc[p]
           \/ /\ UNCHANGED session
              /\ \A q \in Process : q # p => pc'[q] = pc[q]
              /\ IsFiniteSet(pc'[p].rows) /\ RowsFit(pc'[p].rows)
    <1>p. /\ PcOK /\ IsFiniteSet(Sessions)
          /\ \A s \in Sessions : session[s] \in SessionRow
        BY DEF FiniteInv, JobInv, SlotInv, Typed, DbOK, IsTable, Sessions
    <1>1. ASSUME NEW place, Plans(p, place)
          PROVE  IsFiniteSet(pc'[p].rows) /\ RowsFit(pc'[p].rows)
        BY <1>1, <1>p, PlansFit DEF Plans
    <1>2. ASSUME Rebuilt(p)
          PROVE  IsFiniteSet(pc'[p].rows) /\ RowsFit(pc'[p].rows)
        <2>1. pc[p].sess \in Sessions
            BY <1>2, <1>p, ContinuationFields DEF Rebuilt
        <2> QED BY <2>1, <1>2, <1>p, RebuildsFit DEF Rebuilt
    <1> QED BY <1>1, <1>2, <1>p, WhereRowsComeFrom

\* The new sessions of an insertion are as many as the rows that are free.
LEMMA InsertionIsFinite ==
    ASSUME FiniteInv, NEW p \in Process, InsertSessions(p)
    PROVE  IsFiniteSet(Sessions')
    <1> DEFINE free == FreeRows(pc[p].rows)
    <1>1. PICK D \in SUBSET (SessionId \ Sessions) :
              \E new \in Bijection(D, free) : Inserts(p, new)
        BY DEF InsertSessions
    <1>2. PICK new \in Bijection(D, free) : Inserts(p, new)
        BY <1>1
    <1>3. new \in [D -> free]
        BY <1>2 DEF Bijection, Injection
    <1>4. Sessions' = Sessions \cup D
        BY <1>1, <1>2, <1>3 DEF Inserts, Sessions
    <1>5. IsFiniteSet(pc[p].rows)
        BY DEF FiniteInv, InsertSessions
    <1>6. free \subseteq pc[p].rows
        BY DEF FreeRows
    <1> HIDE DEF free
    <1>7. new \in Injection(D, free) /\ IsFiniteSet(free)
        BY <1>2, <1>5, <1>6, FS_Subset DEF Bijection
    <1>8. IsFiniteSet(D)
        BY <1>7, FS_Injection
    <1>9. IsFiniteSet(Sessions')
        BY <1>4, <1>8, FS_Union DEF FiniteInv
    <1> QED BY <1>9
-------------------------------------------------------------------------------
(***************************************************************************)
(* The steps.                                                              *)
(***************************************************************************)
LEMMA FiniteInit == Init => FiniteInv
    <1> SUFFICES ASSUME Init PROVE FiniteInv
        OBVIOUS
    <1>1. Sessions = {} /\ \A p \in Process : pc[p].at = "idle"
        BY DEF Init, Sessions
    <1> QED BY <1>1, JobInit, FS_EmptySet DEF FiniteInv

LEMMA FiniteStep == FiniteInv /\ [Next]_vars => FiniteInv'
    <1> SUFFICES ASSUME FiniteInv, [Next]_vars PROVE FiniteInv'
        OBVIOUS
    <1>1. JobInv'
        BY JobStep DEF FiniteInv
    <1>2. IsFiniteSet(Sessions')
        <2>1. CASE SessionsMove
            BY <2>1 DEF SessionsMove, FiniteInv
        <2> QED BY <2>1, MoveOrInsert, InsertionIsFinite
                DEF FiniteInv, JobInv, SlotInv
    <1>3. \A p \in Process : pc'[p].at = "insert" => IsFiniteSet(pc'[p].rows)
        BY NewRowsFit DEF FiniteInv
    <1> QED BY <1>1, <1>2, <1>3 DEF FiniteInv

\* What is decided fits the nodes as they were counted, for any constants:
\* each account of a plan sees the slots that the ones before it have taken,
\* and a rebuild only gets a slot that is left.
THEOREM DecisionsFitNodes == Spec => DecisionsFit
    <1>1. ASSUME FiniteInv, [Next]_vars, NEW p \in Process,
                 pc[p].at # "insert", pc'[p].at = "insert", NEW r \in pc'[p].rows
          PROVE  Load[r.node] + Cardinality({q \in pc'[p].rows :
                                                q.node = r.node})
                     <= MaxBrowser[r.node]
        <2>1. RowsFit(pc'[p].rows)
            BY <1>1, NewRowsFit
        <2>2. r.node \in Node
            <3>1. pc'[p] \in Continuation /\ pc'[p].at = "insert"
                BY <1>1, FiniteStep DEF FiniteInv, JobInv, SlotInv, Typed, PcOK
            <3>2. pc'[p].rows \in SUBSET SessionRow
                BY <3>1 DEF Continuation, Simple, Insert, Publish, StatusReport,
                            ResultReport, Restart
            <3> QED BY <1>1, <3>2 DEF SessionRow
        <2>3. RowsOn(pc'[p].rows, r.node) # {}
            BY <1>1 DEF RowsOn
        <2> QED BY <2>1, <2>2, <2>3 DEF RowsFit, RowsOn
    <1>2. FiniteInv /\ [Next]_vars =>
              [\A p \in Process :
                  pc[p].at # "insert" /\ pc'[p].at = "insert" =>
                      \A r \in pc'[p].rows :
                          Load[r.node] + Cardinality({q \in pc'[p].rows :
                                                         q.node = r.node})
                              <= MaxBrowser[r.node]]_vars
        BY <1>1
    <1> QED BY <1>2, FiniteInit, FiniteStep, PTL DEF Spec, DecisionsFit

\* A plan uses the best nodes, for any constants: whatever the observer has
\* read, nobody is left out while a node has room, and nobody is on a node
\* while one that it ranks higher has room.
THEOREM PlansUseBestNodes == Spec => PlanUsesBestNodes
    <1>1. FiniteInv /\ [Next]_vars =>
              [\A o \in Observer :
                  pc[o].at = "plan" /\ pc'[o].at = "insert" =>
                      LET rows == pc'[o].rows
                          room == {n \in Node :
                                      CanAccept(nodeRow[n], n,
                                          Load[n] + Cardinality({r \in rows :
                                                                    r.node = n}))}
                      IN  /\ room # {} =>
                                \A a \in Unseated(Watches[o]) :
                                    \E r \in rows : r.account = a
                          /\ \A r \in rows, n \in room :
                                Score[r.account][n] <=
                                    Score[r.account][r.node]]_vars
        BY PlanStep DEF FiniteInv, JobInv, SlotInv, Typed
    <1> QED BY <1>1, FiniteInit, FiniteStep, PTL DEF Spec, PlanUsesBestNodes
-------------------------------------------------------------------------------
(***************************************************************************)
(* Messages on their way.                                                  *)
(***************************************************************************)
\* The node n has been sent m and no process has taken it.
IsSent(m, n) ==
    m \in delayed[n] \/ \E i \in DOMAIN queue[n] : queue[n][i] = m

\* A process takes what its node has been sent, and nothing else is sent.
LEMMA TakesSent ==
    ASSUME CeleryOK, NEW p \in Worker, NEW m \in Ready(p), Takes(p, m),
           Runs[p] \in Node
    PROVE  /\ IsSent(m, Runs[p])
           /\ \A n \in Node : \A k : IsSent(k, n)' => IsSent(k, n)
    <1> DEFINE n == Runs[p]
    <1>1. n \in Node OBVIOUS
    <1>q. queue[n] \in Seq(Message) BY <1>1 DEF CeleryOK
    <1> HIDE DEF n
    <1>2. CASE /\ queue[n] # <<>>
               /\ m = Head(queue[n])
               /\ queue' = [queue EXCEPT ![n] = Tail(@)]
               /\ UNCHANGED delayed
        <2>1. m = queue[n][1] /\ 1 \in DOMAIN queue[n]
            BY <1>2, <1>q
        <2>2. \A i \in DOMAIN Tail(queue[n]) :
                  /\ i + 1 \in DOMAIN queue[n]
                  /\ Tail(queue[n])[i] = queue[n][i + 1]
            BY <1>2, <1>q
        <2>3. /\ queue'[n] = Tail(queue[n])
              /\ \A k \in Node : k # n => queue'[k] = queue[k]
            BY <1>2, <1>1 DEF CeleryOK
        <2>4. ASSUME NEW k \in Node, NEW i \in DOMAIN queue'[k]
              PROVE  \E j \in DOMAIN queue[k] : queue[k][j] = queue'[k][i]
            <3>1. CASE k = n
                BY <3>1, <2>2, <2>3, <2>4
            <3>2. CASE k # n
                BY <3>2, <2>3, <2>4
            <3> QED BY <3>1, <3>2
        <2>5. IsSent(m, n)
            BY <2>1 DEF IsSent
        <2>6. ASSUME NEW k \in Node, NEW h, IsSent(h, k)'
              PROVE  IsSent(h, k)
            BY <2>4, <2>6, <1>2 DEF IsSent
        <2> QED BY <2>5, <2>6 DEF n
    <1>3. CASE /\ m \in delayed[n]
               /\ delayed' = [delayed EXCEPT ![n] = @ \ {m}]
               /\ UNCHANGED queue
        <2>1. IsSent(m, n)
            BY <1>3 DEF IsSent
        <2>2. \A k \in Node : delayed'[k] \subseteq delayed[k]
            BY <1>3, <1>1 DEF CeleryOK
        <2>3. ASSUME NEW k \in Node, NEW h, IsSent(h, k)'
              PROVE  IsSent(h, k)
            BY <2>2, <2>3, <1>3 DEF IsSent
        <2> QED BY <2>1, <2>3 DEF n
    <1> QED BY <1>2, <1>3 DEF Takes, n

\* What is published goes to the node of its session.
LEMMA PublishedIsSent ==
    ASSUME Typed, NEW p \in Process, PublishOne(p), NEW n \in Node, NEW k,
           IsSent(k, n)', ~IsSent(k, n)
    PROVE  /\ pc[p].at = "publish" /\ k \in pc[p].msgs
           /\ n = session[k.sess].node
    <1> USE DEF Typed
    <1>1. pc[p].at = "publish"
        BY DEF PublishOne
    <1>2. PICK m \in pc[p].msgs :
              \/ /\ delayed' = [delayed EXCEPT ![session[m.sess].node] =
                                                   @ \cup {m}]
                 /\ UNCHANGED queue
              \/ /\ queue' = [queue EXCEPT ![session[m.sess].node] =
                                               Append(@, m)]
                 /\ UNCHANGED delayed
        BY DEF PublishOne
    <1> DEFINE to == session[m.sess].node
    <1>3. m \in Message /\ m.sess \in Sessions
        BY <1>1, <1>2, ContinuationFields
    <1>4. to \in Node
        BY <1>3 DEF DbOK, IsTable, Sessions, SessionRow
    <1>q. queue[to] \in Seq(Message) /\ queue[n] \in Seq(Message)
        BY <1>4 DEF CeleryOK
    <1> HIDE DEF to
    <1>5. CASE /\ delayed' = [delayed EXCEPT ![to] = @ \cup {m}]
               /\ UNCHANGED queue
        <2>1. k = m /\ n = to
            BY <1>5, <1>4 DEF IsSent, CeleryOK
        <2> QED BY <2>1, <1>1, <1>2 DEF to
    <1>6. CASE /\ queue' = [queue EXCEPT ![to] = Append(@, m)]
               /\ UNCHANGED delayed
        <2>1. PICK i \in DOMAIN queue'[n] : queue'[n][i] = k
            BY <1>6 DEF IsSent
        <2>2. n = to
            BY <1>6, <1>4, <2>1 DEF IsSent, CeleryOK
        <2>3. queue'[n] = Append(queue[n], m)
            BY <1>6, <1>4, <2>2 DEF CeleryOK
        <2>4. (i \in DOMAIN queue[n] /\ queue'[n][i] = queue[n][i]) \/ k = m
            BY <2>1, <2>3, <1>q, <1>3
        <2>5. k = m
            BY <2>1, <2>4 DEF IsSent
        <2> QED BY <2>2, <2>5, <1>1, <1>2 DEF to
    <1> QED BY <1>2, <1>5, <1>6 DEF to
-------------------------------------------------------------------------------
(***************************************************************************)
(* What a step continues with.                                             *)
(***************************************************************************)
\* What process p may be left with: it still publishes what it had to, closes
\* only sessions that are closing now, and reports that a session waits only
\* if it has its browser and was asked about it.
Follows(p, k) ==
    /\ k.at = "publish" =>
          \A m \in k.msgs : m.kind = "close" =>
              \/ pc[p].at = "publish" /\ m \in pc[p].msgs
              \/ m.sess \in Sessions /\ session'[m.sess].status = "closing"
    /\ k.at = "status" /\ k.status \in Checkable =>
          /\ p \in Worker /\ k.sess \in browsers'[p]
          /\ \E m : IsSent(m, Runs[p]) /\ m.sess = k.sess

LEMMA FollowsNext ==
    ASSUME JobInv, [Next]_vars
    PROVE  \/ UNCHANGED pc
           \/ \E p \in Process : \E k :
                 pc' = [pc EXCEPT ![p] = k] /\ Follows(p, k)
    <1> DEFINE Done == \E p \in Process : \E k :
                           pc' = [pc EXCEPT ![p] = k] /\ Follows(p, k)
    <1>p. /\ Observer \cup Worker \subseteq Process /\ Admin \in Process
          /\ PcOK /\ CeleryOK /\ DbOK
          /\ \A p \in Worker : Runs[p] \in Node
          /\ \A s \in Sessions : session[s] \in SessionRow
        BY CenterAssumption
           DEF Process, CenterAssumption, JobInv, SlotInv, Typed, DbOK,
               IsTable, Sessions
    <1>k. ASSUME NEW p \in Process, NEW k, k.at \notin {"publish", "status"},
                 pc' = [pc EXCEPT ![p] = k]
          PROVE  Done
        BY <1>k DEF Follows
    <1>g. ASSUME NEW p \in Process,
                 NEW label \in {"idle", "watching", "plan", "check", "closeAll"},
                 Go(p, label)
          PROVE  Done
        <2> DEFINE k == [at |-> label]
        <2>1. k.at \notin {"publish", "status"} /\ pc' = [pc EXCEPT ![p] = k]
            BY <1>g DEF Go
        <2> HIDE DEF k
        <2> QED BY <2>1, <1>k
    <1>m. ASSUME NEW p \in Process, NEW msgs,
                 NEW next \in {"idle", "watching", "check"},
                 ThenPublish(p, msgs, next),
                 \A m \in msgs : m.kind = "close" =>
                     \/ pc[p].at = "publish" /\ m \in pc[p].msgs
                     \/ m.sess \in Sessions /\ session'[m.sess].status = "closing"
          PROVE  Done
        <2>1. CASE msgs = {}
            BY <2>1, <1>m, <1>g DEF ThenPublish, Go
        <2>2. CASE msgs # {}
            <3> DEFINE k == [at |-> "publish", msgs |-> msgs, then |-> next]
            <3>1. pc' = [pc EXCEPT ![p] = k]
                BY <2>2, <1>m DEF ThenPublish
            <3>2. Follows(p, k)
                BY <1>m DEF Follows
            <3> HIDE DEF k
            <3> QED BY <3>1, <3>2
        <2> QED BY <2>1, <2>2
    <1>r. ASSUME NEW p \in Worker, NEW m \in Ready(p), Takes(p, m), NEW status,
                 ToReport(p, m.sess, status),
                 status \in Checkable => m.sess \in browsers'[p]
          PROVE  Done
        <2> DEFINE k == [at |-> "status", sess |-> m.sess, status |-> status]
        <2>1. IsSent(m, Runs[p])
            BY <1>r, <1>p, TakesSent
        <2>2. Follows(p, k)
            BY <2>1, <1>r DEF Follows
        <2>3. pc' = [pc EXCEPT ![p] = k]
            BY <1>r DEF ToReport
        <2> HIDE DEF k
        <2> QED BY <2>2, <2>3, <1>p
    <1>1. ASSUME NEW o \in Observer,
                 \/ OperatorObserve(o) \/ ObserveLive(o) \/ ObserveStillLive(o)
                 \/ ObserveNotLive(o)
          PROVE  Done
        BY <1>1, <1>g, <1>p DEF OperatorObserve, ObserveLive, ObserveStillLive,
                                ObserveNotLive
    <1>2. ASSUME NEW o \in Observer, PlanEntries(o)
          PROVE  Done
        <2>1. PICK k : /\ pc' = [pc EXCEPT ![o] = k]
                       /\ k.at \notin {"publish", "status"}
            BY <1>2 DEF PlanEntries, Go
        <2> QED BY <2>1, <1>k, <1>p
    <1>3. ASSUME NEW o \in Observer, ScheduleChecks(o)
          PROVE  Done
        <2> DEFINE open == {s \in ActiveOf(Watches[o]) :
                               /\ session[s].status \in Checkable
                               /\ nodeRow[session[s].node] = "online"}
                   msgs == {[kind |-> "check", sess |-> s] : s \in open}
        <2>1. ThenPublish(o, msgs, "watching")
            BY <1>3 DEF ScheduleChecks
        <2>2. \A m \in msgs : m.kind # "close"
            OBVIOUS
        <2> HIDE DEF msgs
        <2> QED BY <2>1, <2>2, <1>m, <1>p
    <1>4. ASSUME NEW o \in Observer, CloseSessions(o)
          PROVE  Done
        <2> DEFINE ending == {s \in ActiveOf(Watches[o]) :
                                 CloseDecision(session[s]) # "wait_for_sending"}
                   lost == {s \in ending :
                               \/ CloseDecision(session[s]) = "force_close"
                               \/ nodeRow[session[s].node] = "absent"}
                   told == ending \ lost
                   msgs == {[kind |-> "close", sess |-> s] : s \in told}
        <2>1. ThenPublish(o, msgs, "idle")
            BY <1>4 DEF CloseSessions
        <2>2. \A s \in told : s \in Sessions
            BY DEF ActiveOf
        <2>3. \A s \in told : session'[s] = WithStatus(session[s], "closing")
            BY <1>4, <2>2 DEF CloseSessions
        <2>4. ASSUME NEW s \in told
              PROVE  session'[s].status = "closing"
            <3>1. "closing" \in SessionStatus
                BY DEF SessionStatus, Active
            <3> HIDE DEF told
            <3> QED BY <3>1, <2>2, <2>3, <1>p, WithStatusIsRow
        <2> HIDE DEF told
        <2>5. \A m \in msgs : m.sess \in Sessions
                              /\ session'[m.sess].status = "closing"
            BY <2>2, <2>4
        <2> HIDE DEF msgs
        <2> QED BY <2>1, <2>5, <1>m, <1>p
    <1>5. ASSUME NEW p \in Process, InsertSessions(p)
          PROVE  Done
        <2>1. PICK new : ThenPublish(p, {[kind |-> "enter", sess |-> s] :
                                             s \in DOMAIN new},
                                     IF p \in Observer THEN "check" ELSE "idle")
            BY <1>5 DEF InsertSessions, Inserts
        <2> DEFINE msgs == {[kind |-> "enter", sess |-> s] : s \in DOMAIN new}
        <2>2. \A m \in msgs : m.kind # "close"
            OBVIOUS
        <2> HIDE DEF msgs
        <2> QED BY <2>1, <2>2, <1>m DEF msgs
    <1>6. ASSUME NEW p \in Process, PublishOne(p)
          PROVE  Done
        <2>1. /\ pc[p].at = "publish"
              /\ pc[p].then \in {"idle", "watching", "check"}
            BY <1>6, <1>p, ContinuationFields DEF PublishOne
        <2>2. PICK m \in pc[p].msgs :
                  ThenPublish(p, pc[p].msgs \ {m}, pc[p].then)
            BY <1>6 DEF PublishOne
        <2> QED BY <2>1, <2>2, <1>m
    <1>7. ASSUME ApproveAndDispatch
          PROVE  Done
        <2>1. PICK use, work : Batch(use, work)
            BY <1>7, ApproveIsBatch
        <2> DEFINE msgs == {[kind |-> "send", sess |-> use[work[j]],
                             job |-> j] : j \in DOMAIN work}
        <2>2. ThenPublish(Admin, msgs, "idle")
            BY <2>1 DEF Batch
        <2>3. \A m \in msgs : m.kind # "close"
            OBVIOUS
        <2> HIDE DEF msgs
        <2> QED BY <2>2, <2>3, <1>m, <1>p
    <1>8. ASSUME NEW p \in Worker, EnterLiveRoom(p)
          PROVE  Done
        <2>1. PICK m \in Ready(p) :
                  /\ Takes(p, m)
                  /\ OpenLiveRoom(p, m.sess) \/ ToReport(p, m.sess, "failed")
            BY <1>8 DEF EnterLiveRoom
        <2>2. ASSUME ToReport(p, m.sess, "failed")
              PROVE  Done
            BY <2>1, <2>2, <1>r DEF Checkable
        <2>3. ASSUME browsers' = [browsers EXCEPT ![p] = @ \cup {m.sess}],
                     ToReport(p, m.sess, "waiting")
              PROVE  Done
            <3>1. m.sess \in browsers'[p]
                BY <2>3, <1>p DEF DbOK
            <3> QED BY <3>1, <2>1, <2>3, <1>r
        <2> QED BY <2>1, <2>2, <2>3 DEF OpenLiveRoom
    <1>9. ASSUME NEW p \in Worker, CheckSession(p)
          PROVE  Done
        <2>1. PICK m \in Ready(p) :
                  /\ Takes(p, m)
                  /\ \E status \in Results(p, m.sess, "waiting", "lost") :
                        ToReport(p, m.sess, status)
            BY <1>9 DEF CheckSession
        <2>2. PICK status \in Results(p, m.sess, "waiting", "lost") :
                  ToReport(p, m.sess, status)
            BY <2>1
        <2>3. status \in Checkable => m.sess \in browsers'[p]
            BY <1>9 DEF Results, Checkable, CheckSession
        <2> QED BY <2>1, <2>2, <2>3, <1>r
    <1>10. ASSUME NEW p \in Worker, CloseSession(p)
           PROVE  Done
        <2>1. PICK m \in Ready(p) :
                  /\ Takes(p, m)
                  /\ \E status \in Results(p, m.sess, "closed", "lost") :
                        ToReport(p, m.sess, status)
            BY <1>10 DEF CloseSession
        <2>2. PICK status \in Results(p, m.sess, "closed", "lost") :
                  ToReport(p, m.sess, status)
            BY <2>1
        <2>3. status \notin Checkable
            BY DEF Results, Checkable
        <2> QED BY <2>1, <2>2, <2>3, <1>r
    <1>11. ASSUME NEW p \in Worker, SendComment(p)
           PROVE  Done
        <2>1. PICK m, outcome : ToReportResult(p, m.sess, m.job, outcome)
            BY <1>11 DEF SendComment
        <2> DEFINE k == [at |-> "result", sess |-> m.sess, job |-> m.job,
                         status |-> outcome]
        <2>2. k.at \notin {"publish", "status"} /\ pc' = [pc EXCEPT ![p] = k]
            BY <2>1 DEF ToReportResult
        <2> HIDE DEF k
        <2> QED BY <2>2, <1>k, <1>p
    <1>12. ASSUME NEW p \in Worker, ReportSessionStatus(p)
           PROVE  Done
        <2> DEFINE k == AfterReport(pc[p].sess, pc[p].status)
        <2>1. k.at \notin {"publish", "status"}
            BY DEF AfterReport
        <2>2. pc' = [pc EXCEPT ![p] = k] \/ Go(p, "idle")
            BY <1>12 DEF ReportSessionStatus
        <2> HIDE DEF k
        <2> QED BY <2>1, <2>2, <1>k, <1>g, <1>p
    <1>13. ASSUME NEW p \in Worker, RestartSession(p)
           PROVE  Done
        <2> DEFINE k == IF MayRestart(pc[p].sess)
                        THEN [at |-> "insert", rows |-> Restarts(pc[p].sess)]
                        ELSE [at |-> "idle"]
        <2>1. pc' = [pc EXCEPT ![p] = k] /\ k.at \notin {"publish", "status"}
            BY <1>13 DEF RestartSession
        <2> HIDE DEF k
        <2> QED BY <2>1, <1>k, <1>p
    <1>14. ASSUME NEW p \in Process,
                  ReportSendResult(p) \/ WorkerDies(p) \/ Abandon(p)
           PROVE  Done
        BY <1>14, <1>g DEF ReportSendResult, WorkerDies, Abandon
    <1> HIDE DEF Done
    <1>15. ASSUME NEW o \in Observer, ObserverStep(o)
           PROVE  Done
        BY <1>15, <1>1, <1>2, <1>3, <1>4 DEF ObserverStep
    <1>16. ASSUME NEW p \in Worker, WorkerStep(p) \/ WorkerDies(p)
           PROVE  Done
        <2>1. p \in Process
            BY <1>p
        <2> QED BY <2>1, <1>16, <1>8, <1>9, <1>10, <1>11, <1>12, <1>13, <1>14
                DEF WorkerStep
    <1>17. ASSUME NEW p \in Process,
                  InsertSessions(p) \/ PublishOne(p) \/ Abandon(p)
           PROVE  Done
        BY <1>17, <1>5, <1>6, <1>14
    <1>18. \/ UNCHANGED pc
           \/ ApproveAndDispatch
           \/ \E o \in Observer : ObserverStep(o)
           \/ \E p \in Worker : WorkerStep(p) \/ WorkerDies(p)
           \/ \E p \in Process :
                 InsertSessions(p) \/ PublishOne(p) \/ Abandon(p)
        BY DEF Next, vars, GenerateCandidate, Dismiss, EditTask, EditAccount,
               EditNode, CooldownEnds, WorkerHeartbeat, GraceElapses
    <1>19. UNCHANGED pc \/ Done
        BY <1>7, <1>15, <1>16, <1>17, <1>18
    <1> QED BY <1>19 DEF Done
-------------------------------------------------------------------------------
(***************************************************************************)
(* Browsers.                                                               *)
(*                                                                         *)
(* The argument: a session begins to wait with a report that its browser   *)
(* is open, made by the process that opened it, which serves the node the  *)
(* session was planned for because its tasks are published nowhere else.   *)
(* Until the report arrives, and as long as the session waits or sends,    *)
(* the browser stays: a process closes it only when it takes a "close",    *)
(* and the center asks for one only when the session is closing.           *)
(***************************************************************************)
Ending(s) == session[s].status \in {"closing"} \cup Terminal

\* What a node has been sent is for its own sessions, and closes only those
\* that are closing or have ended.
TasksAreRouted ==
    \A n \in Node : \A m : IsSent(m, n) =>
        /\ session[m.sess].node = n
        /\ m.kind = "close" => Ending(m.sess)

ClosesAreMeant ==
    \A p \in Process : pc[p].at = "publish" =>
        \A m \in pc[p].msgs : m.kind = "close" => Ending(m.sess)

ReportsAreSeen ==
    \A p \in Worker : pc[p].at = "status" /\ pc[p].status \in Checkable =>
        /\ pc[p].sess \in browsers[p]
        /\ Runs[p] = session[pc[p].sess].node

BrowserInv ==
    /\ JobInv /\ TasksAreRouted /\ ClosesAreMeant /\ ReportsAreSeen
    /\ WaitingSessionHasBrowser

\* What was sent names a session of the table.
LEMMA SentExist ==
    ASSUME CeleryOK
    PROVE  \A n \in Node : \A m : IsSent(m, n) => m.sess \in Sessions
    BY DEF CeleryOK, QueuedExist, IsSent

\* A session keeps its node, and its end is not taken back.
LEMMA EndingStays ==
    ASSUME JobInv, [Next]_vars
    PROVE  \A s \in Sessions : /\ s \in Sessions'
                               /\ session'[s].node = session[s].node
                               /\ Ending(s) => Ending(s)'
    <1>1. \A s \in Sessions : /\ s \in Sessions'
                              /\ session'[s].node = session[s].node
                              /\ IsTerminal(s) => session'[s].status \in Terminal
        BY RowsAreKept DEF RowsStay
    <1>2. \A s \in Sessions :
              session[s].status = "closing" =>
                  session'[s].status \in {"closing"} \cup Terminal
        BY ClosingStep DEF ClosingEnds
    <1> QED BY <1>1, <1>2 DEF Ending, IsTerminal

\* What a node is sent was sent to it before or is published now.
LEMMA SentNext ==
    ASSUME JobInv, [Next]_vars, NEW n \in Node, NEW m, IsSent(m, n)',
           ~IsSent(m, n)
    PROVE  \E p \in Process : /\ pc[p].at = "publish" /\ m \in pc[p].msgs
                              /\ n = session[m.sess].node
    <1>p. /\ Typed /\ CeleryOK /\ \A p \in Worker : Runs[p] \in Node
        BY CenterAssumption DEF CenterAssumption, JobInv, SlotInv, Typed
    <1>1. ASSUME UNCHANGED <<queue, delayed>> PROVE FALSE
        BY <1>1 DEF IsSent
    <1>2. ASSUME NEW p \in Worker, NEW k \in Ready(p), Takes(p, k)
          PROVE  FALSE
        BY <1>2, <1>p, TakesSent
    <1>3. ASSUME NEW p \in Worker, WorkerStep(p)
          PROVE  FALSE
        <2>1. \/ \E k \in Ready(p) : Takes(p, k)
              \/ UNCHANGED <<queue, delayed>>
            BY <1>3 DEF WorkerStep, EnterLiveRoom, SendComment, CheckSession,
                        CloseSession, ReportSessionStatus, RestartSession,
                        ReportSendResult, celery
        <2> QED BY <2>1, <1>1, <1>2
    <1>4. \/ \E p \in Process : PublishOne(p)
          \/ \E p \in Worker : WorkerStep(p)
          \/ UNCHANGED <<queue, delayed>>
        BY ApproveIsBatch
           DEF Next, vars, celery, ObserverStep, OperatorObserve, ObserveLive,
               ObserveStillLive, ObserveNotLive, PlanEntries, ScheduleChecks,
               CloseSessions, InsertSessions, Abandon, WorkerDies,
               GenerateCandidate, Dismiss, EditTask, EditAccount, EditNode,
               CooldownEnds, WorkerHeartbeat, GraceElapses, Batch
    <1> QED BY <1>1, <1>3, <1>4, <1>p, PublishedIsSent

\* A process loses a browser when it dies or takes its "close".
LEMMA BrowsersNext ==
    ASSUME JobInv, [Next]_vars, NEW p \in Worker, NEW s \in browsers[p],
           s \notin browsers'[p]
    PROVE  \/ WorkerDies(p)
           \/ /\ pc[p].at = "idle"
              /\ \E m : IsSent(m, Runs[p]) /\ m.kind = "close" /\ m.sess = s
    <1>p. /\ CeleryOK /\ \A q \in Worker : Runs[q] \in Node
          /\ browsers \in [Worker -> SUBSET SessionId]
        BY CenterAssumption
           DEF CenterAssumption, JobInv, SlotInv, Typed, DbOK
    <1>1. ASSUME NEW q \in Worker, WorkerDies(q)
          PROVE  WorkerDies(p)
        BY <1>1, <1>p DEF WorkerDies
    <1>2. ASSUME NEW q \in Worker, EnterLiveRoom(q)
          PROVE  FALSE
        BY <1>2, <1>p DEF EnterLiveRoom, OpenLiveRoom
    <1>3. ASSUME NEW q \in Worker, CloseSession(q)
          PROVE  /\ pc[p].at = "idle"
                 /\ \E m : IsSent(m, Runs[p]) /\ m.kind = "close" /\ m.sess = s
        <2>1. PICK m \in Ready(q) :
                  /\ m.kind = "close" /\ Takes(q, m)
                  /\ browsers' = [browsers EXCEPT ![q] = @ \ {m.sess}]
            BY <1>3 DEF CloseSession
        <2>2. q = p /\ m.sess = s
            BY <2>1, <1>p
        <2>3. pc[q].at = "idle" /\ IsSent(m, Runs[q])
            BY <2>1, <1>p, TakesSent DEF Takes
        <2> QED BY <2>1, <2>2, <2>3
    <1>4. \/ \E q \in Worker : WorkerDies(q) \/ EnterLiveRoom(q) \/ CloseSession(q)
          \/ UNCHANGED browsers
        BY DEF Next, vars, ObserverStep, OperatorObserve, ObserveLive,
               ObserveStillLive, ObserveNotLive, PlanEntries, ScheduleChecks,
               CloseSessions, InsertSessions, PublishOne, Abandon, WorkerStep,
               SendComment, CheckSession, ReportSessionStatus, RestartSession,
               ReportSendResult, GenerateCandidate, ApproveAndDispatch,
               Dismiss, EditTask, EditAccount, EditNode, CooldownEnds,
               WorkerHeartbeat, GraceElapses
    <1> QED BY <1>1, <1>2, <1>3, <1>4

\* A session that waits or sends did so before, or a worker has reported it.
LEMMA WaitingNext ==
    ASSUME JobInv, [Next]_vars, NEW s \in Sessions',
           session'[s].status \in Checkable
    PROVE  \/ s \in Sessions /\ session[s].status \in Checkable
           \/ \E p \in Worker : /\ pc[p].at = "status" /\ pc[p].sess = s
                                /\ pc[p].status \in Checkable
                                /\ UNCHANGED browsers
    <1> DEFINE Was == s \in Sessions /\ session[s].status \in Checkable
    <1>t. \A r \in Sessions : session[r] \in SessionRow
        BY DEF JobInv, SlotInv, Typed, DbOK, IsTable, Sessions
    <1>l. {"lost", "closing"} \subseteq SessionStatus \ Checkable
        BY DEF SessionStatus, Active, Terminal, Checkable
    <1>1. CASE UNCHANGED session
        BY <1>1 DEF Sessions
    <1>2. ASSUME NEW o \in Observer, CloseSessions(o)
          PROVE  Was
        <2>1. /\ s \in Sessions
              /\ \/ session'[s] = session[s]
                 \/ session'[s] = WithStatus(session[s], "lost")
                 \/ session'[s] = WithStatus(session[s], "closing")
            BY <1>2 DEF CloseSessions, Sessions
        <2>2. /\ WithStatus(session[s], "lost").status = "lost"
              /\ WithStatus(session[s], "closing").status = "closing"
            BY <2>1, <1>t, <1>l, WithStatusIsRow
        <2> QED BY <2>1, <2>2, <1>l
    <1>3. ASSUME NEW p \in Worker, ReportSessionStatus(p), ~Was
          PROVE  /\ pc[p].at = "status" /\ pc[p].sess = s
                 /\ pc[p].status \in Checkable /\ UNCHANGED browsers
        <2>1. /\ pc[p].at = "status" /\ UNCHANGED browsers
              /\ pc[p].sess \in Sessions /\ pc[p].status \in SessionStatus
            <3>1. p \in Process /\ PcOK
                BY DEF Process, JobInv, SlotInv, Typed
            <3> QED BY <3>1, <1>3, ContinuationFields DEF ReportSessionStatus
        <2>2. session' = [session EXCEPT ![pc[p].sess] =
                             WithStatus(@, pc[p].status)]
            BY <1>3 DEF ReportSessionStatus, Sessions
        <2>3. s = pc[p].sess
            BY <2>2, <1>3 DEF Sessions
        <2>4. session'[s].status = pc[p].status
            BY <2>1, <2>2, <2>3, <1>t, WithStatusIsRow DEF Sessions
        <2> QED BY <2>1, <2>3, <2>4
    <1>4. ASSUME NEW p \in Worker, ReportSendResult(p)
          PROVE  Was
        BY <1>4, ResultIsReported DEF Reported, ResultCounts, Checkable, Sessions
    <1>5. ASSUME ApproveAndDispatch
          PROVE  Was
        <2>1. PICK use, work : Batch(use, work)
            BY <1>5, ApproveIsBatch
        <2> QED BY <2>1 DEF Batch, Checkable
    <1>6. ASSUME NEW p \in Process, InsertSessions(p)
          PROVE  Was
        BY <1>6, InsertionsAreApart DEF JobInv, Checkable
    <1>7. ASSUME NEW r \in Sessions, GraceElapses(r)
          PROVE  Was
        <2>1. [session[r] EXCEPT !.sending = "overdue"].status =
                  session[r].status
            <3>1. session[r] \in SessionRow
                BY <1>t
            <3> QED BY <3>1 DEF SessionRow
        <2> QED BY <2>1, <1>7 DEF GraceElapses, Sessions
    <1> QED BY <1>1, <1>2, <1>3, <1>4, <1>5, <1>6, <1>7
            DEF Next, vars, db, ObserverStep, OperatorObserve, ObserveLive,
                ObserveStillLive, ObserveNotLive, PlanEntries, ScheduleChecks,
                WorkerStep, EnterLiveRoom, SendComment, CheckSession,
                CloseSession, RestartSession, WorkerDies, PublishOne, Abandon,
                GenerateCandidate, Dismiss, EditTask, EditAccount, EditNode,
                CooldownEnds, WorkerHeartbeat

LEMMA BrowserInit == Init => BrowserInv
    <1> SUFFICES ASSUME Init PROVE BrowserInv
        OBVIOUS
    <1>1. Sessions = {}
        BY DEF Init, Sessions
    <1>2. \A p \in Worker : pc[p].at = "idle"
        BY DEF Init, Process
    <1>3. \A p \in Process : pc[p].at = "idle"
        BY DEF Init
    <1>4. TasksAreRouted
        <2>1. CeleryOK
            BY JobInit DEF JobInv, SlotInv, Typed
        <2> QED BY <2>1, <1>1, SentExist DEF TasksAreRouted
    <1> QED BY <1>1, <1>2, <1>3, <1>4, JobInit
            DEF BrowserInv, ClosesAreMeant, ReportsAreSeen,
                WaitingSessionHasBrowser

LEMMA BrowserStep ==
    ASSUME BrowserInv, [Next]_vars,
           \A p \in Worker : WorkerDies(p) => browsers[p] = {}
    PROVE  BrowserInv'
    <1> USE DEF BrowserInv
    <1>p. /\ CeleryOK /\ PcOK /\ Worker \subseteq Process
          /\ \A p \in Worker : Runs[p] \in Node
          /\ pc \in [Process -> Continuation]
        BY CenterAssumption
           DEF CenterAssumption, JobInv, SlotInv, Typed, PcOK, Process
    <1>j. JobInv'
        BY JobStep
    <1>b. ASSUME NEW p \in Worker, NEW s \in browsers[p], s \notin browsers'[p]
          PROVE  Ending(s) /\ pc[p].at = "idle"
        <2>1. PICK m : /\ pc[p].at = "idle" /\ IsSent(m, Runs[p])
                       /\ m.kind = "close" /\ m.sess = s
            BY <1>b, BrowsersNext
        <2> QED BY <2>1, <1>p DEF TasksAreRouted
    <1>1. TasksAreRouted'
        <2> SUFFICES ASSUME NEW n \in Node, NEW m, IsSent(m, n)'
                     PROVE  /\ session'[m.sess].node = n
                            /\ m.kind = "close" => Ending(m.sess)'
            BY DEF TasksAreRouted
        <2>1. /\ m.sess \in Sessions
              /\ session[m.sess].node = n
              /\ m.kind = "close" => Ending(m.sess)
            <3>1. CASE IsSent(m, n)
                BY <3>1, <1>p, SentExist DEF TasksAreRouted
            <3>2. CASE ~IsSent(m, n)
                <4>1. PICK p \in Process : /\ pc[p].at = "publish"
                                           /\ m \in pc[p].msgs
                                           /\ n = session[m.sess].node
                    BY <3>2, SentNext
                <4>2. m.sess \in Sessions
                    BY <4>1, <1>p, ContinuationFields
                <4> QED BY <4>1, <4>2 DEF ClosesAreMeant
            <3> QED BY <3>1, <3>2
        <2> QED BY <2>1, EndingStays
    <1>2. ClosesAreMeant'
        <2> SUFFICES ASSUME NEW p \in Process, pc'[p].at = "publish",
                            NEW m \in pc'[p].msgs, m.kind = "close"
                     PROVE  Ending(m.sess)'
            BY DEF ClosesAreMeant
        <2>1. CASE pc[p].at = "publish" /\ m \in pc[p].msgs
            <3>1. m.sess \in Sessions /\ Ending(m.sess)
                BY <2>1, <1>p, ContinuationFields DEF ClosesAreMeant
            <3> QED BY <3>1, EndingStays
        <2>2. CASE ~(pc[p].at = "publish" /\ m \in pc[p].msgs)
            <3>1. PICK q \in Process : \E k :
                      pc' = [pc EXCEPT ![q] = k] /\ Follows(q, k)
                BY <2>2, FollowsNext
            <3>2. q = p /\ Follows(p, pc'[p])
                BY <3>1, <2>2, <1>p
            <3>3. session'[m.sess].status = "closing"
                BY <3>2, <2>2 DEF Follows
            <3> QED BY <3>3 DEF Ending
        <2> QED BY <2>1, <2>2
    <1>3. ReportsAreSeen'
        <2> SUFFICES ASSUME NEW p \in Worker, pc'[p].at = "status",
                            pc'[p].status \in Checkable
                     PROVE  /\ pc'[p].sess \in browsers'[p]
                            /\ Runs[p] = session'[pc'[p].sess].node
            BY DEF ReportsAreSeen
        <2>1. CASE pc'[p] = pc[p]
            <3>1. /\ pc[p].sess \in browsers[p]
                  /\ Runs[p] = session[pc[p].sess].node
                BY <2>1 DEF ReportsAreSeen
            <3>2. pc[p].sess \in Sessions
                BY <2>1, <1>p, ContinuationFields
            <3> QED BY <2>1, <3>1, <3>2, <1>b, EndingStays
        <2>2. CASE pc'[p] # pc[p]
            <3>1. PICK q \in Process : \E k :
                      pc' = [pc EXCEPT ![q] = k] /\ Follows(q, k)
                BY <2>2, FollowsNext
            <3>2. q = p /\ Follows(p, pc'[p])
                BY <3>1, <2>2, <1>p
            <3>3. /\ pc'[p].sess \in browsers'[p]
                  /\ \E m : IsSent(m, Runs[p]) /\ m.sess = pc'[p].sess
                BY <3>2 DEF Follows
            <3>4. /\ pc'[p].sess \in Sessions
                  /\ session[pc'[p].sess].node = Runs[p]
                BY <3>3, <1>p, SentExist DEF TasksAreRouted
            <3> QED BY <3>3, <3>4, EndingStays
        <2> QED BY <2>1, <2>2
    <1>4. WaitingSessionHasBrowser'
        <2> SUFFICES ASSUME NEW s \in Sessions', session'[s].status \in Checkable
                     PROVE  \E p \in Worker : /\ s \in browsers'[p]
                                              /\ Runs[p] = session'[s].node
            BY DEF WaitingSessionHasBrowser, Sessions
        <2>1. CASE s \in Sessions /\ session[s].status \in Checkable
            <3>1. PICK p \in Worker : s \in browsers[p]
                                      /\ Runs[p] = session[s].node
                BY <2>1 DEF WaitingSessionHasBrowser
            <3>2. ~Ending(s)
                BY <2>1 DEF Ending, Checkable, Terminal
            <3> QED BY <2>1, <3>1, <3>2, <1>b, EndingStays
        <2>2. ASSUME NEW p \in Worker, pc[p].at = "status", pc[p].sess = s,
                     pc[p].status \in Checkable, UNCHANGED browsers
              PROVE  \E q \in Worker : /\ s \in browsers'[q]
                                       /\ Runs[q] = session'[s].node
            <3>1. s \in browsers[p] /\ Runs[p] = session[s].node
                BY <2>2 DEF ReportsAreSeen
            <3>2. s \in Sessions
                BY <2>2, <1>p, ContinuationFields
            <3> QED BY <2>2, <3>1, <3>2, EndingStays
        <2> QED BY <2>1, <2>2, WaitingNext
    <1> QED BY <1>j, <1>1, <1>2, <1>3, <1>4

\* No pool process dies with a browser open.
DeathsSpareBrowsers ==
    [][\A p \in Worker : WorkerDies(p) => browsers[p] = {}]_vars

\* The center's picture of the browsers is right, with any number of tasks,
\* nodes and processes on each, with lost reports, restarts and rebuilds: a
\* session that waits or sends has its browser open on its node.  What can
\* make it wrong is one thing only, a process that dies with it.
THEOREM BrowsersStayOpen ==
    Spec /\ DeathsSpareBrowsers => []WaitingSessionHasBrowser
    <1>1. BrowserInv /\ [Next]_vars
              /\ [\A p \in Worker : WorkerDies(p) => browsers[p] = {}]_vars
              => BrowserInv'
        <2>1. CASE ~UNCHANGED vars
            BY <2>1, BrowserStep
        <2>2. CASE UNCHANGED vars
            <3> SUFFICES ASSUME BrowserInv PROVE BrowserInv'
                OBVIOUS
            <3>1. \A p \in Worker : ~(WorkerDies(p) /\ browsers[p] # {})
                <4> SUFFICES ASSUME NEW p \in Worker, WorkerDies(p)
                             PROVE  browsers[p] = {}
                    OBVIOUS
                <4>1. browsers \in [Worker -> SUBSET SessionId]
                    BY DEF BrowserInv, JobInv, SlotInv, Typed, DbOK
                <4> QED BY <4>1, <2>2 DEF WorkerDies, vars
            <3> QED BY <3>1, <2>2, BrowserStep
        <2> QED BY <2>1, <2>2
    <1>2. BrowserInv => WaitingSessionHasBrowser
        BY DEF BrowserInv
    <1> QED BY <1>1, <1>2, BrowserInit, PTL DEF Spec, DeathsSpareBrowsers

\* Where processes do not die, nothing else is needed.
THEOREM ReliableNodesHaveBrowsers ==
    ASSUME ~Unreliable
    PROVE  Spec => []WaitingSessionHasBrowser
    <1>1. [Next]_vars =>
              [\A p \in Worker : WorkerDies(p) => browsers[p] = {}]_vars
        BY DEF WorkerDies
    <1>2. Spec => DeathsSpareBrowsers
        BY <1>1, PTL DEF Spec, DeathsSpareBrowsers
    <1> QED BY <1>2, BrowsersStayOpen, PTL
===============================================================================
