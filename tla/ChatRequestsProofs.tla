------------------------- MODULE ChatRequestsProofs -------------------------
(***************************************************************************)
(* Proofs about ChatRequests, for any requests, accounts and costs and any *)
(* number of crashes.                                                      *)
(*                                                                         *)
(* The requests, the sweeper and the crashes only ever do to the tables    *)
(* what CreditLedger allows, so every theorem of CreditLedgerProofs holds  *)
(* here too.  The invariants that relate requests to the tables are then   *)
(* shown inductive on top of those.                                        *)
(***************************************************************************)
EXTENDS ChatRequests, TLAPS

Proved == INSTANCE CreditLedgerProofs

Early == {"new", "billing", "gate", "route", "reserve"}

----------------------------------------------------------------------------
(***************************************************************************)
(* Requests on their own                                                   *)
(***************************************************************************)

\* What the step a request is at says about the rest of it.
Shape(q, now) ==
    /\ q.pc # "new" => q.m >= 1 /\ q.m <= now
    /\ q.pc \in Early => q.hold = NoHold
    /\ q.pc \in Early \cup {"upstream", "release"} => ~q.answered
    /\ q.pc = "settle" => q.answered
    /\ IF q.answered THEN q.cost \in Costs ELSE q.cost = 0
    /\ q.pc \notin {"log", "done", "lost"} => q.charged = 0 /\ ~q.failed
    /\ q.charged # 0 => q.charged = q.cost
    /\ q.pc \in {"upstream", "settle", "release", "log"} => q.hold # NoHold

RequestsInv ==
    /\ req \in [Requests -> Request]
    /\ month \in Nat /\ month >= 1
    /\ \A r \in Requests : Shape(req[r], month)

\* One request moves on.
LEMMA RequestMoved ==
    ASSUME RequestsInv, NEW r \in Requests, NEW next \in Request,
           req' = [req EXCEPT ![r] = next], month' = month, Shape(next, month)
    PROVE  RequestsInv'
  BY DEF RequestsInv

\* The fields of a request agree with the step its handler is at.
LEMMA RequestShape ==
    ASSUME RequestsInv, NEW r \in Requests
    PROVE  req[r] \in Request /\ Shape(req[r], month)
  BY DEF RequestsInv

\* Goto keeps everything but the step.
LEMMA GotoMoves ==
    ASSUME RequestsInv, NEW r \in Requests, NEW pc, Goto(r, pc), month' = month,
           pc \in {"gate", "route", "reserve", "upstream", "release", "log", "done"},
           Shape([req[r] EXCEPT !.pc = pc], month)
    PROVE  RequestsInv'
  <1> DEFINE next == [req[r] EXCEPT !.pc = pc]
  <1>1. req' = [req EXCEPT ![r] = next]  BY DEF Goto
  <1>2. next \in Request  BY RequestShape DEF Request
  <1> HIDE DEF next
  <1>3. Shape(next, month)  BY DEF next
  <1> QED  BY <1>1, <1>2, <1>3, RequestMoved

\* No handler step moves the clock.
LEMMA HandlerMonth ==
    ASSUME NEW r, Handler(r) PROVE month' = month
  BY DEF Handler, Billing, CreditGate, Route, Reserve, UpstreamFails,
         UpstreamAnswers, Release, Settle, LogUsage, ledger,
         Ledger!applyMonthlyAllowance, Ledger!ReserveCredits,
         Ledger!ReleaseHold, Ledger!SettleHold

\* Every step of a handler keeps the shape of its request.
LEMMA HandlerShape ==
    ASSUME RequestsInv, NEW r \in Requests, Handler(r)
    PROVE  RequestsInv'
  <1> DEFINE q == req[r]
  <1>q. q \in Request /\ Shape(q, month)  BY RequestShape
  <1>m. month' = month  BY HandlerMonth
  <1>g. ASSUME NEW pc \in {"gate", "route", "reserve", "release", "done"}, Goto(r, pc),
               q.pc \in Early \cup {"upstream", "release", "log"},
               pc # "done" => q.pc \in Early \cup {"upstream"},
               pc = "release" => q.pc = "upstream",
               pc \in {"gate", "route", "reserve"} => q.pc \in Early \ {"new"},
               q.pc # "new"
        PROVE  RequestsInv'
    <2> DEFINE next == [q EXCEPT !.pc = pc]
    <2>1. /\ next.pc = pc /\ next.m = q.m /\ next.hold = q.hold
          /\ next.answered = q.answered /\ next.cost = q.cost
          /\ next.charged = q.charged /\ next.failed = q.failed
      BY <1>q DEF Request
    <2> HIDE DEF next
    <2>2. Shape(next, month)  BY <1>q, <1>g, <2>1 DEF Shape, Early
    <2> QED  BY <1>g, <1>m, <2>2, GotoMoves DEF next
  <1>1. CASE Billing(r)  BY <1>1, <1>g DEF Billing, Early
  <1>2. CASE CreditGate(r)  BY <1>2, <1>g DEF CreditGate, Early
  <1>3. CASE Route(r)  BY <1>3, <1>g DEF Route, Early
  <1>4. CASE UpstreamFails(r)  BY <1>4, <1>g DEF UpstreamFails, Early
  <1>5. CASE LogUsage(r)  BY <1>5, <1>g DEF LogUsage, Early
  <1>6. CASE Reserve(r)
    <2>1. ASSUME NEW id \in HoldIds,
                 req' = [req EXCEPT ![r].pc = "upstream", ![r].hold = id]
          PROVE  RequestsInv'
      <3> DEFINE next == [q EXCEPT !.pc = "upstream", !.hold = id]
      <3>1. req' = [req EXCEPT ![r] = next]  BY <2>1
      <3>2. /\ next \in Request /\ next.pc = "upstream" /\ next.m = q.m
            /\ next.hold = id /\ next.answered = q.answered /\ next.cost = q.cost
            /\ next.charged = q.charged /\ next.failed = q.failed
        BY <1>q DEF Request
      <3> HIDE DEF next
      <3>3. q.pc = "reserve"  BY <1>6 DEF Reserve
      <3>4. Shape(next, month)
        BY <1>q, <3>2, <3>3, NoHoldAssumption DEF Shape, Early
      <3> QED  BY <1>m, <3>1, <3>2, <3>4, RequestMoved
    <2> QED  BY <1>6, <1>g, <2>1 DEF Reserve, Early
  <1>7. CASE UpstreamAnswers(r)
    <2>1. PICK c \in Costs : req' = [req EXCEPT ![r].pc = "settle", ![r].cost = c,
                                                ![r].answered = TRUE]
      BY <1>7 DEF UpstreamAnswers
    <2> DEFINE next == [q EXCEPT !.pc = "settle", !.cost = c, !.answered = TRUE]
    <2>2. req' = [req EXCEPT ![r] = next]  BY <2>1
    <2>3. /\ next \in Request /\ next.pc = "settle" /\ next.m = q.m
          /\ next.hold = q.hold /\ next.answered = TRUE /\ next.cost = c
          /\ next.charged = q.charged /\ next.failed = q.failed
      BY <1>q DEF Request
    <2> HIDE DEF next
    <2>4. q.pc = "upstream"  BY <1>7 DEF UpstreamAnswers
    <2>5. Shape(next, month)  BY <1>q, <2>3, <2>4 DEF Shape, Early
    <2> QED  BY <1>m, <2>2, <2>3, <2>5, RequestMoved
  <1>8. CASE Release(r)
    <2>1. q.pc = "release"  BY <1>8 DEF Release
    <2>2. CASE Goto(r, "done")  BY <1>g, <2>1, <2>2
    <2>3. CASE Goto(r, "log")
      <3> DEFINE next == [q EXCEPT !.pc = "log"]
      <3>1. /\ next.pc = "log" /\ next.m = q.m /\ next.hold = q.hold
            /\ next.answered = q.answered /\ next.cost = q.cost
            /\ next.charged = q.charged /\ next.failed = q.failed
        BY <1>q DEF Request
      <3> HIDE DEF next
      <3>2. Shape(next, month)  BY <1>q, <2>1, <3>1 DEF Shape, Early
      <3> QED  BY <1>m, <2>3, <3>2, GotoMoves DEF next
    <2> QED  BY <1>8, <2>2, <2>3 DEF Release
  <1>9. CASE Settle(r)
    <2>1. q.pc = "settle"  BY <1>9 DEF Settle
    <2>2. ASSUME NEW charged \in {0, q.cost}, NEW failed \in BOOLEAN,
                 req' = [req EXCEPT ![r] = [q EXCEPT !.pc = "log", !.charged = charged,
                                                     !.failed = failed]]
          PROVE  RequestsInv'
      <3> DEFINE next == [q EXCEPT !.pc = "log", !.charged = charged, !.failed = failed]
      <3>1. charged \in Costs \cup {0}  BY <1>q DEF Request
      <3>2. /\ next \in Request /\ next.pc = "log" /\ next.m = q.m
            /\ next.hold = q.hold /\ next.answered = q.answered /\ next.cost = q.cost
            /\ next.charged = charged /\ next.failed = failed
        BY <1>q, <3>1 DEF Request
      <3>3. req' = [req EXCEPT ![r] = next]  BY <2>2
      <3> HIDE DEF next
      <3>4. Shape(next, month)  BY <1>q, <2>1, <3>2 DEF Shape, Early
      <3> QED  BY <1>m, <3>2, <3>3, <3>4, RequestMoved
    <2>3. q.charged = 0 /\ q.failed = FALSE
      BY <1>q, <2>1 DEF Shape, Request
    <2>4. CASE req' = [req EXCEPT ![r].pc = "log", ![r].charged = req[r].cost]
      <3>1. req' = [req EXCEPT ![r] = [q EXCEPT !.pc = "log", !.charged = q.cost,
                                                !.failed = FALSE]]
        BY <1>q, <2>3, <2>4 DEF Request, RequestsInv
      <3> QED  BY <2>2, <3>1
    <2>5. CASE req' = [req EXCEPT ![r].pc = "log", ![r].failed = TRUE]
      <3>1. req' = [req EXCEPT ![r] = [q EXCEPT !.pc = "log", !.charged = 0,
                                                !.failed = TRUE]]
        BY <1>q, <2>3, <2>5 DEF Request, RequestsInv
      <3> QED  BY <2>2, <3>1
    <2>6. CASE Goto(r, "log")
      <3>1. req' = [req EXCEPT ![r] = [q EXCEPT !.pc = "log", !.charged = 0,
                                                !.failed = FALSE]]
        BY <1>q, <2>3, <2>6 DEF Request, RequestsInv, Goto
      <3> QED  BY <2>2, <3>1
    <2> QED  BY <1>9, <2>4, <2>5, <2>6 DEF Settle
  <1> QED  BY <1>1, <1>2, <1>3, <1>4, <1>5, <1>6, <1>7, <1>8, <1>9 DEF Handler

\* Every step of the system keeps the shape of every request.
LEMMA RequestsKept == RequestsInv /\ [Next]_vars => RequestsInv'
  <1> SUFFICES ASSUME RequestsInv, [Next]_vars PROVE RequestsInv'  OBVIOUS
  <1>1. ASSUME NEW r \in Requests, Arrive(r) PROVE RequestsInv'
    <2> DEFINE q == req[r]
               next == [q EXCEPT !.pc = "billing", !.m = month]
    <2>1. /\ req' = [req EXCEPT ![r] = next] /\ month' = month /\ q.pc = "new"
      BY <1>1 DEF Arrive, ledger
    <2>2. q \in Request /\ Shape(q, month) /\ month \in Nat /\ month >= 1
      BY RequestShape DEF RequestsInv
    <2>3. /\ next \in Request /\ next.pc = "billing" /\ next.m = month
          /\ next.hold = q.hold /\ next.answered = q.answered /\ next.cost = q.cost
          /\ next.charged = q.charged /\ next.failed = q.failed
      BY <2>2 DEF Request
    <2> HIDE DEF next
    <2>4. Shape(next, month)  BY <2>1, <2>2, <2>3 DEF Shape, Early
    <2> QED  BY <2>1, <2>3, <2>4, RequestMoved
  <1>2. ASSUME NEW r \in Requests, Handler(r) PROVE RequestsInv'
    BY <1>2, HandlerShape
  <1>3. CASE Crash
    <2>1. ASSUME NEW r \in Requests PROVE req'[r] \in Request /\ Shape(req'[r], month)
      <3> DEFINE q == req[r]
                 next == [q EXCEPT !.pc = "lost"]
      <3>1. q \in Request /\ Shape(q, month)  BY RequestShape
      <3>2. /\ next \in Request /\ next.pc = "lost" /\ next.m = q.m
            /\ next.hold = q.hold /\ next.answered = q.answered /\ next.cost = q.cost
            /\ next.charged = q.charged /\ next.failed = q.failed
        BY <3>1 DEF Request
      <3>3. (q.pc # "new" /\ req'[r] = next) \/ req'[r] = q
        BY <1>3 DEF Crash, Active
      <3> HIDE DEF next
      <3>4. q.pc # "new" => Shape(next, month)
        BY <3>1, <3>2 DEF Shape, Early
      <3> QED  BY <3>1, <3>2, <3>3, <3>4
    <2>2. month' = month /\ req' \in [Requests -> Request]
      BY <1>3, <2>1 DEF Crash, ledger
    <2> QED  BY <2>1, <2>2 DEF RequestsInv
  <1>4. CASE Ledger!NewMonth /\ req' = req
    <2>1. month' = month + 1 /\ month \in Nat /\ month >= 1
      BY <1>4 DEF Ledger!NewMonth, RequestsInv
    <2>2. ASSUME NEW r \in Requests PROVE Shape(req[r], month')
      <3>1. req[r] \in Request /\ Shape(req[r], month)  BY RequestShape
      <3>2. req[r].m \in Nat  BY <3>1 DEF Request
      <3> QED  BY <2>1, <3>1, <3>2 DEF Shape
    <2> QED  BY <1>4, <2>1, <2>2 DEF RequestsInv
  <1>5. CASE req' = req /\ month' = month
    BY <1>5 DEF RequestsInv
  <1>6. (\E h \in HoldIds : Age(h)) \/ SweepSelect \/ SweepError
          \/ (\E h \in HoldIds : SweepRelease(h)) \/ Finished \/ UNCHANGED vars
            => req' = req /\ month' = month
    BY DEF Age, SweepSelect, SweepRelease, SweepError, Finished, vars, ledger,
           Ledger!ReleaseHold
  <1>7. Elsewhere => req' = req /\ (month' = month \/ Ledger!NewMonth)
    BY DEF Elsewhere, Ledger!AddCredits, Ledger!CleanupSettledHolds
  <1> QED  BY <1>1, <1>2, <1>3, <1>4, <1>5, <1>6, <1>7 DEF Next

\* The requests have their shape at the start.
LEMMA RequestsStart == Init => RequestsInv
  <1> SUFFICES ASSUME Init PROVE RequestsInv  OBVIOUS
  <1>1. month = 1  BY DEF Init, Ledger!Init
  <1>2. ASSUME NEW r \in Requests PROVE req[r] \in Request /\ Shape(req[r], month)
    <2>1. PICK a \in Accounts, v \in {"identity", "key"} :
            req[r] = [pc |-> "new", acct |-> a, via |-> v, m |-> 0,
                      hold |-> NoHold, answered |-> FALSE, cost |-> 0,
                      charged |-> 0, failed |-> FALSE]
      BY DEF Init
    <2> QED  BY <2>1 DEF Request, Shape, Early
  <1>3. req \in [Requests -> Request]  BY <1>2 DEF Init
  <1> QED  BY <1>1, <1>2, <1>3 DEF RequestsInv

----------------------------------------------------------------------------
(***************************************************************************)
(* The ledger below                                                        *)
(***************************************************************************)

\* A step of the request flow is a step of the ledger or leaves it alone.
LEMMA LedgerStep ==
    ASSUME RequestsInv, [Next]_vars PROVE [Ledger!Next]_ledger
  <1>1. ASSUME NEW r \in Requests, Handler(r) PROVE [Ledger!Next]_ledger
    <2> DEFINE q == req[r]
    <2>q. q \in Request /\ Shape(q, month) /\ month \in Nat
      BY RequestShape DEF RequestsInv
    <2>1. ASSUME NEW grant \in AllowanceAmounts, q.pc = "billing",
                 Ledger!applyMonthlyAllowance(q.acct, grant, q.m)
          PROVE  Ledger!Next
      <3>1. q.acct \in Accounts /\ q.m \in 1..month
        BY <2>q, <2>1 DEF Request, Shape
      <3> QED  BY <2>1, <3>1 DEF Ledger!Next
    <2>2. ASSUME NEW amount \in Costs, NEW id \in HoldIds,
                 Ledger!ReserveCredits(q.acct, amount, id)
          PROVE  Ledger!Next
      BY <2>q, <2>2 DEF Request, Ledger!Next
    <2>3. ASSUME Ledger!ReleaseHold(q.hold) PROVE Ledger!Next
      BY <2>3 DEF Ledger!Next, Ledger!ReleaseHold
    <2>4. ASSUME q.pc = "settle", Ledger!SettleHold(q.hold, q.cost) PROVE Ledger!Next
      <3>1. q.cost \in Costs /\ q.hold \in DOMAIN holds
        BY <2>q, <2>4 DEF Shape, Ledger!SettleHold
      <3> QED  BY <2>4, <3>1 DEF Ledger!Next
    <2> QED
      BY <1>1, <2>1, <2>2, <2>3, <2>4
      DEF Handler, Billing, CreditGate, Route, Reserve, UpstreamFails,
          UpstreamAnswers, Release, Settle, LogUsage
  <1>2. ASSUME NEW h \in HoldIds, SweepRelease(h) PROVE [Ledger!Next]_ledger
    <2>1. Ledger!ReleaseHold(h) => Ledger!Next
      BY DEF Ledger!Next, Ledger!ReleaseHold
    <2> QED  BY <1>2, <2>1 DEF SweepRelease, ledger
  <1>3. CASE Elsewhere
    BY <1>3 DEF Elsewhere, Ledger!Next
  <1>4. ((\E r \in Requests : Arrive(r)) \/ (\E h \in HoldIds : Age(h)) \/ SweepSelect
           \/ SweepError \/ Crash \/ Finished \/ UNCHANGED vars)
             => UNCHANGED ledger
    BY DEF Arrive, Age, SweepSelect, SweepError, Crash, Finished, vars
  <1> QED  BY <1>1, <1>2, <1>3, <1>4 DEF Next

\* Every behaviour of the request flow, with crashes, lost answers and the
\* sweeper, is one the credit store's specification allows.
THEOREM ImplementsLedger == Spec => Ledger!Spec
  <1>1. Init => Ledger!Init  BY DEF Init
  <1>2. RequestsInv /\ [Next]_vars => [Ledger!Next]_(Ledger!vars)
    <2>1. Ledger!vars = ledger  BY DEF Ledger!vars, ledger
    <2> QED  BY <2>1, LedgerStep DEF ledger, Ledger!vars
  <1> QED
    BY <1>1, <1>2, RequestsStart, RequestsKept, PTL DEF Spec, Ledger!Spec

\* The ledger the theorems of CreditLedgerProofs are about is this one.
LEMMA SameLedger == Ledger!Spec => Proved!Spec
  <1>1. Ledger!Init => Proved!Init  BY DEF Ledger!Init, Proved!Init
  <1>2. [Ledger!Next]_(Ledger!vars) => [Proved!Next]_(Proved!vars)
    BY DEF Ledger!Next, Proved!Next, Ledger!vars, Proved!vars,
           Ledger!AddCredits, Proved!AddCredits, Ledger!GrantRow, Proved!GrantRow,
           Ledger!ReserveCredits, Proved!ReserveCredits, Ledger!Affords, Proved!Affords,
           Ledger!BurnHoldId, Proved!BurnHoldId, Ledger!ToTicks, Proved!ToTicks,
           Ledger!SettleHold, Proved!SettleHold, Ledger!UsageRow, Proved!UsageRow,
           Ledger!ReleaseHold, Proved!ReleaseHold, Ledger!Exact, Proved!Exact,
           Ledger!CleanupSettledHolds, Proved!CleanupSettledHolds,
           Ledger!applyMonthlyAllowance, Proved!applyMonthlyAllowance,
           Ledger!AllowanceRow, Proved!AllowanceRow,
           Ledger!NewMonth, Proved!NewMonth
  <1> QED  BY <1>1, <1>2, PTL DEF Ledger!Spec, Proved!Spec

\* What the credit store promises holds below the request flow: the tables
\* are well typed, reservations are the pending holds, a hold is charged at
\* most once, the trail explains the balance, a month pays one allowance.
THEOREM LedgerKept ==
    Spec => [](/\ Ledger!TypeOK /\ Ledger!ReservedMatchesHolds
               /\ Ledger!ChargedOnce /\ Ledger!AuditTrail
               /\ Ledger!OneAllowancePerMonth)
  <1>1. Proved!Spec => []Proved!TypeOK
    BY Proved!TypeCorrect, LimitsAssumption, ManagedAssumption, NoHoldAssumption,
       CostsAssumption, GrantAssumption, AllowanceAssumption
  <1>2. Proved!Spec => []Proved!ReservedMatchesHolds
    BY Proved!ReservedCorrect, LimitsAssumption, ManagedAssumption, NoHoldAssumption,
       CostsAssumption, GrantAssumption, AllowanceAssumption
  <1>3. Proved!Spec => []Proved!ChargedOnce
    BY Proved!ChargedOnceCorrect, LimitsAssumption, ManagedAssumption,
       NoHoldAssumption, CostsAssumption, GrantAssumption, AllowanceAssumption
  <1>4. Proved!Spec => []Proved!AuditTrail
    BY Proved!AuditTrailCorrect, LimitsAssumption, ManagedAssumption,
       NoHoldAssumption, CostsAssumption, GrantAssumption, AllowanceAssumption
  <1>5. Proved!Spec => []Proved!OneAllowancePerMonth
    BY Proved!AllowanceCorrect, LimitsAssumption, ManagedAssumption, NoHoldAssumption,
       CostsAssumption, GrantAssumption, AllowanceAssumption
  <1>6. Proved!TypeOK => Ledger!TypeOK
    BY DEF Proved!TypeOK, Ledger!TypeOK, Proved!HoldRow, Ledger!HoldRow,
           Proved!HoldStatus, Ledger!HoldStatus, Proved!TxnRow, Ledger!TxnRow,
           Proved!TxnType, Ledger!TxnType
  <1>7. Proved!ReservedMatchesHolds => Ledger!ReservedMatchesHolds
    <2>1. ASSUME NEW S PROVE Ledger!IsFiniteSet(S) <=> Proved!IsFiniteSet(S)
      BY DEF Ledger!IsFiniteSet, Proved!IsFiniteSet
    <2>2. ASSUME NEW S PROVE Ledger!Cardinality(S) = Proved!Cardinality(S)
      BY DEF Ledger!Cardinality, Proved!Cardinality
    <2>3. ASSUME NEW a PROVE Ledger!PendingTicks(a) = Proved!PendingTicks(a)
      BY DEF Proved!PendingTicks, Ledger!PendingTicks, Proved!Pending, Ledger!Pending
    <2> QED
      BY <2>1, <2>2, <2>3 DEF Proved!ReservedMatchesHolds, Ledger!ReservedMatchesHolds
  <1>8. Proved!ChargedOnce => Ledger!ChargedOnce
    BY DEF Proved!ChargedOnce, Ledger!ChargedOnce
  <1>9. Proved!AuditTrail => Ledger!AuditTrail
    BY DEF Proved!AuditTrail, Ledger!AuditTrail, Proved!BalanceBefore,
           Ledger!BalanceBefore
  <1>10. Proved!OneAllowancePerMonth => Ledger!OneAllowancePerMonth
    BY DEF Proved!OneAllowancePerMonth, Ledger!OneAllowancePerMonth
  <1> QED
    BY <1>1, <1>2, <1>3, <1>4, <1>5, <1>6, <1>7, <1>8, <1>9, <1>10,
       ImplementsLedger, SameLedger, PTL

----------------------------------------------------------------------------
(***************************************************************************)
(* Requests and their holds                                                *)
(***************************************************************************)

LedgerInv == Ledger!TypeOK /\ Ledger!ChargedOnce

\* What the proofs below use of the ledger.
LEMMA LedgerFacts ==
    ASSUME LedgerInv
    PROVE  /\ used \subseteq HoldIds /\ DOMAIN holds \subseteq used
           /\ \A h \in DOMAIN holds : holds[h].account_id \in Accounts
           /\ txns \in [Accounts -> Seq(TxnRow)]
           /\ balance \in [Accounts -> Int] /\ allowance_period \in [Accounts -> Nat]
           /\ \A a \in Accounts : \A i \in DOMAIN txns[a] :
                txns[a][i].type = "usage" => txns[a][i].reference_id \in used
  <1>1. holds \in [DOMAIN holds -> Ledger!HoldRow]
    BY DEF LedgerInv, Ledger!TypeOK
  <1>2. \A h \in DOMAIN holds : holds[h].account_id \in Accounts
    BY <1>1 DEF Ledger!HoldRow
  <1>3. Ledger!TxnRow = TxnRow
    BY DEF Ledger!TxnRow, TxnRow, Ledger!TxnType, TxnType
  <1>4. txns \in [Accounts -> Seq(TxnRow)]  BY <1>3 DEF LedgerInv, Ledger!TypeOK
  <1>5. \A a \in Accounts : \A i \in DOMAIN txns[a] :
           txns[a][i].type = "usage" => txns[a][i].reference_id \in used
    BY DEF LedgerInv, Ledger!ChargedOnce
  <1> QED  BY <1>2, <1>4, <1>5 DEF LedgerInv, Ledger!TypeOK

Held(h) == h \in DOMAIN holds /\ holds[h].status = "pending"

\* A request whose hold no usage row may name: it has not settled, or its
\* settlement found nothing to charge and did not fail.
Unpaid(q) ==
    \/ q.pc \in Early \cup {"upstream", "release", "settle"}
    \/ q.pc \in {"log", "done"} /\ ~q.failed /\ q.charged = 0 /\ q.cost # 0

\* How a request stands with the ledger.  Its hold is of its account; until it
\* gives the hold back, the hold is pending or the sweeper took it; a charge
\* it was told of is in the trail; an answer it was told nothing bad about was
\* charged or its hold swept; its month's allowance was granted.
BillInv(r) ==
    LET q == req[r]
    IN  /\ q.hold \in used \cup {NoHold}
        /\ q.hold \in DOMAIN holds => holds[q.hold].account_id = q.acct
        /\ q.pc \in {"upstream", "release", "settle"} => Held(q.hold) \/ q.hold \in swept
        /\ Unpaid(q) => Charges(r) = {}
        /\ q.charged # 0 => \E i \in Charges(r) : txns[q.acct][i].amount = ToTicks(-q.charged)
        /\ (q.answered /\ q.pc \in {"log", "done"} /\ ~q.failed)
             => Charges(r) # {} \/ q.hold \in swept
        /\ (q.via = "identity"
            /\ q.pc \in {"gate", "route", "reserve", "upstream", "settle"})
             => allowance_period[q.acct] >= q.m

\* Rows are only added to a trail.
RowsKept ==
    \A a \in Accounts : \A i \in DOMAIN txns[a] :
        i \in DOMAIN txns'[a] /\ txns'[a][i] = txns[a][i]

\* What a step may do to the tables behind the back of request r.
Env(r) ==
    LET h == req[r].hold
        a == req[r].acct
    IN  /\ used \subseteq used' /\ swept \subseteq swept' /\ RowsKept
        /\ h \in DOMAIN holds' =>
              h \in DOMAIN holds /\ holds'[h].account_id = holds[h].account_id
        /\ Held(h) => \/ h \in DOMAIN holds' /\ holds'[h].status = "pending"
                      \/ h \in swept'
        /\ \A i \in DOMAIN txns'[a] :
              txns'[a][i].type = "usage" /\ txns'[a][i].reference_id = h
                => i \in DOMAIN txns[a]
        /\ allowance_period'[a] >= allowance_period[a]

\* A step elsewhere leaves the charges of a request as they are.
LEMMA EnvCharges ==
    ASSUME NEW r \in Requests, req[r].acct \in Accounts, Env(r),
           req'[r].acct = req[r].acct, req'[r].hold = req[r].hold
    PROVE  /\ Charges(r)' = Charges(r)
           /\ \A i \in Charges(r) : txns'[req[r].acct][i] = txns[req[r].acct][i]
  BY DEF Env, RowsKept, Charges

\* The environment moves, and request r may move on with its hold.
LEMMA Moved ==
    ASSUME NEW r \in Requests, LedgerInv, LedgerInv', BillInv(r), Env(r),
           req[r] \in Request, req'[r] \in Request,
           req'[r].acct = req[r].acct, req'[r].hold = req[r].hold,
           req'[r].via = req[r].via,
           req'[r].m = req[r].m \/ req'[r].pc = "billing",
           req'[r].charged = req[r].charged,
           req'[r].pc \in {"upstream", "release", "settle"}
             => req[r].pc \in {"upstream", "release", "settle"},
           Unpaid(req'[r]) => Unpaid(req[r]),
           (req'[r].answered /\ req'[r].pc \in {"log", "done"} /\ ~req'[r].failed)
             => \/ req[r].answered /\ req[r].pc \in {"log", "done"} /\ ~req[r].failed
                \/ req[r].hold \in swept,
           (req'[r].via = "identity"
              /\ req'[r].pc \in {"gate", "route", "reserve", "upstream", "settle"})
             => \/ req[r].pc \in {"gate", "route", "reserve", "upstream", "settle"}
                \/ allowance_period'[req[r].acct] >= req[r].m
    PROVE  BillInv(r)'
  <1> DEFINE q == req[r]
             n == req'[r]
  <1>a. q.acct \in Accounts /\ q.m \in Nat  BY DEF Request
  <1>c. Charges(r)' = Charges(r)
        /\ \A i \in Charges(r) : txns'[q.acct][i] = txns[q.acct][i]
    BY <1>a, EnvCharges
  <1>p. /\ allowance_period[q.acct] \in Nat /\ allowance_period'[q.acct] \in Nat
    BY <1>a DEF LedgerInv, Ledger!TypeOK
  <1>1. n.hold \in used' \cup {NoHold}  BY DEF BillInv, Env
  <1>2. n.hold \in DOMAIN holds' => holds'[n.hold].account_id = n.acct
    BY DEF BillInv, Env
  <1>3. n.pc \in {"upstream", "release", "settle"} => Held(req[r].hold)' \/ n.hold \in swept'
    BY DEF BillInv, Env, Held
  <1>4. Unpaid(n) => Charges(r)' = {}  BY <1>c DEF BillInv
  <1>5. n.charged # 0 =>
          \E i \in Charges(r)' : txns'[n.acct][i].amount = ToTicks(-n.charged)
    BY <1>c DEF BillInv
  <1>6. (n.answered /\ n.pc \in {"log", "done"} /\ ~n.failed)
           => Charges(r)' # {} \/ n.hold \in swept'
    BY <1>c DEF BillInv, Env
  <1>7. (n.via = "identity"
           /\ n.pc \in {"gate", "route", "reserve", "upstream", "settle"})
           => allowance_period'[n.acct] >= n.m
    <2>1. allowance_period'[q.acct] >= allowance_period[q.acct]  BY DEF Env
    <2>2. q.via = "identity"
            /\ q.pc \in {"gate", "route", "reserve", "upstream", "settle"}
              => allowance_period[q.acct] >= q.m
      BY DEF BillInv
    <2> QED  BY <1>a, <1>p, <2>1, <2>2
  <1> QED  BY <1>1, <1>2, <1>3, <1>4, <1>5, <1>6, <1>7 DEF BillInv, Unpaid

\* A trail after one more row.
LEMMA RowAppended ==
    ASSUME NEW s \in Seq(TxnRow), NEW row
    PROVE  /\ Len(s) \in Nat /\ DOMAIN s = 1..Len(s)
           /\ DOMAIN Append(s, row) = 1..(Len(s) + 1)
           /\ Append(s, row)[Len(s) + 1] = row
           /\ \A i \in 1..Len(s) : Append(s, row)[i] = s[i]
  OBVIOUS

\* An appended audit row is the only new row of the trail.
LEMMA TrailGrows ==
    ASSUME LedgerInv, NEW a \in Accounts, NEW row, txns'[a] = Append(txns[a], row),
           \A b \in Accounts : b # a => txns'[b] = txns[b]
    PROVE  /\ RowsKept
           /\ \A b \in Accounts : \A i \in DOMAIN txns'[b] :
                \/ i \in DOMAIN txns[b]
                \/ b = a /\ txns'[b][i] = row
           /\ \E i \in DOMAIN txns'[a] : txns'[a][i] = row
  <1>1. txns \in [Accounts -> Seq(TxnRow)]  BY LedgerFacts
  <1>2. \A b \in Accounts : b # a => txns'[b] = txns[b]  OBVIOUS
  <1>3. txns'[a] = Append(txns[a], row) /\ txns[a] \in Seq(TxnRow)  BY <1>1
  <1>4. /\ Len(txns[a]) \in Nat /\ DOMAIN txns[a] = 1..Len(txns[a])
        /\ DOMAIN txns'[a] = 1..(Len(txns[a]) + 1)
        /\ txns'[a][Len(txns[a]) + 1] = row
        /\ \A i \in 1..Len(txns[a]) : txns'[a][i] = txns[a][i]
    BY <1>3, RowAppended
  <1>5. RowsKept  BY <1>2, <1>4 DEF RowsKept
  <1>6. ASSUME NEW b \in Accounts, NEW i \in DOMAIN txns'[b]
        PROVE  i \in DOMAIN txns[b] \/ (b = a /\ txns'[b][i] = row)
    <2>1. CASE b = a
      <3>1. i \in 1..Len(txns[a]) \/ i = Len(txns[a]) + 1  BY <1>4, <2>1
      <3> QED  BY <1>4, <2>1, <3>1
    <2>2. CASE b # a  BY <1>2, <2>2
    <2> QED  BY <2>1, <2>2
  <1>7. \E i \in DOMAIN txns'[a] : txns'[a][i] = row  BY <1>4
  <1> QED  BY <1>5, <1>6, <1>7

\* No request sees more of these than Env.
LEMMA EnvQuiet ==
    ASSUME LedgerInv, NEW r \in Requests, req[r] \in Request,
           UNCHANGED ledger, swept \subseteq swept'
    PROVE  Env(r)
  <1>1. allowance_period[req[r].acct] \in Nat
    BY LedgerFacts DEF Request
  <1> QED  BY <1>1 DEF Env, RowsKept, Held, ledger

\* A monthly allowance charges nobody and touches no hold.
LEMMA EnvAllowance ==
    ASSUME LedgerInv, LedgerInv', NEW a \in Accounts, NEW grant, NEW m \in Nat,
           Ledger!applyMonthlyAllowance(a, grant, m), swept' = swept,
           NEW r \in Requests, req[r] \in Request
    PROVE  Env(r)
  <1>1. /\ allowance_period[a] < m
        /\ allowance_period' = [allowance_period EXCEPT ![a] = m]
        /\ UNCHANGED <<holds, used>>
    BY DEF Ledger!applyMonthlyAllowance
  <1>2. PICK row : /\ row = Ledger!AllowanceRow(grant, m)
                   /\ txns'[a] = Append(txns[a], row)
                   /\ \A b \in Accounts : b # a => txns'[b] = txns[b]
    BY LedgerFacts DEF Ledger!applyMonthlyAllowance
  <1>t. row.type # "usage"  BY <1>2 DEF Ledger!AllowanceRow
  <1>3. RowsKept /\ \A b \in Accounts : \A i \in DOMAIN txns'[b] :
                       txns'[b][i].type = "usage" => i \in DOMAIN txns[b]
    <2>1. RowsKept  BY <1>2, TrailGrows
    <2>2. \A b \in Accounts : \A i \in DOMAIN txns'[b] :
            i \in DOMAIN txns[b] \/ txns'[b][i] = row
      BY <1>2, TrailGrows
    <2> QED  BY <1>t, <2>1, <2>2
  <1>4. req[r].acct \in Accounts  BY DEF Request
  <1>5. allowance_period'[req[r].acct] >= allowance_period[req[r].acct]
    <2>1. allowance_period \in [Accounts -> Nat]  BY LedgerFacts
    <2> QED  BY <1>1, <1>4, <2>1
  <1> QED  BY <1>1, <1>3, <1>4, <1>5 DEF Env, Held

\* A grant charges nobody and touches no hold.
LEMMA EnvGrant ==
    ASSUME LedgerInv, NEW a \in Accounts, NEW amount,
           Ledger!AddCredits(a, amount), swept' = swept,
           NEW r \in Requests, req[r] \in Request
    PROVE  Env(r)
  <1>1. UNCHANGED <<holds, used, allowance_period>>  BY DEF Ledger!AddCredits
  <1>2. PICK row : /\ row = Ledger!GrantRow(amount,
                               Ledger!ToTicks(Ledger!Exact(balance[a]) + amount))
                   /\ txns'[a] = Append(txns[a], row)
                   /\ \A b \in Accounts : b # a => txns'[b] = txns[b]
    BY LedgerFacts DEF Ledger!AddCredits
  <1>t. row.type # "usage"  BY <1>2 DEF Ledger!GrantRow
  <1>3. RowsKept /\ \A b \in Accounts : \A i \in DOMAIN txns'[b] :
                       txns'[b][i].type = "usage" => i \in DOMAIN txns[b]
    <2>1. RowsKept  BY <1>2, TrailGrows
    <2>2. \A b \in Accounts : \A i \in DOMAIN txns'[b] :
            i \in DOMAIN txns[b] \/ txns'[b][i] = row
      BY <1>2, TrailGrows
    <2> QED  BY <1>t, <2>1, <2>2
  <1>4. req[r].acct \in Accounts  BY DEF Request
  <1>5. allowance_period[req[r].acct] \in Nat  BY <1>4, LedgerFacts
  <1> QED  BY <1>1, <1>3, <1>4, <1>5 DEF Env, Held

\* A reservation leaves the hold of every other request alone.
LEMMA EnvReserve ==
    ASSUME LedgerInv, NEW a, NEW amount, NEW id,
           Ledger!ReserveCredits(a, amount, id), swept' = swept,
           NEW r \in Requests, req[r] \in Request, BillInv(r)
    PROVE  Env(r)
  <1>1. /\ id \in HoldIds \ used /\ used' = used \cup {id}
        /\ holds' = [h \in DOMAIN holds \cup {id} |->
                       IF h = id THEN [account_id |-> a, amount |-> Ledger!ToTicks(amount),
                                       status |-> "pending"]
                                 ELSE holds[h]]
        /\ UNCHANGED <<allowance_period, txns>>
    BY DEF Ledger!ReserveCredits
  <1>2. req[r].hold # id  BY <1>1, NoHoldAssumption DEF BillInv
  <1>3. allowance_period[req[r].acct] \in Nat  BY LedgerFacts DEF Request
  <1> QED  BY <1>1, <1>2, <1>3 DEF Env, Held, RowsKept

\* Of a hold another request released, or the sweeper.
LEMMA EnvRelease ==
    ASSUME LedgerInv, NEW h, Ledger!ReleaseHold(h), swept \subseteq swept',
           NEW r \in Requests, req[r] \in Request, req[r].hold # h \/ h \in swept'
    PROVE  Env(r)
  <1>1. /\ h \in DOMAIN holds
        /\ holds' = [holds EXCEPT ![h].status = "released"]
        /\ UNCHANGED <<allowance_period, txns, used>>
    BY DEF Ledger!ReleaseHold
  <1>2. holds[h] \in Ledger!HoldRow  BY <1>1 DEF LedgerInv, Ledger!TypeOK
  <1>3. holds'[h].account_id = holds[h].account_id
    BY <1>1, <1>2 DEF Ledger!HoldRow
  <1>4. DOMAIN holds' = DOMAIN holds /\ \A x \in DOMAIN holds : x # h => holds'[x] = holds[x]
    BY <1>1
  <1>5. allowance_period[req[r].acct] \in Nat  BY LedgerFacts DEF Request
  <1> QED  BY <1>1, <1>3, <1>4, <1>5 DEF Env, Held, RowsKept

\* Cleanup deletes only holds that are settled or released.
LEMMA EnvCleanup ==
    ASSUME LedgerInv, NEW old \in SUBSET DOMAIN holds, Ledger!CleanupSettledHolds(old),
           swept' = swept, NEW r \in Requests, req[r] \in Request
    PROVE  Env(r)
  <1>1. /\ \A h \in old : holds[h].status \in {"settled", "released"}
        /\ holds' = [h \in DOMAIN holds \ old |-> holds[h]]
        /\ UNCHANGED <<allowance_period, txns, used>>
    BY DEF Ledger!CleanupSettledHolds
  <1>2. allowance_period[req[r].acct] \in Nat  BY LedgerFacts DEF Request
  <1> QED  BY <1>1, <1>2 DEF Env, Held, RowsKept

\* Of a hold another request settled.
LEMMA EnvSettle ==
    ASSUME LedgerInv, NEW h, NEW actual, Ledger!SettleHold(h, actual), swept' = swept,
           NEW r \in Requests, req[r] \in Request, req[r].hold # h
    PROVE  Env(r)
  <1>1. /\ h \in DOMAIN holds
        /\ holds' = [holds EXCEPT ![h].status = "settled"]
        /\ UNCHANGED <<used, allowance_period>>
    BY DEF Ledger!SettleHold
  <1> DEFINE Charge(a) == Ledger!UsageRow(h, actual,
                            Ledger!ToTicks(Ledger!Exact(balance[a]) - actual))
  <1>2. PICK a \in Accounts :
              /\ txns'[a] = Append(txns[a], Charge(a))
              /\ \A b \in Accounts : b # a => txns'[b] = txns[b]
    BY LedgerFacts DEF Ledger!SettleHold
  <1> DEFINE row == Charge(a)
  <1>3. row.reference_id = h  BY DEF Ledger!UsageRow
  <1>r. txns'[a] = Append(txns[a], row)  BY <1>2
  <1> HIDE DEF row, Charge
  <1>4. RowsKept /\ \A b \in Accounts : \A i \in DOMAIN txns'[b] :
                       \/ i \in DOMAIN txns[b]
                       \/ txns'[b][i].reference_id = h
    <2>1. RowsKept  BY <1>2, <1>r, TrailGrows
    <2>2. \A b \in Accounts : \A i \in DOMAIN txns'[b] :
            i \in DOMAIN txns[b] \/ txns'[b][i] = row
      BY <1>2, <1>r, TrailGrows
    <2> QED  BY <1>3, <2>1, <2>2
  <1>5. req[r].acct \in Accounts  BY DEF Request
  <1>6. allowance_period[req[r].acct] \in Nat  BY <1>5, LedgerFacts
  <1>7. DOMAIN holds' = DOMAIN holds /\ \A x \in DOMAIN holds : x # h => holds'[x] = holds[x]
    BY <1>1
  <1> QED  BY <1>1, <1>4, <1>5, <1>6, <1>7 DEF Env, Held

Distinct ==
    \A r \in Requests : \A s \in Requests \ {r} :
        req[r].hold = NoHold \/ req[r].hold # req[s].hold

HoldsInv == Distinct /\ \A r \in Requests : BillInv(r)

\* A handler that moves on keeps everything but its step.
LEMMA GotoFields ==
    ASSUME RequestsInv, NEW r \in Requests, NEW pc, Goto(r, pc)
    PROVE  /\ req'[r].pc = pc /\ req'[r].acct = req[r].acct
           /\ req'[r].via = req[r].via /\ req'[r].m = req[r].m
           /\ req'[r].hold = req[r].hold /\ req'[r].answered = req[r].answered
           /\ req'[r].cost = req[r].cost /\ req'[r].charged = req[r].charged
           /\ req'[r].failed = req[r].failed
  <1>1. req[r] \in Request /\ req \in [Requests -> Request]  BY DEF RequestsInv
  <1> QED  BY <1>1 DEF Goto, Request

\* A handler's step touches neither the other requests nor the sweep.
LEMMA HandlerAlone ==
    ASSUME RequestsInv, NEW r \in Requests, Handler(r)
    PROVE  /\ \A s \in Requests \ {r} : req'[s] = req[s]
           /\ UNCHANGED <<stale, sweeping, swept, crashes>>
  BY DEF RequestsInv, Handler, Goto, Billing, CreditGate, Route, Reserve,
         UpstreamFails, UpstreamAnswers, Release, Settle, LogUsage

\* A request that ends without an answer.
LEMMA EndedUnanswered ==
    ASSUME NEW r \in Requests, RequestsInv, LedgerInv, BillInv(r), req'[r] \in Request,
           req'[r].hold = req[r].hold, req'[r].acct = req[r].acct,
           req'[r].pc \in {"log", "done", "lost"},
           ~req'[r].answered, req'[r].cost = 0, req'[r].charged = 0,
           used \subseteq used',
           req[r].hold \in DOMAIN holds' =>
              /\ req[r].hold \in DOMAIN holds
              /\ holds'[req[r].hold].account_id = holds[req[r].hold].account_id
    PROVE  BillInv(r)'
  BY DEF BillInv, Unpaid, Early

\* What a settlement leaves.
LEMMA SettledRow ==
    ASSUME LedgerInv, NEW h, NEW actual, Ledger!SettleHold(h, actual)
    PROVE  /\ h \in DOMAIN holds /\ DOMAIN holds' = DOMAIN holds
           /\ holds'[h].account_id = holds[h].account_id
           /\ used' = used
           /\ \E i \in DOMAIN txns'[holds[h].account_id] :
                LET row == txns'[holds[h].account_id][i]
                IN  /\ row.type = "usage" /\ row.reference_id = h
                    /\ row.amount = ToTicks(-actual)
  <1>1. /\ h \in DOMAIN holds /\ used' = used
        /\ holds' = [holds EXCEPT ![h].status = "settled"]
    BY DEF Ledger!SettleHold
  <1>2. holds[h] \in Ledger!HoldRow  BY <1>1 DEF LedgerInv, Ledger!TypeOK
  <1>3. holds'[h].account_id = holds[h].account_id /\ DOMAIN holds' = DOMAIN holds
    BY <1>1, <1>2 DEF Ledger!HoldRow
  <1> DEFINE Charge(a) == Ledger!UsageRow(h, actual,
                            Ledger!ToTicks(Ledger!Exact(balance[a]) - actual))
  <1>4. PICK a \in Accounts :
              /\ a = holds[h].account_id
              /\ txns'[a] = Append(txns[a], Charge(a))
              /\ \A b \in Accounts : b # a => txns'[b] = txns[b]
    BY LedgerFacts DEF Ledger!SettleHold
  <1> DEFINE row == Charge(a)
  <1>5. row.type = "usage" /\ row.reference_id = h /\ row.amount = ToTicks(-actual)
    BY DEF Ledger!UsageRow, Ledger!ToTicks, ToTicks
  <1>r. txns'[a] = Append(txns[a], row)  BY <1>4
  <1> HIDE DEF row, Charge
  <1>6. \E i \in DOMAIN txns'[a] : txns'[a][i] = row
    BY <1>4, <1>r, TrailGrows
  <1> QED  BY <1>1, <1>3, <1>4, <1>5, <1>6

\* What a handler's step does to the tables.
LEMMA HandlerLedger ==
    ASSUME RequestsInv, NEW r \in Requests, Handler(r)
    PROVE  \/ UNCHANGED ledger
           \/ /\ req[r].pc = "billing"
              /\ \E grant \in AllowanceAmounts :
                    Ledger!applyMonthlyAllowance(req[r].acct, grant, req[r].m)
           \/ /\ req[r].pc = "reserve"
              /\ \E amount \in Costs, id \in HoldIds :
                    Ledger!ReserveCredits(req[r].acct, amount, id)
           \/ Ledger!ReleaseHold(req[r].hold)
           \/ Ledger!SettleHold(req[r].hold, req[r].cost)
  BY DEF Handler, Billing, CreditGate, Route, Reserve, UpstreamFails,
         UpstreamAnswers, Release, Settle, LogUsage

\* The other requests.
LEMMA HandlerOthers ==
    ASSUME RequestsInv, LedgerInv, LedgerInv', HoldsInv,
           NEW r \in Requests, Handler(r), NEW s \in Requests \ {r}
    PROVE  BillInv(s)'
  <1>s. /\ s \in Requests /\ req[s] \in Request /\ BillInv(s) /\ req[r] \in Request
        /\ req'[s] = req[s] /\ swept' = swept
    BY HandlerAlone, RequestShape DEF HoldsInv
  <1>d. req[r].hold \in DOMAIN holds => req[s].hold # req[r].hold
    BY LedgerFacts, NoHoldAssumption DEF HoldsInv, Distinct
  <1>1. Env(s)
    <2>1. CASE UNCHANGED ledger  BY <1>s, <2>1, EnvQuiet
    <2>2. ASSUME NEW grant, Ledger!applyMonthlyAllowance(req[r].acct, grant, req[r].m)
          PROVE  Env(s)
      <3>1. PICK a \in Accounts, m \in Nat : a = req[r].acct /\ m = req[r].m
        BY <1>s DEF Request
      <3> QED  BY <1>s, <2>2, <3>1, EnvAllowance
    <2>3. ASSUME NEW amount, NEW id, Ledger!ReserveCredits(req[r].acct, amount, id)
          PROVE  Env(s)
      BY <1>s, <2>3, EnvReserve
    <2>4. CASE Ledger!ReleaseHold(req[r].hold)
      <3>1. req[r].hold \in DOMAIN holds  BY <2>4 DEF Ledger!ReleaseHold
      <3> QED  BY <1>s, <1>d, <2>4, <3>1, EnvRelease
    <2>5. CASE Ledger!SettleHold(req[r].hold, req[r].cost)
      <3>1. req[r].hold \in DOMAIN holds  BY <2>5 DEF Ledger!SettleHold
      <3> QED  BY <1>s, <1>d, <2>5, <3>1, EnvSettle
    <2> QED  BY <2>1, <2>2, <2>3, <2>4, <2>5, HandlerLedger
  <1> QED  BY <1>s, <1>1, Moved

\* The request itself.
LEMMA HandlerOwn ==
    ASSUME RequestsInv, RequestsInv', LedgerInv, LedgerInv', HoldsInv,
           NEW r \in Requests, Handler(r)
    PROVE  BillInv(r)'
  <1> DEFINE q == req[r]
             n == req'[r]
  <1>q. q \in Request /\ n \in Request /\ Shape(q, month) /\ BillInv(r) /\ swept' = swept
    BY HandlerAlone, RequestShape DEF HoldsInv, RequestsInv
  <1>e. UNCHANGED ledger => Env(r)  BY <1>q, EnvQuiet
  <1>f. q.answered \in BOOLEAN /\ q.failed \in BOOLEAN  BY <1>q DEF Request
  \* Ends without an answer.
  <1>g. ASSUME NEW pc \in {"log", "done"}, Goto(r, pc), UNCHANGED ledger, ~q.answered,
               q.charged = 0
        PROVE  BillInv(r)'
    <2>1. q.cost = 0  BY <1>q, <1>g DEF Shape
    <2> QED  BY <1>q, <1>g, <2>1, GotoFields, EndedUnanswered DEF ledger
  <1>1. CASE Billing(r)
    <2>1. q.pc = "billing" /\ ~q.answered /\ q.charged = 0
      BY <1>1, <1>q DEF Billing, Shape, Early
    <2>2. ASSUME NEW grant \in AllowanceAmounts,
                 Ledger!applyMonthlyAllowance(q.acct, grant, q.m), Goto(r, "gate")
          PROVE  BillInv(r)'
      <3>1. PICK a \in Accounts, m \in Nat : a = q.acct /\ m = q.m
        BY <1>q DEF Request
      <3>2. Env(r)  BY <1>q, <2>2, <3>1, EnvAllowance
      <3>3. allowance_period'[q.acct] >= q.m
        BY <2>2, <3>1, LedgerFacts DEF Ledger!applyMonthlyAllowance
      <3>4. /\ n.pc = "gate" /\ n.acct = q.acct /\ n.via = q.via /\ n.m = q.m
            /\ n.hold = q.hold /\ n.answered = q.answered /\ n.charged = q.charged
        BY <2>2, GotoFields
      <3> QED  BY <1>q, <2>1, <3>2, <3>3, <3>4, Moved DEF Unpaid, Early
    <2>3. ASSUME q.via = "identity" => allowance_period[q.acct] >= q.m,
                 Goto(r, "gate"), UNCHANGED ledger
          PROVE  BillInv(r)'
      <3>1. /\ n.pc = "gate" /\ n.acct = q.acct /\ n.via = q.via /\ n.m = q.m
            /\ n.hold = q.hold /\ n.answered = q.answered /\ n.charged = q.charged
        BY <2>3, GotoFields
      <3>2. allowance_period' = allowance_period  BY <2>3 DEF ledger
      <3> QED  BY <1>e, <1>q, <2>1, <2>3, <3>1, <3>2, Moved DEF Unpaid, Early
    <2> QED  BY <1>1, <1>g, <2>1, <2>2, <2>3 DEF Billing
  <1>2. CASE CreditGate(r) \/ Route(r)
    <2>1. /\ q.pc \in {"gate", "route"} /\ ~q.answered /\ q.charged = 0
          /\ UNCHANGED ledger
      BY <1>2, <1>q DEF CreditGate, Route, Shape, Early
    <2>2. CASE Goto(r, "done")  BY <1>g, <2>1, <2>2
    <2>3. ASSUME NEW pc \in {"route", "reserve"}, Goto(r, pc)
          PROVE  BillInv(r)'
      <3>1. /\ n.pc = pc /\ n.acct = q.acct /\ n.via = q.via /\ n.m = q.m
            /\ n.hold = q.hold /\ n.answered = q.answered /\ n.charged = q.charged
        BY <2>3, GotoFields
      <3> QED  BY <1>e, <1>q, <2>1, <2>3, <3>1, Moved DEF Unpaid, Early
    <2> QED  BY <1>2, <2>2, <2>3 DEF CreditGate, Route
  <1>3. CASE Reserve(r)
    <2>1. q.pc = "reserve" /\ ~q.answered /\ q.charged = 0 /\ q.cost = 0
          /\ q.hold = NoHold
      BY <1>3, <1>q DEF Reserve, Shape, Early
    <2>2. ASSUME NEW amount \in Costs, NEW id \in HoldIds,
                 Ledger!ReserveCredits(q.acct, amount, id), Goto(r, "done")
          PROVE  BillInv(r)'
      <3>1. Env(r)  BY <1>q, <2>2, EnvReserve
      <3> QED  BY <1>q, <2>1, <2>2, <3>1, GotoFields, EndedUnanswered DEF Env
    <2>3. ASSUME NEW amount \in Costs, NEW id \in HoldIds,
                 Ledger!ReserveCredits(q.acct, amount, id),
                 req' = [req EXCEPT ![r].pc = "upstream", ![r].hold = id]
          PROVE  BillInv(r)'
      <3>1. /\ n.pc = "upstream" /\ n.hold = id /\ n.acct = q.acct /\ n.via = q.via
            /\ n.m = q.m /\ n.answered = q.answered /\ n.charged = q.charged
        BY <1>q, <2>3 DEF RequestsInv, Request
      <3>2. /\ id \notin used /\ id \in used' /\ UNCHANGED <<allowance_period, txns>>
            /\ id \in DOMAIN holds' /\ holds'[id].account_id = q.acct
            /\ holds'[id].status = "pending"
        BY <2>3 DEF Ledger!ReserveCredits
      <3>3. q.acct \in Accounts  BY <1>q DEF Request
      <3>4. Charges(r)' = {}
        <4>1. \A i \in DOMAIN txns[q.acct] :
                ~(txns[q.acct][i].type = "usage" /\ txns[q.acct][i].reference_id = id)
          BY <3>2, <3>3, LedgerFacts
        <4> QED  BY <3>1, <3>2, <4>1 DEF Charges
      <3>5. q.via = "identity" => allowance_period[q.acct] >= q.m
        BY <1>q, <2>1 DEF BillInv
      <3> QED  BY <2>1, <3>1, <3>2, <3>4, <3>5 DEF BillInv, Held
    <2> QED  BY <1>3, <1>g, <2>1, <2>2, <2>3 DEF Reserve
  <1>4. CASE UpstreamFails(r)
    <2>1. q.pc = "upstream" /\ ~q.answered /\ Goto(r, "release") /\ UNCHANGED ledger
      BY <1>4, <1>q DEF UpstreamFails, Shape
    <2>2. /\ n.pc = "release" /\ n.acct = q.acct /\ n.via = q.via /\ n.m = q.m
          /\ n.hold = q.hold /\ n.answered = q.answered /\ n.charged = q.charged
      BY <2>1, GotoFields
    <2> QED  BY <1>e, <1>q, <2>1, <2>2, Moved DEF Unpaid, Early
  <1>5. CASE UpstreamAnswers(r)
    <2>1. /\ q.pc = "upstream" /\ UNCHANGED ledger
          /\ \E c \in Costs : req' = [req EXCEPT ![r].pc = "settle", ![r].cost = c,
                                                 ![r].answered = TRUE]
      BY <1>5 DEF UpstreamAnswers
    <2>2. /\ n.pc = "settle" /\ n.acct = q.acct /\ n.via = q.via /\ n.m = q.m
          /\ n.hold = q.hold /\ n.charged = q.charged
      BY <1>q, <2>1 DEF RequestsInv, Request
    <2> QED  BY <1>e, <1>q, <2>1, <2>2, Moved DEF Unpaid, Early
  <1>6. CASE Release(r)
    <2>1. q.pc = "release" /\ ~q.answered /\ q.charged = 0 /\ q.cost = 0
      BY <1>6, <1>q DEF Release, Shape
    <2>2. PICK pc \in {"log", "done"} : Goto(r, pc)  BY <1>6 DEF Release
    <2>3. CASE UNCHANGED ledger  BY <1>g, <2>1, <2>2, <2>3
    <2>4. CASE Ledger!ReleaseHold(q.hold)
      <3>1. /\ q.hold \in DOMAIN holds /\ used' = used
            /\ holds' = [holds EXCEPT ![q.hold].status = "released"]
        BY <2>4 DEF Ledger!ReleaseHold
      <3>2. holds[q.hold] \in Ledger!HoldRow  BY <3>1 DEF LedgerInv, Ledger!TypeOK
      <3>3. holds'[q.hold].account_id = holds[q.hold].account_id
        BY <3>1, <3>2 DEF Ledger!HoldRow
      <3> QED  BY <1>q, <2>1, <2>2, <3>1, <3>3, GotoFields, EndedUnanswered
    <2> QED  BY <1>6, <2>3, <2>4 DEF Release
  <1>7. CASE Settle(r)
    <2>1. /\ q.pc = "settle" /\ q.answered /\ q.charged = 0 /\ ~q.failed
          /\ q.cost \in Costs
      BY <1>7, <1>q DEF Settle, Shape
    <2>2. ASSUME Ledger!SettleHold(q.hold, q.cost),
                 \/ req' = [req EXCEPT ![r].pc = "log", ![r].charged = req[r].cost]
                 \/ req' = [req EXCEPT ![r].pc = "log", ![r].failed = TRUE]
          PROVE  BillInv(r)'
      <3>1. /\ n.pc = "log" /\ n.acct = q.acct /\ n.hold = q.hold /\ n.cost = q.cost
            /\ (n.charged = q.cost \/ (n.charged = 0 /\ n.failed))
        BY <1>q, <2>1, <2>2 DEF RequestsInv, Request
      <3>2. /\ q.hold \in DOMAIN holds /\ DOMAIN holds' = DOMAIN holds
            /\ holds'[q.hold].account_id = holds[q.hold].account_id /\ used' = used
            /\ \E i \in DOMAIN txns'[holds[q.hold].account_id] :
                 LET row == txns'[holds[q.hold].account_id][i]
                 IN  /\ row.type = "usage" /\ row.reference_id = q.hold
                     /\ row.amount = ToTicks(-q.cost)
        BY <2>2, SettledRow
      <3>3. holds[q.hold].account_id = q.acct  BY <1>q, <3>2 DEF BillInv
      <3>4. \E i \in Charges(r)' : txns'[q.acct][i].amount = ToTicks(-q.cost)
        BY <3>1, <3>2, <3>3 DEF Charges
      <3>5. q.hold \in used \cup {NoHold}  BY <1>q DEF BillInv
      <3>6. ~Unpaid(n)  BY <2>1, <3>1 DEF Unpaid, Early
      <3> HIDE DEF n
      <3>7. n = req'[r]  BY DEF n
      <3> QED  BY <3>1, <3>2, <3>3, <3>4, <3>5, <3>6, <3>7 DEF BillInv, Unpaid
    <2>3. ASSUME ~Held(q.hold), Goto(r, "log"), UNCHANGED ledger
          PROVE  BillInv(r)'
      <3>1. /\ n.pc = "log" /\ n.acct = q.acct /\ n.via = q.via /\ n.m = q.m
            /\ n.hold = q.hold /\ n.charged = q.charged
        BY <2>3, GotoFields
      <3>2. q.hold \in swept  BY <1>q, <2>1, <2>3 DEF BillInv
      <3> QED  BY <1>e, <1>q, <2>1, <2>3, <3>1, <3>2, Moved DEF Unpaid, Early
    <2>4. ASSUME req' = [req EXCEPT ![r].pc = "log", ![r].failed = TRUE],
                 UNCHANGED ledger
          PROVE  BillInv(r)'
      <3>1. /\ n.pc = "log" /\ n.acct = q.acct /\ n.via = q.via /\ n.m = q.m
            /\ n.hold = q.hold /\ n.charged = q.charged /\ n.failed
        BY <1>q, <2>4 DEF RequestsInv, Request
      <3> QED  BY <1>e, <1>q, <2>1, <2>4, <3>1, Moved DEF Unpaid, Early
    <2> QED  BY <1>7, <2>2, <2>3, <2>4 DEF Settle, Held
  <1>8. CASE LogUsage(r)
    <2>1. q.pc = "log" /\ Goto(r, "done") /\ UNCHANGED ledger  BY <1>8 DEF LogUsage
    <2>2. /\ n.pc = "done" /\ n.acct = q.acct /\ n.via = q.via /\ n.m = q.m
          /\ n.hold = q.hold /\ n.answered = q.answered /\ n.cost = q.cost
          /\ n.charged = q.charged /\ n.failed = q.failed
      BY <2>1, GotoFields
    <2> QED  BY <1>e, <1>q, <2>1, <2>2, Moved DEF Unpaid, Early
  <1> QED  BY <1>1, <1>2, <1>3, <1>4, <1>5, <1>6, <1>7, <1>8 DEF Handler

\* A hold, once a request has it, is the request's for good.  Only Reserve
\* gives one, and one that was never handed out.
LEMMA HandlerDistinct ==
    ASSUME RequestsInv, LedgerInv, HoldsInv, NEW r \in Requests, Handler(r)
    PROVE  Distinct'
  <1>1. \A s \in Requests \ {r} : req'[s] = req[s]  BY HandlerAlone
  <1>2. \/ req'[r].hold = req[r].hold
        \/ \E id \in HoldIds \ used : req'[r].hold = id
    <2>1. req[r] \in Request /\ req \in [Requests -> Request]  BY DEF RequestsInv
    <2>2. ASSUME NEW id \in HoldIds, id \notin used,
                 req' = [req EXCEPT ![r].pc = "upstream", ![r].hold = id]
          PROVE  req'[r].hold = id
      BY <2>1, <2>2 DEF Request
    <2>3. CASE Reserve(r)
      BY <2>2, <2>3, GotoFields DEF Reserve, Ledger!ReserveCredits
    <2>4. CASE UpstreamAnswers(r)
      BY <2>1, <2>4 DEF UpstreamAnswers, Request
    <2>5. CASE Settle(r)
      <3>1. \/ req' = [req EXCEPT ![r].pc = "log", ![r].charged = req[r].cost]
            \/ req' = [req EXCEPT ![r].pc = "log", ![r].failed = TRUE]
            \/ Goto(r, "log")
        BY <2>5 DEF Settle
      <3> QED  BY <2>1, <3>1 DEF Request, Goto
    <2>6. ASSUME NEW pc, Goto(r, pc) PROVE req'[r].hold = req[r].hold
      BY <2>6, GotoFields
    <2> QED
      BY <2>3, <2>4, <2>5, <2>6
      DEF Handler, Billing, CreditGate, Route, UpstreamFails, Release, LogUsage
  <1>3. \A s \in Requests : req[s].hold \in used \cup {NoHold}
    BY DEF HoldsInv, BillInv
  <1>4. ASSUME NEW s \in Requests, NEW u \in Requests \ {s}
        PROVE  req'[s].hold = NoHold \/ req'[s].hold # req'[u].hold
    <2>1. CASE s = r
      BY <1>1, <1>2, <1>3, <2>1, NoHoldAssumption DEF HoldsInv, Distinct
    <2>2. CASE u = r
      BY <1>1, <1>2, <1>3, <2>2, NoHoldAssumption DEF HoldsInv, Distinct
    <2>3. CASE s # r /\ u # r
      BY <1>1, <2>3 DEF HoldsInv, Distinct
    <2> QED  BY <2>1, <2>2, <2>3
  <1> QED  BY <1>4 DEF Distinct

\* Every step keeps what the requests rely on about their holds.
LEMMA HoldsKept ==
    RequestsInv /\ RequestsInv' /\ LedgerInv /\ LedgerInv' /\ HoldsInv /\ [Next]_vars
      => HoldsInv'
  <1> SUFFICES ASSUME RequestsInv, RequestsInv', LedgerInv, LedgerInv', HoldsInv,
                      [Next]_vars
               PROVE  HoldsInv'
    OBVIOUS
  <1>r. \A r \in Requests : /\ req[r] \in Request /\ req'[r] \in Request
                            /\ Shape(req[r], month) /\ BillInv(r)
    BY DEF RequestsInv, HoldsInv
  \* Steps that move no request.
  <1>s. ASSUME req' = req, \A r \in Requests : Env(r) PROVE HoldsInv'
    <2>1. ASSUME NEW r \in Requests PROVE BillInv(r)'
      <3>1. req[r] \in Request /\ BillInv(r) /\ Env(r) /\ req'[r] = req[r]
        BY <1>r, <1>s
      <3> QED  BY <3>1, Moved
    <2> QED  BY <1>s, <2>1 DEF HoldsInv, Distinct
  <1>1. ASSUME NEW r \in Requests, Arrive(r) PROVE HoldsInv'
    <2> DEFINE n == req'[r]
               q == req[r]
    <2>1. /\ q.pc = "new" /\ n.pc = "billing" /\ n.acct = q.acct /\ n.via = q.via
          /\ n.hold = q.hold /\ n.charged = q.charged
      BY <1>1, <1>r DEF Arrive, Request, RequestsInv
    <2>2. UNCHANGED ledger /\ swept' = swept /\ \A s \in Requests \ {r} : req'[s] = req[s]
      BY <1>1 DEF Arrive, RequestsInv
    <2>3. \A s \in Requests : Env(s)  BY <1>r, <2>2, EnvQuiet
    <2>4. BillInv(r)'
      BY <1>r, <2>1, <2>3, Moved DEF Unpaid, Early
    <2>5. ASSUME NEW s \in Requests \ {r} PROVE BillInv(s)'
      <3>1. s \in Requests /\ req[s] \in Request /\ BillInv(s) /\ Env(s) /\ req'[s] = req[s]
        BY <1>r, <2>2, <2>3
      <3> QED  BY <3>1, Moved
    <2>6. \A s \in Requests : req'[s].hold = req[s].hold  BY <2>1, <2>2
    <2> QED  BY <2>4, <2>5, <2>6 DEF HoldsInv, Distinct
  <1>2. ASSUME NEW r \in Requests, Handler(r) PROVE HoldsInv'
    <2>1. BillInv(r)'  BY <1>2, HandlerOwn
    <2>2. \A s \in Requests \ {r} : BillInv(s)'  BY <1>2, HandlerOthers
    <2>3. Distinct'  BY <1>2, HandlerDistinct
    <2> QED  BY <2>1, <2>2, <2>3 DEF HoldsInv
  <1>3. ASSUME NEW h \in HoldIds, SweepRelease(h) PROVE HoldsInv'
    <2>1. req' = req  BY <1>3 DEF SweepRelease
    <2>2. ASSUME NEW r \in Requests PROVE Env(r)
      <3>1. CASE Ledger!ReleaseHold(h) /\ swept' = swept \cup {h}
        BY <1>r, <3>1, EnvRelease
      <3>2. CASE UNCHANGED <<ledger, swept>>  BY <1>r, <3>2, EnvQuiet
      <3> QED  BY <1>3, <3>1, <3>2 DEF SweepRelease
    <2> QED  BY <1>s, <2>1, <2>2
  <1>4. CASE Crash
    <2>1. UNCHANGED ledger /\ swept' = swept  BY <1>4 DEF Crash
    <2>2. ASSUME NEW r \in Requests
          PROVE  BillInv(r)' /\ req'[r].hold = req[r].hold
      <3> DEFINE n == req'[r]
                 q == req[r]
      <3>1. q \in Request /\ n \in Request /\ BillInv(r) /\ Shape(q, month)  BY <1>r
      <3>2. Env(r)  BY <2>1, <3>1, EnvQuiet
      <3>3. CASE n = q  BY <3>1, <3>2, <3>3, Moved
      <3>4. CASE n = [q EXCEPT !.pc = "lost"]
        <4>1. /\ n.pc = "lost" /\ n.acct = q.acct /\ n.via = q.via /\ n.m = q.m
              /\ n.hold = q.hold /\ n.charged = q.charged
          BY <3>1, <3>4 DEF Request
        <4> QED  BY <3>1, <3>2, <4>1, Moved DEF Unpaid, Early
      <3> QED  BY <1>4, <3>3, <3>4 DEF Crash
    <2> QED  BY <2>2 DEF HoldsInv, Distinct
  <1>5. CASE Elsewhere
    <2>1. req' = req /\ swept' = swept  BY <1>5 DEF Elsewhere
    <2>2. ASSUME NEW r \in Requests PROVE Env(r)
      <3>1. ASSUME NEW a \in Accounts, NEW amount \in GrantAmounts,
                   Ledger!AddCredits(a, amount)
            PROVE  Env(r)
        BY <1>r, <2>1, <3>1, EnvGrant
      <3>2. ASSUME NEW old \in SUBSET DOMAIN holds, Ledger!CleanupSettledHolds(old)
            PROVE  Env(r)
        BY <1>r, <2>1, <3>2, EnvCleanup
      <3>3. CASE Ledger!NewMonth
        <4>1. allowance_period[req[r].acct] \in Nat
          BY <1>r, LedgerFacts DEF Request
        <4> QED  BY <2>1, <3>3, <4>1 DEF Ledger!NewMonth, Env, Held, RowsKept
      <3> QED  BY <1>5, <3>1, <3>2, <3>3 DEF Elsewhere
    <2> QED  BY <1>s, <2>1, <2>2
  <1>6. CASE (\E h \in HoldIds : Age(h)) \/ SweepSelect \/ SweepError \/ Finished
               \/ UNCHANGED vars
    <2>1. UNCHANGED <<ledger, swept, req>>
      BY <1>6 DEF Age, SweepSelect, SweepError, Finished, vars
    <2>2. \A r \in Requests : Env(r)  BY <1>r, <2>1, EnvQuiet
    <2> QED  BY <1>s, <2>1, <2>2
  <1> QED  BY <1>1, <1>2, <1>3, <1>4, <1>5, <1>6 DEF Next

\* No request has a hold at the start.
LEMMA HoldsStart == Init => HoldsInv
  <1> SUFFICES ASSUME Init PROVE HoldsInv  OBVIOUS
  <1>1. used = {} /\ DOMAIN holds = {} /\ txns = [a \in Accounts |-> <<>>]
    BY DEF Init, Ledger!Init
  <1>2. ASSUME NEW r \in Requests PROVE BillInv(r) /\ req[r].hold = NoHold
    <2>1. /\ req[r].pc = "new" /\ req[r].hold = NoHold /\ req[r].charged = 0
          /\ req[r].acct \in Accounts
      BY DEF Init
    <2>2. Charges(r) = {}  BY <1>1, <2>1 DEF Charges
    <2> QED  BY <1>1, <2>1, <2>2 DEF BillInv
  <1> QED  BY <1>2 DEF HoldsInv, Distinct

----------------------------------------------------------------------------
(***************************************************************************)
(* The sweep, the usage entries and the answers behind charges             *)
(***************************************************************************)

SweepInv ==
    /\ sweeping \subseteq stale /\ swept \subseteq stale /\ stale \subseteq used
    /\ crashes \in 0..MaxCrashes

\* An id that was handed out stays handed out.
LEMMA UsedGrows == ASSUME [Ledger!Next]_ledger PROVE used \subseteq used'
  BY DEF Ledger!Next, ledger, Ledger!AddCredits, Ledger!ReserveCredits,
         Ledger!BurnHoldId, Ledger!SettleHold, Ledger!ReleaseHold,
         Ledger!CleanupSettledHolds, Ledger!applyMonthlyAllowance, Ledger!NewMonth

\* Every step keeps what the sweeper relies on.
LEMMA SweepKept == RequestsInv /\ LedgerInv /\ SweepInv /\ [Next]_vars => SweepInv'
  <1> SUFFICES ASSUME RequestsInv, LedgerInv, SweepInv, [Next]_vars PROVE SweepInv'
    OBVIOUS
  <1>u. used \subseteq used'  BY LedgerStep, UsedGrows
  <1>1. ASSUME NEW r \in Requests, Handler(r) PROVE SweepInv'
    BY <1>1, <1>u, HandlerAlone DEF SweepInv
  <1>2. ASSUME NEW h \in HoldIds, Age(h) PROVE SweepInv'
    <2>1. h \in used  BY <1>2, LedgerFacts DEF Age
    <2> QED  BY <1>2, <1>u, <2>1 DEF SweepInv, Age
  <1>3. CASE Crash
    <2>1. crashes' \in 0..MaxCrashes
      BY <1>3, CrashesAssumption DEF SweepInv, Crash
    <2> QED  BY <1>3, <1>u, <2>1 DEF SweepInv, Crash
  <1>4. CASE SweepSelect  BY <1>4, <1>u DEF SweepInv, SweepSelect
  <1>5. ASSUME NEW h \in HoldIds, SweepRelease(h) PROVE SweepInv'
    BY <1>5, <1>u DEF SweepInv, SweepRelease
  <1>6. CASE SweepError  BY <1>6, <1>u DEF SweepInv, SweepError
  <1>7. CASE (\E r \in Requests : Arrive(r)) \/ Elsewhere \/ Finished \/ UNCHANGED vars
    <2>1. UNCHANGED <<stale, sweeping, swept, crashes>>
      BY <1>7 DEF Arrive, Elsewhere, Finished, vars
    <2> QED  BY <1>u, <2>1 DEF SweepInv
  <1> QED  BY <1>1, <1>2, <1>3, <1>4, <1>5, <1>6, <1>7 DEF Next

\* An entry says what its request was told it was charged.
EntriesInv ==
    /\ DOMAIN entries \subseteq Requests
    /\ \A r \in DOMAIN entries : /\ req[r].pc = "done"
                                 /\ entries[r].credits_charged = req[r].charged

\* Every step keeps the usage entries in agreement with the requests.
LEMMA EntriesKept == RequestsInv /\ EntriesInv /\ [Next]_vars => EntriesInv'
  <1> SUFFICES ASSUME RequestsInv, EntriesInv, [Next]_vars PROVE EntriesInv'  OBVIOUS
  <1>d. \A s \in Requests : req[s].pc = "done" => req'[s] = req[s]
    <2> SUFFICES ASSUME NEW s \in Requests, req[s].pc = "done" PROVE req'[s] = req[s]
      OBVIOUS
    <2>1. ASSUME NEW r \in Requests, Handler(r) PROVE req'[s] = req[s]
      <3>1. req[r].pc # "done"
        BY <2>1 DEF Handler, Billing, CreditGate, Route, Reserve, UpstreamFails,
           UpstreamAnswers, Release, Settle, LogUsage
      <3> QED  BY <2>1, <3>1, HandlerAlone
    <2>2. ASSUME NEW r \in Requests, Arrive(r) PROVE req'[s] = req[s]
      BY <2>2 DEF Arrive, RequestsInv
    <2>3. CASE Crash  BY <2>3 DEF Crash, Active
    <2> QED
      BY <2>1, <2>2, <2>3
      DEF Next, Age, SweepSelect, SweepRelease, SweepError, Elsewhere, Finished, vars
  <1>1. CASE entries' = entries
    <2>1. ASSUME NEW r \in DOMAIN entries'
          PROVE  /\ r \in Requests /\ req'[r].pc = "done"
                 /\ entries'[r].credits_charged = req'[r].charged
      BY <1>1, <1>d DEF EntriesInv
    <2> QED  BY <2>1 DEF EntriesInv
  <1>2. ASSUME NEW r \in Requests, req[r].pc = "log", Goto(r, "done"),
               Put(r, [acct |-> req[r].acct, hold |-> req[r].hold,
                       credits_charged |-> req[r].charged])
        PROVE  EntriesInv'
    <2>1. req'[r].pc = "done" /\ req'[r].charged = req[r].charged
      BY <1>2, GotoFields
    <2>2. DOMAIN entries' = DOMAIN entries \cup {r}  BY <1>2 DEF Put
    <2>3. entries'[r].credits_charged = req[r].charged  BY <1>2, <2>2 DEF Put
    <2>4. \A x \in DOMAIN entries \ {r} : entries'[x] = entries[x]
      BY <1>2, <2>2 DEF Put
    <2>5. ASSUME NEW x \in DOMAIN entries \ {r}
          PROVE  /\ x \in Requests /\ req'[x].pc = "done"
                 /\ entries'[x].credits_charged = req'[x].charged
      BY <1>d, <2>4 DEF EntriesInv
    <2> QED  BY <2>1, <2>2, <2>3, <2>5 DEF EntriesInv
  <1>3. ASSUME NEW r \in Requests, Handler(r) PROVE EntriesInv'
    BY <1>1, <1>2, <1>3
    DEF Handler, Billing, CreditGate, Route, Reserve, UpstreamFails,
        UpstreamAnswers, Release, Settle, LogUsage
  <1> QED
    BY <1>1, <1>3
    DEF Next, Arrive, Age, SweepSelect, SweepRelease, SweepError, Crash, Elsewhere,
        Finished, vars

\* An answered request keeps what its charge is checked against.
LEMMA AnswerStays ==
    ASSUME RequestsInv, [Next]_vars, NEW s \in Requests, req[s].answered
    PROVE  /\ req'[s].acct = req[s].acct /\ req'[s].hold = req[s].hold
           /\ req'[s].answered /\ req'[s].cost = req[s].cost
  <1>q. /\ req[s] \in Request /\ Shape(req[s], month) /\ req \in [Requests -> Request]
        /\ req[s].pc \notin Early \cup {"upstream", "release"}
    BY RequestShape DEF Shape, RequestsInv
  <1>1. ASSUME NEW r \in Requests, Handler(r)
        PROVE  /\ req'[s].acct = req[s].acct /\ req'[s].hold = req[s].hold
               /\ req'[s].answered /\ req'[s].cost = req[s].cost
    <2>1. CASE s # r
      <3>1. req'[s] = req[s]  BY <1>1, <2>1, HandlerAlone
      <3> QED  BY <3>1
    <2>2. CASE s = r
      <3>1. Settle(s) \/ LogUsage(s)
        BY <1>1, <1>q, <2>2 DEF Early, Handler, Billing, CreditGate, Route, Reserve,
           UpstreamFails, UpstreamAnswers, Release
      <3>2. \/ req' = [req EXCEPT ![s].pc = "log", ![s].charged = req[s].cost]
            \/ req' = [req EXCEPT ![s].pc = "log", ![s].failed = TRUE]
            \/ \E pc \in {"log", "done"} : Goto(s, pc)
        BY <3>1 DEF Settle, LogUsage
      <3> QED  BY <1>q, <3>2 DEF Request, Goto
    <2> QED  BY <2>1, <2>2
  <1>2. ASSUME NEW r \in Requests, Arrive(r) PROVE req'[s] = req[s]
    BY <1>2, <1>q DEF Arrive, Early
  <1>3. CASE Crash
    <2>1. req'[s] = req[s] \/ req'[s] = [req[s] EXCEPT !.pc = "lost"]
      BY <1>3 DEF Crash
    <2> QED  BY <1>q, <2>1 DEF Request
  <1>4. req' = req => req'[s] = req[s]  OBVIOUS
  <1>5. \/ \E r \in Requests : Handler(r) \/ Arrive(r)
        \/ Crash
        \/ req' = req
    BY DEF Next, Age, SweepSelect, SweepRelease, SweepError, Elsewhere, Finished, vars
  <1> QED  BY <1>1, <1>2, <1>3, <1>4, <1>5

\* Where the rows of a trail come from: each was there, or is not a charge, or
\* is the charge of the answered request that settles now.
LEMMA RowsFrom ==
    ASSUME RequestsInv, LedgerInv, HoldsInv, [Next]_vars,
           NEW a \in Accounts, NEW i \in DOMAIN txns'[a], txns'[a][i].type = "usage"
    PROVE  \/ i \in DOMAIN txns[a] /\ txns'[a][i] = txns[a][i]
           \/ \E r \in Requests : /\ req[r].answered /\ req[r].acct = a
                                  /\ txns'[a][i].reference_id = req[r].hold
                                  /\ txns'[a][i].amount = ToTicks(-req[r].cost)
  <1> DEFINE Old == i \in DOMAIN txns[a] /\ txns'[a][i] = txns[a][i]
             New == \E r \in Requests : /\ req[r].answered /\ req[r].acct = a
                                        /\ txns'[a][i].reference_id = req[r].hold
                                        /\ txns'[a][i].amount = ToTicks(-req[r].cost)
  <1>1. CASE txns' = txns  BY <1>1
  <1>r. ASSUME NEW b \in Accounts, NEW row, txns'[b] = Append(txns[b], row),
               \A c \in Accounts : c # b => txns'[c] = txns[c]
        PROVE  i \in DOMAIN txns[a] \/ (a = b /\ txns'[a][i] = row)
    BY <1>r, TrailGrows
  \* A row that is no charge.
  <1>2. ASSUME NEW b \in Accounts, NEW row, row.type # "usage",
               txns'[b] = Append(txns[b], row),
               \A c \in Accounts : c # b => txns'[c] = txns[c]
        PROVE  Old
    <2>1. i \in DOMAIN txns[a] \/ txns'[a][i] = row  BY <1>2, TrailGrows
    <2>2. RowsKept  BY <1>2, TrailGrows
    <2> QED  BY <1>2, <2>1, <2>2 DEF RowsKept
  <1>3. ASSUME NEW b \in Accounts, NEW grant, NEW m,
               Ledger!applyMonthlyAllowance(b, grant, m)
        PROVE  Old
    <2>1. PICK row : /\ row = Ledger!AllowanceRow(grant, m)
                     /\ txns'[b] = Append(txns[b], row)
                     /\ \A c \in Accounts : c # b => txns'[c] = txns[c]
      BY <1>3, LedgerFacts DEF Ledger!applyMonthlyAllowance
    <2>2. row.type # "usage"  BY <2>1 DEF Ledger!AllowanceRow
    <2> QED  BY <1>2, <2>1, <2>2
  <1>4. ASSUME NEW b \in Accounts, NEW amount, Ledger!AddCredits(b, amount)
        PROVE  Old
    <2>1. PICK row : /\ row = Ledger!GrantRow(amount,
                                 Ledger!ToTicks(Ledger!Exact(balance[b]) + amount))
                     /\ txns'[b] = Append(txns[b], row)
                     /\ \A c \in Accounts : c # b => txns'[c] = txns[c]
      BY <1>4, LedgerFacts DEF Ledger!AddCredits
    <2>2. row.type # "usage"  BY <2>1 DEF Ledger!GrantRow
    <2> QED  BY <1>2, <2>1, <2>2
  <1>5. ASSUME NEW r \in Requests, req[r].answered,
               Ledger!SettleHold(req[r].hold, req[r].cost)
        PROVE  Old \/ New
    <2> DEFINE h == req[r].hold
    <2>1. h \in DOMAIN holds  BY <1>5 DEF Ledger!SettleHold
    <2>2. holds[h].account_id = req[r].acct  BY <2>1 DEF HoldsInv, BillInv
    <2>b. PICK b \in Accounts : b = holds[h].account_id  BY <2>1, LedgerFacts
    <2>3. PICK row :
              /\ row = Ledger!UsageRow(h, req[r].cost,
                          Ledger!ToTicks(Ledger!Exact(balance[b]) - req[r].cost))
              /\ txns'[b] = Append(txns[b], row)
              /\ \A c \in Accounts : c # b => txns'[c] = txns[c]
      BY <1>5, <2>b, LedgerFacts DEF Ledger!SettleHold
    <2>4. row.reference_id = h /\ row.amount = ToTicks(-req[r].cost)
      BY <2>3 DEF Ledger!UsageRow, Ledger!ToTicks, ToTicks
    <2>5. i \in DOMAIN txns[a] \/ (a = b /\ txns'[a][i] = row)  BY <1>r, <2>3
    <2>6. RowsKept  BY <2>3, TrailGrows
    <2> QED  BY <1>5, <2>2, <2>b, <2>3, <2>4, <2>5, <2>6 DEF RowsKept
  <1>6. ASSUME NEW r \in Requests, Handler(r) PROVE Old \/ New
    <2>1. req[r] \in Request /\ Shape(req[r], month)  BY RequestShape
    <2>2. ASSUME NEW grant, Ledger!applyMonthlyAllowance(req[r].acct, grant, req[r].m)
          PROVE  Old
      <3>1. PICK b \in Accounts, m \in Nat : b = req[r].acct /\ m = req[r].m
        BY <2>1 DEF Request
      <3> QED  BY <1>3, <2>2, <3>1
    <2>3. CASE Settle(r)
      <3>1. req[r].answered  BY <2>1, <2>3 DEF Settle, Shape
      <3> QED  BY <1>1, <1>5, <2>3, <3>1 DEF Settle, ledger
    <2>4. CASE Billing(r)  BY <1>1, <2>2, <2>4 DEF Billing, ledger
    <2>5. CASE Release(r)  BY <1>1, <2>5 DEF Release, ledger, Ledger!ReleaseHold
    <2>6. CASE Reserve(r)  BY <1>1, <2>6 DEF Reserve, ledger, Ledger!ReserveCredits
    <2>7. CreditGate(r) => txns' = txns  BY DEF CreditGate, ledger
    <2>8. Route(r) => txns' = txns  BY DEF Route, ledger
    <2>9. UpstreamFails(r) => txns' = txns  BY DEF UpstreamFails, ledger
    <2>10. UpstreamAnswers(r) => txns' = txns  BY DEF UpstreamAnswers, ledger
    <2>11. LogUsage(r) => txns' = txns  BY DEF LogUsage, ledger
    <2> QED
      BY <1>1, <1>6, <2>3, <2>4, <2>5, <2>6, <2>7, <2>8, <2>9, <2>10, <2>11 DEF Handler
  <1>7. CASE Elsewhere
    BY <1>1, <1>4, <1>7 DEF Elsewhere, Ledger!CleanupSettledHolds, Ledger!NewMonth
  <1>8. (\E r \in Requests : Arrive(r)) \/ (\E h \in HoldIds : Age(h)) \/ SweepSelect
          \/ (\E h \in HoldIds : SweepRelease(h)) \/ SweepError \/ Crash \/ Finished
          \/ UNCHANGED vars
            => txns' = txns
    BY DEF Arrive, Age, SweepSelect, SweepRelease, SweepError, Crash, Finished, vars,
           ledger, Ledger!ReleaseHold
  <1> QED  BY <1>1, <1>6, <1>7, <1>8 DEF Next

\* Every step keeps the charges backed by answers.
LEMMA AnswersKept ==
    RequestsInv /\ LedgerInv /\ HoldsInv /\ ChargesHaveAnswers /\ [Next]_vars
      => ChargesHaveAnswers'
  <1> SUFFICES ASSUME RequestsInv, LedgerInv, HoldsInv, ChargesHaveAnswers, [Next]_vars,
                      NEW a \in Accounts, NEW i \in DOMAIN txns'[a],
                      txns'[a][i].type = "usage"
               PROVE  \E r \in Requests : /\ req'[r].acct = a
                                          /\ req'[r].hold = txns'[a][i].reference_id
                                          /\ req'[r].answered
                                          /\ txns'[a][i].amount = ToTicks(-req'[r].cost)
    BY DEF ChargesHaveAnswers
  <1>1. PICK r \in Requests : /\ req[r].answered /\ req[r].acct = a
                              /\ txns'[a][i].reference_id = req[r].hold
                              /\ txns'[a][i].amount = ToTicks(-req[r].cost)
    BY RowsFrom DEF ChargesHaveAnswers
  <1> QED  BY <1>1, AnswerStays

----------------------------------------------------------------------------
(***************************************************************************)
(* The theorems                                                            *)
(***************************************************************************)

\* The inductive invariants together, on every reachable state.
LEMMA AllKept ==
    Spec => [](RequestsInv /\ LedgerInv /\ HoldsInv /\ SweepInv /\ EntriesInv
               /\ ChargesHaveAnswers)
  <1>1. Init => SweepInv /\ EntriesInv /\ ChargesHaveAnswers
    <2> SUFFICES ASSUME Init PROVE SweepInv /\ EntriesInv /\ ChargesHaveAnswers
      OBVIOUS
    <2>1. txns = [a \in Accounts |-> <<>>] /\ used = {}  BY DEF Init, Ledger!Init
    <2>2. DOMAIN entries = {}  BY DEF Init
    <2> QED
      BY <2>1, <2>2, CrashesAssumption
      DEF Init, SweepInv, EntriesInv, ChargesHaveAnswers
  <1>2. Spec => []LedgerInv
    BY LedgerKept, PTL DEF LedgerInv
  <1> QED
    BY <1>1, <1>2, RequestsStart, RequestsKept, HoldsStart, HoldsKept, SweepKept,
       EntriesKept, AnswersKept, PTL DEF Spec

\* The handlers stay well typed; whoever calls the upstream, settles, releases
\* or logs has a hold that the store handed out, and no two requests ever have
\* the same one (ReserveCredits), through crashes and lost answers.
THEOREM RequestsTyped == Spec => []TypeOK
  <1>1. RequestsInv /\ HoldsInv /\ SweepInv /\ EntriesInv => TypeOK
    <2> SUFFICES ASSUME RequestsInv, HoldsInv, SweepInv, EntriesInv PROVE TypeOK
      OBVIOUS
    <2>1. ASSUME NEW r \in Requests,
                 req[r].pc \in {"upstream", "settle", "release", "log"}
          PROVE  req[r].hold \in used
      <3>1. Shape(req[r], month) /\ BillInv(r)  BY DEF RequestsInv, HoldsInv
      <3> QED  BY <2>1, <3>1 DEF Shape, BillInv
    <2> QED
      BY <2>1 DEF TypeOK, RequestsInv, HoldsInv, Distinct, SweepInv, EntriesInv
  <1> QED  BY <1>1, AllKept, PTL

\* Nobody pays without an answer: every usage row is the actual cost of a
\* request the upstream answered, on the account it was billed to; failures,
\* crashes and reservations whose COMMIT answer was lost are never charged
\* (settleCredits, settleStreamCredits).
THEOREM ChargesAnswered == Spec => []ChargesHaveAnswers
  BY AllKept, PTL

\* An answer is free only when the sweeper took the hold first or the store
\* returned an error.
THEOREM AnswersPaid == Spec => []FreeOnlyWhenSwept
  <1>1. HoldsInv => FreeOnlyWhenSwept  BY DEF HoldsInv, BillInv, FreeOnlyWhenSwept
  <1> QED  BY <1>1, AllKept, PTL

\* The usage entries agree with the ledger (logUsage): a charge an entry
\* states is in the trail, and one that states none has none there unless the
\* settlement returned an error.
THEOREM EntriesAgree == Spec => []EntriesMatchLedger
  <1>1. HoldsInv /\ EntriesInv => EntriesMatchLedger
    <2> SUFFICES ASSUME HoldsInv, EntriesInv, NEW r \in DOMAIN entries
                 PROVE  LET charged == entries[r].credits_charged
                        IN  IF charged # 0
                            THEN \E i \in Charges(r) :
                                   txns[req[r].acct][i].amount = ToTicks(-charged)
                            ELSE req[r].failed \/ req[r].cost = 0 \/ Charges(r) = {}
      BY DEF EntriesMatchLedger
    <2>1. /\ req[r].pc = "done" /\ entries[r].credits_charged = req[r].charged
          /\ BillInv(r)
      BY DEF EntriesInv, HoldsInv
    <2> QED  BY <2>1 DEF BillInv, Unpaid
  <1> QED  BY <1>1, AllKept, PTL

\* A trusted end user's request reaches the credit gate only after the allowance
\* of the month it read was applied (billing middleware, applyMonthlyAllowance).
THEOREM AllowanceFirst == Spec => []AllowanceBeforeGate
  <1>1. HoldsInv => AllowanceBeforeGate  BY DEF HoldsInv, BillInv, AllowanceBeforeGate
  <1> QED  BY <1>1, AllKept, PTL
=============================================================================
