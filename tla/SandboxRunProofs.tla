-------------------------- MODULE SandboxRunProofs --------------------------
(***************************************************************************)
(* Proofs about SandboxRun: sandboxes do not share a subnet, the overshoot *)
(* of a budget is bounded by what was under way, a leaked secret fails its *)
(* job, and a report that was not late is final; for any number of jobs,   *)
(* connections and subnets and any limit and charge.                       *)
(***************************************************************************)
EXTENDS SandboxRun, FiniteSetTheorems, WellFoundedInduction, TLAPS

(* Linear probing finds an index that is free.                             *)

LEMMA Least ==
    ASSUME NEW T \in SUBSET Nat, T # {}
    PROVE  \E x \in T : \A y \in T : x <= y
<1> DEFINE R == {p \in Nat \X Nat : p[1] < p[2]}
<1>1. IsWellFoundedOn(R, Nat)
  BY NatLessThanWellFounded DEF OpToRel
<1>2. PICK x \in T : \A y \in T : <<y, x>> \notin R
  <2> HIDE DEF R
  <2> QED
    BY <1>1, WFMin
<1>3. ASSUME NEW y \in T, y < x PROVE FALSE
  <2>1. <<y, x>> \in R
    BY <1>3
  <2> QED
    BY <1>2, <2>1
<1>4. QED
  BY <1>3

LEMMA SmallModulus ==
    ASSUME NEW n \in Nat \ {0}, NEW a \in 0..(n - 1) PROVE a % n = a
OBVIOUS

LEMMA LargeModulus ==
    ASSUME NEW n \in Nat \ {0}, NEW a \in n..(2 * n - 1) PROVE a % n = a - n
OBVIOUS

LEMMA ProbeReaches ==
    ASSUME NEW start \in Indexes, NEW i \in Indexes
    PROVE  \E o \in 0..(MaxIndex - 1) : Probe(start, o) = i
<1> USE SandboxAssumption DEF Indexes
<1>1. CASE i >= start
  <2>1. i - start \in 0..(MaxIndex - 1) /\ start - 1 + (i - start) = i - 1
          /\ i - 1 \in 0..(MaxIndex - 1)
    BY <1>1
  <2>2. (i - 1) % MaxIndex = i - 1
    BY <2>1, SmallModulus
  <2>3. Probe(start, i - start) = i
    BY <2>1, <2>2 DEF Probe
  <2> QED
    BY <2>1, <2>3
<1>2. CASE i < start
  <2> DEFINE o == i - start + MaxIndex
  <2>1. o \in 0..(MaxIndex - 1) /\ start - 1 + o = i - 1 + MaxIndex
          /\ i - 1 + MaxIndex \in MaxIndex..(2 * MaxIndex - 1)
    BY <1>2
  <2>2. (i - 1 + MaxIndex) % MaxIndex = i - 1
    BY <2>1, LargeModulus
  <2>3. Probe(start, o) = i
    BY <2>1, <2>2 DEF Probe
  <2> QED
    BY <2>1, <2>3
<1>3. QED
  BY <1>1, <1>2

LEMMA ProbeType ==
    ASSUME NEW start \in Indexes, NEW o \in Nat PROVE Probe(start, o) \in Indexes
<1>1. start - 1 + o \in Nat
  BY SandboxAssumption DEF Indexes
<1>2. (start - 1 + o) % MaxIndex \in 0..(MaxIndex - 1)
  BY <1>1, SandboxAssumption
<1>3. QED
  BY <1>2, SandboxAssumption DEF Probe, Indexes

(* reserve gives out an index that is in the pool and not in use.          *)
LEMMA FirstFreeIsFree ==
    ASSUME NEW start \in Indexes, NEW taken, ~(Indexes \subseteq taken)
    PROVE  FirstFree(start, taken) \in Indexes \ taken
<1> DEFINE Free0 == {o \in 0..(MaxIndex - 1) : Probe(start, o) \notin taken}
           Good(o) == /\ Probe(start, o) \notin taken
                      /\ \A p \in 0..(o - 1) : Probe(start, p) \in taken
           k == CHOOSE o \in 0..(MaxIndex - 1) : Good(o)
<1>1. MaxIndex \in Nat \ {0}
  BY SandboxAssumption
<1>2. Free0 # {} /\ Free0 \in SUBSET Nat
  <2>1. PICK i \in Indexes : i \notin taken
    OBVIOUS
  <2>2. PICK o \in 0..(MaxIndex - 1) : Probe(start, o) = i
    BY ProbeReaches
  <2> QED
    BY <1>1, <2>1, <2>2
<1>3. PICK x \in Free0 : \A y \in Free0 : x <= y
  BY <1>2, Least
<1>4. \A p \in 0..(x - 1) : Probe(start, p) \in taken
  BY <1>1, <1>3
<1>5. x \in 0..(MaxIndex - 1) /\ Good(x)
  BY <1>3, <1>4
<1>6. k \in 0..(MaxIndex - 1) /\ Good(k)
  <2> HIDE DEF Good
  <2> QED
    BY <1>5
<1>7. Probe(start, k) \in Indexes
  BY <1>1, <1>6, ProbeType
<1>8. FirstFree(start, taken) = Probe(start, k)
  BY DEF FirstFree
<1>9. QED
  BY <1>6, <1>7, <1>8

-----------------------------------------------------------------------------

(* The inductive invariant.  What a job holds follows from where the host  *)
(* is with it; requests are only under way where a broker was opened; and  *)
(* a job that has a report or an outcome has ended, its broker is closed,  *)
(* and nothing is under way for it unless that was so at its end.          *)

Holding == {"reserved", "brokered", "spawned", "running", "finishing"}

Pool ==
    /\ active = {subnet[j] : j \in Jobs} \ {None}
    /\ \A j, k \in Jobs : (j # k /\ subnet[j] # None) => subnet[j] # subnet[k]
    /\ \A j \in Jobs : subnet[j] # None <=> job[j] \in Holding

Host ==
    \A j \in Jobs :
        /\ root[j] <=> job[j] \in Holding \cup {"rooted"}
        /\ sandbox[j] = "alive" => job[j] \in {"spawned", "running"}
        /\ job[j] \in {"idle", "rooted", "reserved"} => broker[j] = "none"
        /\ broker[j] = "closing" => job[j] = "finishing"
        /\ broker[j] = "closed" => job[j] = "ended"
        /\ broker[j] = "open" => job[j] \in {"brokered", "spawned", "running"}

Requests ==
    /\ \A c \in Connections : req[c].pc = "free" <=> req[c].job = None
    /\ \A j \in Jobs : broker[j] = "none" => UnderWay(j) = {}

Room == Limit - 1 + Cardinality(Connections) * MaxCharge

Metered ==
    \A j \in Jobs : \/ ledger[j] < Limit
                    \/ ledger[j] + Cardinality(UnderWay(j)) * MaxCharge <= Room

Secrets == \A j \in Jobs : leaked[j] => quarantine[j]

Reported(j) == report[j] # None \/ result[j] = "outcome"

Ended ==
    \A j \in Jobs : Reported(j) =>
        /\ job[j] = "ended"
        /\ ~late[j] => /\ UnderWay(j) = {}
                       /\ report[j] # None => report[j] = ledger[j]
                       /\ result[j] = "outcome" => ~leaked[j]

IInv == TypeOK /\ Pool /\ Host /\ Requests /\ Metered /\ Secrets /\ Ended

(* How the requests of a job change.                                       *)

RequestRecords == [pc : {"free", "reading", "sending", "streaming"}, job : Jobs \cup {None}]

LEMMA Took ==
    ASSUME NEW c \in Connections, NEW j \in Jobs, req \in [Connections -> RequestRecords],
           req' = [req EXCEPT ![c] = [pc |-> "reading", job |-> j]], req[c].job = None
    PROVE  /\ req' \in [Connections -> RequestRecords]
           /\ UnderWay(j)' = UnderWay(j) \cup {c} /\ c \notin UnderWay(j)
           /\ \A k \in Jobs \ {j} : UnderWay(k)' = UnderWay(k)
BY SandboxAssumption DEF UnderWay, RequestRecords

LEMMA Left ==
    ASSUME NEW c \in Connections, req \in [Connections -> RequestRecords],
           req' = [req EXCEPT ![c] = Free]
    PROVE  /\ req' \in [Connections -> RequestRecords]
           /\ \A k \in Jobs : UnderWay(k)' = UnderWay(k) \ {c}
           /\ \A k \in Jobs : c \in UnderWay(k) <=> req[c].job = k
           /\ \A d \in Connections : req'[d] = IF d = c THEN Free ELSE req[d]
<1>1. \A d \in Connections : req'[d] = IF d = c THEN Free ELSE req[d]
  OBVIOUS
<1>2. Free \in RequestRecords /\ Free.job \notin Jobs
  BY SandboxAssumption DEF RequestRecords, Free
<1>3. req' \in [Connections -> RequestRecords]
  BY <1>2
<1>4. \A k \in Jobs : UnderWay(k)' = UnderWay(k) \ {c}
  BY <1>1, <1>2 DEF UnderWay
<1>5. \A k \in Jobs : c \in UnderWay(k) <=> req[c].job = k
  BY DEF UnderWay
<1>6. QED
  BY <1>1, <1>3, <1>4, <1>5

LEMMA Moved ==
    ASSUME NEW c \in Connections, NEW s \in {"sending", "streaming"},
           req \in [Connections -> RequestRecords],
           req' = [req EXCEPT ![c].pc = s]
    PROVE  /\ req' \in [Connections -> RequestRecords]
           /\ \A k \in Jobs : UnderWay(k)' = UnderWay(k)
           /\ \A d \in Connections : req'[d].job = req[d].job
           /\ \A d \in Connections : req'[d].pc = IF d = c THEN s ELSE req[d].pc
BY DEF UnderWay, RequestRecords

LEMMA Counted ==
    ASSUME NEW j \in Jobs
    PROVE  /\ IsFiniteSet(UnderWay(j)) /\ Cardinality(UnderWay(j)) \in Nat
           /\ Cardinality(Connections) \in Nat
           /\ Cardinality(UnderWay(j)) <= Cardinality(Connections)
           /\ \A c \in UnderWay(j) :
                /\ Cardinality(UnderWay(j) \ {c}) = Cardinality(UnderWay(j)) - 1
                /\ Cardinality(UnderWay(j)) >= 1
<1>1. IsFiniteSet(Connections) /\ UnderWay(j) \subseteq Connections
  BY SandboxAssumption DEF UnderWay
<1>2. IsFiniteSet(UnderWay(j)) /\ Cardinality(UnderWay(j)) <= Cardinality(Connections)
  BY <1>1, FS_Subset
<1>3. Cardinality(UnderWay(j)) \in Nat /\ Cardinality(Connections) \in Nat
  BY <1>1, <1>2, FS_CardinalityType
<1>4. ASSUME NEW c \in UnderWay(j)
      PROVE  /\ Cardinality(UnderWay(j) \ {c}) = Cardinality(UnderWay(j)) - 1
             /\ Cardinality(UnderWay(j)) >= 1
  <2>1. Cardinality(UnderWay(j) \ {c}) = Cardinality(UnderWay(j)) - 1
    BY <1>2, <1>4, FS_RemoveElement
  <2>2. IsFiniteSet(UnderWay(j) \ {c})
    BY <1>2, FS_Subset
  <2>3. Cardinality(UnderWay(j) \ {c}) \in Nat
    BY <2>2, FS_CardinalityType
  <2> QED
    BY <1>3, <2>1, <2>3
<1>5. QED
  BY <1>2, <1>3, <1>4

LEMMA Products ==
    ASSUME NEW M \in Nat, NEW a \in Nat, NEW b \in Nat, a <= b
    PROVE  a * M \in Nat /\ b * M \in Nat /\ a * M <= b * M
<1>1. PICK d \in Nat : b = a + d
  <2>1. b - a \in Nat /\ b = a + (b - a)
    OBVIOUS
  <2> QED
    BY <2>1
<1>2. d * M \in Nat /\ a * M \in Nat /\ (a + d) * M = a * M + d * M
  OBVIOUS
<1>3. QED
  BY <1>1, <1>2

LEMMA OneLess ==
    ASSUME NEW M \in Nat, NEW a \in Nat, a >= 1
    PROVE  (a - 1) * M = a * M - M /\ a * M \in Nat
OBVIOUS

-----------------------------------------------------------------------------
(* Every step preserves each part of the invariant.                        *)

(* Types. *)
LEMMA TypeStep ==
    ASSUME TypeOK, [Next]_vars
    PROVE  TypeOK'
<1>1. ASSUME NEW j \in Jobs, PrepareRoot(j) PROVE TypeOK'
  BY <1>1 DEF TypeOK, Phases, PrepareRoot, hostVars, brokerVars
<1>2. ASSUME NEW j \in Jobs, Reserve(j) PROVE TypeOK'
  <2>1. PICK start \in Indexes :
           /\ subnet' = [subnet EXCEPT ![j] = FirstFree(start, active)]
           /\ active' = active \cup {FirstFree(start, active)}
    BY <1>2 DEF Reserve
  <2>2. FirstFree(start, active) \in Indexes
    BY <1>2, FirstFreeIsFree DEF Reserve
  <2> QED
    BY <1>2, <2>1, <2>2 DEF TypeOK, Phases, Reserve, brokerVars
<1>3. ASSUME NEW j \in Jobs, StartBroker(j) PROVE TypeOK'
  BY <1>3 DEF TypeOK, Phases, StartBroker, Listening, hostVars, brokerVars
<1>4. ASSUME NEW j \in Jobs, Spawn(j) PROVE TypeOK'
  BY <1>4 DEF TypeOK, Phases, Spawn, hostVars, brokerVars
<1>5. ASSUME NEW j \in Jobs, ConfigureVeth(j) PROVE TypeOK'
  BY <1>5 DEF TypeOK, Phases, ConfigureVeth, hostVars, brokerVars
<1>6. ASSUME NEW j \in Jobs, SetupFails(j) PROVE TypeOK'
  BY <1>6 DEF TypeOK, Phases, SetupFails, Closed, Release, hostVars, brokerVars
<1>7. ASSUME NEW j \in Jobs, Exit(j) PROVE TypeOK'
  BY <1>7 DEF TypeOK, Phases, Exit, hostVars, brokerVars
<1>8. ASSUME NEW j \in Jobs, Kill(j) PROVE TypeOK'
  BY <1>8 DEF TypeOK, Phases, Kill, hostVars, brokerVars
<1>9. ASSUME NEW j \in Jobs, Finish(j) PROVE TypeOK'
  BY <1>9 DEF TypeOK, Phases, Finish, Closed, Release, Usage, Outcomes, UnderWay, hostVars, brokerVars
<1>10. ASSUME NEW j \in Jobs, Reaped(j) PROVE TypeOK'
  BY <1>10 DEF TypeOK, Phases, Reaped, hostVars, brokerVars
<1>11. ASSUME NEW c \in Connections, NEW j \in Jobs, Admit(c, j) PROVE TypeOK'
  BY <1>11 DEF TypeOK, Phases, Admit, hostVars, brokerVars
<1>12. ASSUME NEW c \in Connections, FindCanary(c) PROVE TypeOK'
  BY <1>12 DEF TypeOK, Phases, FindCanary, Free, hostVars, brokerVars
<1>13. ASSUME NEW c \in Connections, Send(c) PROVE TypeOK'
  BY <1>13 DEF TypeOK, Phases, Send, hostVars, brokerVars
<1>14. ASSUME NEW c \in Connections, Drop(c) PROVE TypeOK'
  BY <1>14 DEF TypeOK, Phases, Drop, Free, hostVars, brokerVars
<1>15. ASSUME NEW c \in Connections, Respond(c) PROVE TypeOK'
  BY <1>15 DEF TypeOK, Phases, Respond, hostVars, brokerVars
<1>16. ASSUME NEW c \in Connections, Charge(c) PROVE TypeOK'
  <2>1. PICK cost \in UsageSeen : ledger' = [ledger EXCEPT ![req[c].job] = @ + cost]
    BY <1>16 DEF Charge
  <2>2. cost \in Nat
    BY SandboxAssumption DEF UsageSeen
  <2>3. \A k \in Jobs : ledger[k] \in Nat /\ ledger[k] + cost \in Nat
    BY <2>2 DEF TypeOK
  <2>4. ledger \in [Jobs -> Nat]
    BY DEF TypeOK
  <2>5. ledger' \in [Jobs -> Nat]
    BY <2>1, <2>3, <2>4
  <2> QED
    BY <1>16, <2>5 DEF TypeOK, Phases, Charge, Free, hostVars
<1>17. ASSUME Shutdown PROVE TypeOK'
  BY <1>17 DEF TypeOK, Phases, Shutdown, hostVars, brokerVars
<1>18. CASE UNCHANGED vars
  BY <1>18 DEF TypeOK, vars, hostVars, brokerVars
<1>19. QED
  BY <1>1, <1>2, <1>3, <1>4, <1>5, <1>6, <1>7, <1>8, <1>9, <1>10, <1>11, <1>12, <1>13, <1>14, <1>15, <1>16, <1>17, <1>18 DEF Next, HostStep, RequestStep

(* The subnet of a job that ends goes back to the pool.                    *)
LEMMA Freed ==
    ASSUME NEW j \in Jobs, TypeOK, Pool,
           subnet'[j] = None, job'[j] = "ended", active' = active \ {subnet[j]},
           \A k \in Jobs \ {j} : subnet'[k] = subnet[k] /\ job'[k] = job[k]
    PROVE  Pool'
<1>1. active' = {subnet'[k] : k \in Jobs} \ {None}
  BY DEF Pool
<1>2. \A k, m \in Jobs : (k # m /\ subnet'[k] # None) => subnet'[k] # subnet'[m]
  BY DEF Pool
<1>3. \A k \in Jobs : subnet'[k] # None <=> job'[k] \in Holding
  BY DEF Pool, Holding
<1>4. QED
  BY <1>1, <1>2, <1>3 DEF Pool, Holding

(* The pool. *)
LEMMA PoolStep ==
    ASSUME TypeOK, Pool, [Next]_vars
    PROVE  Pool'
<1>1. ASSUME NEW j \in Jobs, PrepareRoot(j) PROVE Pool'
  BY <1>1 DEF TypeOK, Pool, Holding, PrepareRoot
<1>2. ASSUME NEW j \in Jobs, Reserve(j) PROVE Pool'
  <2>1. PICK start \in Indexes :
           /\ subnet' = [subnet EXCEPT ![j] = FirstFree(start, active)]
           /\ active' = active \cup {FirstFree(start, active)}
    BY <1>2 DEF Reserve
  <2> DEFINE i == FirstFree(start, active)
  <2>2. i \in Indexes /\ i \notin active
    BY <1>2, FirstFreeIsFree DEF Reserve
  <2>3. i # None
    BY <2>2, SandboxAssumption DEF Indexes
  <2>4. subnet[j] = None /\ \A k \in Jobs : subnet[k] # i
    BY <1>2, <2>2, <2>3 DEF Pool, Reserve, Holding
  <2> HIDE DEF i
  <2>5. subnet'[j] = i /\ (\A k \in Jobs \ {j} : subnet'[k] = subnet[k])
          /\ active' = active \cup {i}
    BY <2>1 DEF TypeOK, i
  <2>6. active' = {subnet'[k] : k \in Jobs} \ {None}
    BY <2>3, <2>4, <2>5 DEF Pool
  <2>7. job'[j] = "reserved" /\ \A k \in Jobs \ {j} : job'[k] = job[k]
    BY <1>2 DEF Reserve, TypeOK
  <2> QED
    BY <2>3, <2>4, <2>5, <2>6, <2>7 DEF Pool, Holding
<1>3. ASSUME NEW j \in Jobs, StartBroker(j) PROVE Pool'
  BY <1>3 DEF TypeOK, Pool, Holding, StartBroker, Listening
<1>4. ASSUME NEW j \in Jobs, Spawn(j) PROVE Pool'
  BY <1>4 DEF TypeOK, Pool, Holding, Spawn
<1>5. ASSUME NEW j \in Jobs, ConfigureVeth(j) PROVE Pool'
  BY <1>5 DEF TypeOK, Pool, Holding, ConfigureVeth
<1>6. ASSUME NEW j \in Jobs, SetupFails(j) PROVE Pool'
  <2>1. /\ subnet'[j] = None /\ job'[j] = "ended" /\ active' = active \ {subnet[j]}
        /\ \A k \in Jobs \ {j} : subnet'[k] = subnet[k] /\ job'[k] = job[k]
    BY <1>6 DEF SetupFails, Release, TypeOK
  <2> QED
    BY <2>1, Freed
<1>7. ASSUME NEW j \in Jobs, Exit(j) PROVE Pool'
  BY <1>7 DEF TypeOK, Pool, Holding, Exit
<1>8. ASSUME NEW j \in Jobs, Kill(j) PROVE Pool'
  BY <1>8 DEF TypeOK, Pool, Holding, Kill
<1>9. ASSUME NEW j \in Jobs, Finish(j) PROVE Pool'
  <2>1. /\ subnet'[j] = None /\ job'[j] = "ended" /\ active' = active \ {subnet[j]}
        /\ \A k \in Jobs \ {j} : subnet'[k] = subnet[k] /\ job'[k] = job[k]
    BY <1>9 DEF Finish, Release, TypeOK
  <2> QED
    BY <2>1, Freed
<1>10. ASSUME NEW j \in Jobs, Reaped(j) PROVE Pool'
  BY <1>10 DEF TypeOK, Pool, Holding, Reaped
<1>11. ASSUME NEW c \in Connections, NEW j \in Jobs, Admit(c, j) PROVE Pool'
  BY <1>11 DEF Pool, Holding, Admit, hostVars
<1>12. ASSUME NEW c \in Connections, FindCanary(c) PROVE Pool'
  BY <1>12 DEF Pool, Holding, FindCanary, Free, hostVars
<1>13. ASSUME NEW c \in Connections, Send(c) PROVE Pool'
  BY <1>13 DEF Pool, Holding, Send, hostVars
<1>14. ASSUME NEW c \in Connections, Drop(c) PROVE Pool'
  BY <1>14 DEF Pool, Holding, Drop, Free, hostVars
<1>15. ASSUME NEW c \in Connections, Respond(c) PROVE Pool'
  BY <1>15 DEF Pool, Holding, Respond, hostVars
<1>16. ASSUME NEW c \in Connections, Charge(c) PROVE Pool'
  BY <1>16 DEF Pool, Holding, Charge, UsageSeen, Free, hostVars
<1>17. ASSUME Shutdown PROVE Pool'
  <2>1. active' = {} /\ \A k \in Jobs : subnet'[k] = None /\ job'[k] \notin Holding
    BY <1>17 DEF Shutdown, TypeOK, Phases, Holding
  <2> QED
    BY <2>1 DEF Pool
<1>18. CASE UNCHANGED vars
  BY <1>18 DEF Pool, Holding, vars, hostVars, brokerVars
<1>19. QED
  BY <1>1, <1>2, <1>3, <1>4, <1>5, <1>6, <1>7, <1>8, <1>9, <1>10, <1>11, <1>12, <1>13, <1>14, <1>15, <1>16, <1>17, <1>18 DEF Next, HostStep, RequestStep

(* The host. *)
LEMMA HostStepKeeps ==
    ASSUME TypeOK, Host, [Next]_vars
    PROVE  Host'
<1>1. ASSUME NEW j \in Jobs, PrepareRoot(j) PROVE Host'
  BY <1>1 DEF TypeOK, Phases, Host, Holding, PrepareRoot, brokerVars
<1>2. ASSUME NEW j \in Jobs, Reserve(j) PROVE Host'
  BY <1>2 DEF TypeOK, Phases, Host, Holding, Reserve, Indexes, brokerVars
<1>3. ASSUME NEW j \in Jobs, StartBroker(j) PROVE Host'
  BY <1>3 DEF TypeOK, Phases, Host, Holding, StartBroker, Listening, brokerVars
<1>4. ASSUME NEW j \in Jobs, Spawn(j) PROVE Host'
  BY <1>4 DEF TypeOK, Phases, Host, Holding, Spawn, brokerVars
<1>5. ASSUME NEW j \in Jobs, ConfigureVeth(j) PROVE Host'
  BY <1>5 DEF TypeOK, Phases, Host, Holding, ConfigureVeth, brokerVars
<1>6. ASSUME NEW j \in Jobs, SetupFails(j) PROVE Host'
  BY <1>6 DEF TypeOK, Phases, Host, Holding, SetupFails, Closed, Release, brokerVars
<1>7. ASSUME NEW j \in Jobs, Exit(j) PROVE Host'
  BY <1>7 DEF TypeOK, Phases, Host, Holding, Exit, brokerVars
<1>8. ASSUME NEW j \in Jobs, Kill(j) PROVE Host'
  BY <1>8 DEF TypeOK, Phases, Host, Holding, Kill, brokerVars
<1>9. ASSUME NEW j \in Jobs, Finish(j) PROVE Host'
  BY <1>9 DEF TypeOK, Phases, Host, Holding, Finish, Closed, Release, Usage, Outcomes, UnderWay, brokerVars
<1>10. ASSUME NEW j \in Jobs, Reaped(j) PROVE Host'
  BY <1>10 DEF TypeOK, Phases, Host, Holding, Reaped, brokerVars
<1>11. ASSUME NEW c \in Connections, NEW j \in Jobs, Admit(c, j) PROVE Host'
  BY <1>11 DEF Host, Holding, Admit, hostVars
<1>12. ASSUME NEW c \in Connections, FindCanary(c) PROVE Host'
  BY <1>12 DEF Host, Holding, FindCanary, Free, hostVars
<1>13. ASSUME NEW c \in Connections, Send(c) PROVE Host'
  BY <1>13 DEF Host, Holding, Send, hostVars
<1>14. ASSUME NEW c \in Connections, Drop(c) PROVE Host'
  BY <1>14 DEF Host, Holding, Drop, Free, hostVars
<1>15. ASSUME NEW c \in Connections, Respond(c) PROVE Host'
  BY <1>15 DEF Host, Holding, Respond, hostVars
<1>16. ASSUME NEW c \in Connections, Charge(c) PROVE Host'
  BY <1>16 DEF Host, Holding, Charge, UsageSeen, Free, hostVars
<1>17. ASSUME Shutdown PROVE Host'
  BY <1>17 DEF TypeOK, Phases, Host, Holding, Shutdown, brokerVars
<1>18. CASE UNCHANGED vars
  BY <1>18 DEF Host, Holding, vars, hostVars, brokerVars
<1>19. QED
  BY <1>1, <1>2, <1>3, <1>4, <1>5, <1>6, <1>7, <1>8, <1>9, <1>10, <1>11, <1>12, <1>13, <1>14, <1>15, <1>16, <1>17, <1>18 DEF Next, HostStep, RequestStep

(* The requests. *)
LEMMA RequestsStep ==
    ASSUME TypeOK, Requests, [Next]_vars
    PROVE  Requests'
<1>1. ASSUME NEW j \in Jobs, PrepareRoot(j) PROVE Requests'
  <2>1. req' = req /\ \A k \in Jobs : broker'[k] = "none" => broker[k] = "none"
    BY <1>1 DEF TypeOK, PrepareRoot, brokerVars
  <2> QED
    BY <2>1 DEF Requests, UnderWay
<1>2. ASSUME NEW j \in Jobs, Reserve(j) PROVE Requests'
  <2>1. req' = req /\ \A k \in Jobs : broker'[k] = "none" => broker[k] = "none"
    BY <1>2 DEF TypeOK, Reserve, Indexes, brokerVars
  <2> QED
    BY <2>1 DEF Requests, UnderWay
<1>3. ASSUME NEW j \in Jobs, StartBroker(j) PROVE Requests'
  <2>1. req' = req /\ \A k \in Jobs : broker'[k] = "none" => broker[k] = "none"
    BY <1>3 DEF TypeOK, StartBroker, Listening, brokerVars
  <2> QED
    BY <2>1 DEF Requests, UnderWay
<1>4. ASSUME NEW j \in Jobs, Spawn(j) PROVE Requests'
  <2>1. req' = req /\ \A k \in Jobs : broker'[k] = "none" => broker[k] = "none"
    BY <1>4 DEF TypeOK, Spawn, brokerVars
  <2> QED
    BY <2>1 DEF Requests, UnderWay
<1>5. ASSUME NEW j \in Jobs, ConfigureVeth(j) PROVE Requests'
  <2>1. req' = req /\ \A k \in Jobs : broker'[k] = "none" => broker[k] = "none"
    BY <1>5 DEF TypeOK, ConfigureVeth, brokerVars
  <2> QED
    BY <2>1 DEF Requests, UnderWay
<1>6. ASSUME NEW j \in Jobs, SetupFails(j) PROVE Requests'
  <2>1. req' = req /\ \A k \in Jobs : broker'[k] = "none" => broker[k] = "none"
    BY <1>6 DEF TypeOK, SetupFails, Closed, Release, brokerVars
  <2> QED
    BY <2>1 DEF Requests, UnderWay
<1>7. ASSUME NEW j \in Jobs, Exit(j) PROVE Requests'
  <2>1. req' = req /\ \A k \in Jobs : broker'[k] = "none" => broker[k] = "none"
    BY <1>7 DEF TypeOK, Exit, brokerVars
  <2> QED
    BY <2>1 DEF Requests, UnderWay
<1>8. ASSUME NEW j \in Jobs, Kill(j) PROVE Requests'
  <2>1. req' = req /\ \A k \in Jobs : broker'[k] = "none" => broker[k] = "none"
    BY <1>8 DEF TypeOK, Kill, brokerVars
  <2> QED
    BY <2>1 DEF Requests, UnderWay
<1>9. ASSUME NEW j \in Jobs, Finish(j) PROVE Requests'
  <2>1. req' = req /\ \A k \in Jobs : broker'[k] = "none" => broker[k] = "none"
    BY <1>9 DEF TypeOK, Finish, Closed, Release, Usage, Outcomes, UnderWay, brokerVars
  <2> QED
    BY <2>1 DEF Requests, UnderWay
<1>10. ASSUME NEW j \in Jobs, Reaped(j) PROVE Requests'
  <2>1. req' = req /\ \A k \in Jobs : broker'[k] = "none" => broker[k] = "none"
    BY <1>10 DEF TypeOK, Reaped, brokerVars
  <2> QED
    BY <2>1 DEF Requests, UnderWay
<1>11. ASSUME NEW c \in Connections, NEW j \in Jobs, Admit(c, j) PROVE Requests'
  <2>1. req[c].job = None /\ broker[j] = "open" /\ broker' = broker
    BY <1>11 DEF Admit, Reaches, Requests
  <2>2. /\ \A k \in Jobs \ {j} : UnderWay(k)' = UnderWay(k)
        /\ \A d \in Connections \ {c} : req'[d] = req[d]
        /\ req'[c].pc = "reading" /\ req'[c].job = j
    BY <1>11, <2>1, Took DEF Admit, TypeOK, RequestRecords
  <2> QED
    BY <2>1, <2>2, SandboxAssumption DEF Requests
<1>12. ASSUME NEW c \in Connections, FindCanary(c) PROVE Requests'
  <2>1. broker' = broker /\ req' = [req EXCEPT ![c] = Free]
    BY <1>12 DEF FindCanary
  <2>2. req \in [Connections -> RequestRecords]
    BY DEF TypeOK, RequestRecords
  <2>3. /\ \A k \in Jobs : UnderWay(k)' = UnderWay(k) \ {c}
        /\ \A d \in Connections : req'[d] = IF d = c THEN Free ELSE req[d]
    BY <2>1, <2>2, Left
  <2> QED
    BY <2>1, <2>3 DEF Requests, Free
<1>13. ASSUME NEW c \in Connections, Send(c) PROVE Requests'
  <2>1. broker' = broker /\ req[c].pc # "free" /\ req' = [req EXCEPT ![c].pc = "sending"]
    BY <1>13 DEF Send
  <2>2. /\ \A k \in Jobs : UnderWay(k)' = UnderWay(k)
        /\ \A d \in Connections : req'[d].job = req[d].job
        /\ \A d \in Connections : req'[d].pc = IF d = c THEN "sending" ELSE req[d].pc
    BY <2>1, Moved DEF TypeOK, RequestRecords
  <2> QED
    BY <2>1, <2>2 DEF Requests
<1>14. ASSUME NEW c \in Connections, Drop(c) PROVE Requests'
  <2>1. broker' = broker /\ req' = [req EXCEPT ![c] = Free]
    BY <1>14 DEF Drop
  <2>2. req \in [Connections -> RequestRecords]
    BY DEF TypeOK, RequestRecords
  <2>3. /\ \A k \in Jobs : UnderWay(k)' = UnderWay(k) \ {c}
        /\ \A d \in Connections : req'[d] = IF d = c THEN Free ELSE req[d]
    BY <2>1, <2>2, Left
  <2> QED
    BY <2>1, <2>3 DEF Requests, Free
<1>15. ASSUME NEW c \in Connections, Respond(c) PROVE Requests'
  <2>1. broker' = broker /\ req[c].pc # "free" /\ req' = [req EXCEPT ![c].pc = "streaming"]
    BY <1>15 DEF Respond
  <2>2. /\ \A k \in Jobs : UnderWay(k)' = UnderWay(k)
        /\ \A d \in Connections : req'[d].job = req[d].job
        /\ \A d \in Connections : req'[d].pc = IF d = c THEN "streaming" ELSE req[d].pc
    BY <2>1, Moved DEF TypeOK, RequestRecords
  <2> QED
    BY <2>1, <2>2 DEF Requests
<1>16. ASSUME NEW c \in Connections, Charge(c) PROVE Requests'
  <2>1. broker' = broker /\ req' = [req EXCEPT ![c] = Free]
    BY <1>16 DEF Charge
  <2>2. req \in [Connections -> RequestRecords]
    BY DEF TypeOK, RequestRecords
  <2>3. /\ \A k \in Jobs : UnderWay(k)' = UnderWay(k) \ {c}
        /\ \A d \in Connections : req'[d] = IF d = c THEN Free ELSE req[d]
    BY <2>1, <2>2, Left
  <2> QED
    BY <2>1, <2>3 DEF Requests, Free
<1>17. ASSUME Shutdown PROVE Requests'
  <2>1. req' = req /\ \A k \in Jobs : broker'[k] = "none" => broker[k] = "none"
    BY <1>17 DEF TypeOK, Shutdown, brokerVars
  <2> QED
    BY <2>1 DEF Requests, UnderWay
<1>18. CASE UNCHANGED vars
  BY <1>18 DEF Requests, UnderWay, vars, hostVars, brokerVars
<1>19. QED
  BY <1>1, <1>2, <1>3, <1>4, <1>5, <1>6, <1>7, <1>8, <1>9, <1>10, <1>11, <1>12, <1>13, <1>14, <1>15, <1>16, <1>17, <1>18 DEF Next, HostStep, RequestStep

(* One request fewer, and the same or at most one charge more.             *)
LEMMA Charged ==
    ASSUME NEW c \in Connections, NEW cost \in UsageSeen, TypeOK, Metered,
           \A k \in Jobs : UnderWay(k)' = UnderWay(k) \ {c},
           \A k \in Jobs :
             ledger'[k] = IF c \in UnderWay(k) THEN ledger[k] + cost ELSE ledger[k]
    PROVE  Metered'
<1> SUFFICES ASSUME NEW k \in Jobs
             PROVE  \/ ledger'[k] < Limit
                    \/ ledger'[k] + Cardinality(UnderWay(k)') * MaxCharge <= Room
  BY DEF Metered, Room
<1> DEFINE u == Cardinality(UnderWay(k))
           n == Cardinality(Connections)
<1>1. u \in Nat /\ n \in Nat /\ u <= n /\ ledger[k] \in Nat /\ MaxCharge \in Nat
        /\ Limit \in Nat /\ cost \in Nat /\ cost <= MaxCharge
  BY Counted, SandboxAssumption DEF TypeOK, UsageSeen
<1>2. \/ ledger[k] < Limit
      \/ ledger[k] + u * MaxCharge <= Room
  BY DEF Metered
<1>3. CASE c \notin UnderWay(k)
  <2>1. UnderWay(k)' = UnderWay(k) /\ ledger'[k] = ledger[k]
    BY <1>3
  <2> QED
    BY <1>2, <2>1
<1>4. CASE c \in UnderWay(k)
  <2>1. /\ Cardinality(UnderWay(k)') = u - 1 /\ u >= 1
        /\ ledger'[k] = ledger[k] + cost
    BY <1>4, Counted
  <2> HIDE DEF u, n
  <2>2. /\ (u - 1) * MaxCharge = u * MaxCharge - MaxCharge
        /\ u * MaxCharge \in Nat /\ n * MaxCharge \in Nat
        /\ u * MaxCharge <= n * MaxCharge
    BY <1>1, <2>1, Products, OneLess
  <2> DEFINE um == u * MaxCharge
             nm == n * MaxCharge
             rest == (u - 1) * MaxCharge
  <2>3. um \in Nat /\ nm \in Nat /\ um <= nm /\ rest = um - MaxCharge
          /\ Room = Limit - 1 + nm
    BY <2>2 DEF Room, n
  <2>4. ledger[k] < Limit \/ ledger[k] + um <= Room
    BY <1>2 DEF u
  <2>5. Cardinality(UnderWay(k)') * MaxCharge = rest
    BY <2>1
  <2> HIDE DEF um, nm, rest
  <2>6. ledger[k] + cost + rest <= Room
    BY <1>1, <2>3, <2>4
  <2> QED
    BY <2>1, <2>5, <2>6
<1>5. QED
  BY <1>3, <1>4

LEMMA Lighter ==
    ASSUME NEW c \in Connections, TypeOK, Metered, ledger' = ledger,
           \A k \in Jobs : UnderWay(k)' = UnderWay(k) \ {c}
    PROVE  Metered'
<1> DEFINE cost == 0
<1>1. cost \in UsageSeen
  BY SandboxAssumption DEF UsageSeen
<1>2. \A k \in Jobs :
        ledger'[k] = IF c \in UnderWay(k) THEN ledger[k] + cost ELSE ledger[k]
  BY DEF TypeOK
<1> HIDE DEF cost
<1>3. QED
  BY <1>1, <1>2, Charged

(* The ledger. *)
LEMMA MeteredStep ==
    ASSUME TypeOK, Requests, Metered, [Next]_vars
    PROVE  Metered'
<1>1. ASSUME NEW j \in Jobs, PrepareRoot(j) PROVE Metered'
  <2>1. ledger' = ledger /\ req' = req
    BY <1>1 DEF PrepareRoot, brokerVars
  <2> QED
    BY <2>1 DEF Metered, UnderWay, Room
<1>2. ASSUME NEW j \in Jobs, Reserve(j) PROVE Metered'
  <2>1. ledger' = ledger /\ req' = req
    BY <1>2 DEF Reserve, brokerVars
  <2> QED
    BY <2>1 DEF Metered, UnderWay, Room
<1>3. ASSUME NEW j \in Jobs, StartBroker(j) PROVE Metered'
  <2>1. ledger' = ledger /\ req' = req
    BY <1>3 DEF StartBroker, brokerVars
  <2> QED
    BY <2>1 DEF Metered, UnderWay, Room
<1>4. ASSUME NEW j \in Jobs, Spawn(j) PROVE Metered'
  <2>1. ledger' = ledger /\ req' = req
    BY <1>4 DEF Spawn, brokerVars
  <2> QED
    BY <2>1 DEF Metered, UnderWay, Room
<1>5. ASSUME NEW j \in Jobs, ConfigureVeth(j) PROVE Metered'
  <2>1. ledger' = ledger /\ req' = req
    BY <1>5 DEF ConfigureVeth, brokerVars
  <2> QED
    BY <2>1 DEF Metered, UnderWay, Room
<1>6. ASSUME NEW j \in Jobs, SetupFails(j) PROVE Metered'
  <2>1. ledger' = ledger /\ req' = req
    BY <1>6 DEF SetupFails, brokerVars
  <2> QED
    BY <2>1 DEF Metered, UnderWay, Room
<1>7. ASSUME NEW j \in Jobs, Exit(j) PROVE Metered'
  <2>1. ledger' = ledger /\ req' = req
    BY <1>7 DEF Exit, brokerVars
  <2> QED
    BY <2>1 DEF Metered, UnderWay, Room
<1>8. ASSUME NEW j \in Jobs, Kill(j) PROVE Metered'
  <2>1. ledger' = ledger /\ req' = req
    BY <1>8 DEF Kill, brokerVars
  <2> QED
    BY <2>1 DEF Metered, UnderWay, Room
<1>9. ASSUME NEW j \in Jobs, Finish(j) PROVE Metered'
  <2>1. ledger' = ledger /\ req' = req
    BY <1>9 DEF Finish, brokerVars
  <2> QED
    BY <2>1 DEF Metered, UnderWay, Room
<1>10. ASSUME NEW j \in Jobs, Reaped(j) PROVE Metered'
  <2>1. ledger' = ledger /\ req' = req
    BY <1>10 DEF Reaped, brokerVars
  <2> QED
    BY <2>1 DEF Metered, UnderWay, Room
<1>11. ASSUME NEW c \in Connections, NEW j \in Jobs, Admit(c, j) PROVE Metered'
  <2>1. ledger' = ledger /\ ledger[j] < Limit /\ req[c].job = None
    BY <1>11 DEF Admit, MayStart, Requests
  <2>2. \A k \in Jobs \ {j} : UnderWay(k)' = UnderWay(k)
    BY <1>11, <2>1, Took DEF Admit, TypeOK, RequestRecords
  <2> QED
    BY <2>1, <2>2 DEF Metered, Room
<1>12. ASSUME NEW c \in Connections, FindCanary(c) PROVE Metered'
  <2>1. ledger' = ledger /\ req' = [req EXCEPT ![c] = Free]
    BY <1>12 DEF FindCanary
  <2>2. \A k \in Jobs : UnderWay(k)' = UnderWay(k) \ {c}
    BY <2>1, Left DEF TypeOK, RequestRecords
  <2> QED
    BY <2>1, <2>2, Lighter
<1>13. ASSUME NEW c \in Connections, Send(c) PROVE Metered'
  <2>1. ledger' = ledger /\ req' = [req EXCEPT ![c].pc = "sending"]
    BY <1>13 DEF Send
  <2>2. \A k \in Jobs : UnderWay(k)' = UnderWay(k)
    BY <2>1, Moved DEF TypeOK, RequestRecords
  <2> QED
    BY <2>1, <2>2 DEF Metered, Room
<1>14. ASSUME NEW c \in Connections, Drop(c) PROVE Metered'
  <2>1. ledger' = ledger /\ req' = [req EXCEPT ![c] = Free]
    BY <1>14 DEF Drop
  <2>2. \A k \in Jobs : UnderWay(k)' = UnderWay(k) \ {c}
    BY <2>1, Left DEF TypeOK, RequestRecords
  <2> QED
    BY <2>1, <2>2, Lighter
<1>15. ASSUME NEW c \in Connections, Respond(c) PROVE Metered'
  <2>1. ledger' = ledger /\ req' = [req EXCEPT ![c].pc = "streaming"]
    BY <1>15 DEF Respond
  <2>2. \A k \in Jobs : UnderWay(k)' = UnderWay(k)
    BY <2>1, Moved DEF TypeOK, RequestRecords
  <2> QED
    BY <2>1, <2>2 DEF Metered, Room
<1>16. ASSUME NEW c \in Connections, Charge(c) PROVE Metered'
  <2>1. PICK cost \in UsageSeen : ledger' = [ledger EXCEPT ![req[c].job] = @ + cost]
    BY <1>16 DEF Charge
  <2>2. /\ \A k \in Jobs : UnderWay(k)' = UnderWay(k) \ {c}
        /\ \A k \in Jobs : c \in UnderWay(k) <=> req[c].job = k
    BY <1>16, Left DEF Charge, TypeOK, RequestRecords
  <2>3. \A k \in Jobs :
          ledger'[k] = IF c \in UnderWay(k) THEN ledger[k] + cost ELSE ledger[k]
    BY <2>1, <2>2 DEF TypeOK
  <2> QED
    BY <2>2, <2>3, Charged
<1>17. ASSUME Shutdown PROVE Metered'
  <2>1. ledger' = ledger /\ req' = req
    BY <1>17 DEF Shutdown, brokerVars
  <2> QED
    BY <2>1 DEF Metered, UnderWay, Room
<1>18. CASE UNCHANGED vars
  BY <1>18 DEF Metered, UnderWay, Room, vars, hostVars, brokerVars
<1>19. QED
  BY <1>1, <1>2, <1>3, <1>4, <1>5, <1>6, <1>7, <1>8, <1>9, <1>10, <1>11, <1>12, <1>13, <1>14, <1>15, <1>16, <1>17, <1>18 DEF Next, HostStep, RequestStep

(* Secrets. *)
LEMMA SecretsStep ==
    ASSUME TypeOK, Secrets, [Next]_vars
    PROVE  Secrets'
<1>1. ASSUME NEW j \in Jobs, PrepareRoot(j) PROVE Secrets'
  BY <1>1 DEF Secrets, PrepareRoot, brokerVars
<1>2. ASSUME NEW j \in Jobs, Reserve(j) PROVE Secrets'
  BY <1>2 DEF Secrets, Reserve, brokerVars
<1>3. ASSUME NEW j \in Jobs, StartBroker(j) PROVE Secrets'
  BY <1>3 DEF Secrets, StartBroker, brokerVars
<1>4. ASSUME NEW j \in Jobs, Spawn(j) PROVE Secrets'
  BY <1>4 DEF Secrets, Spawn, brokerVars
<1>5. ASSUME NEW j \in Jobs, ConfigureVeth(j) PROVE Secrets'
  BY <1>5 DEF Secrets, ConfigureVeth, brokerVars
<1>6. ASSUME NEW j \in Jobs, SetupFails(j) PROVE Secrets'
  BY <1>6 DEF Secrets, SetupFails, brokerVars
<1>7. ASSUME NEW j \in Jobs, Exit(j) PROVE Secrets'
  BY <1>7 DEF Secrets, Exit, brokerVars
<1>8. ASSUME NEW j \in Jobs, Kill(j) PROVE Secrets'
  BY <1>8 DEF Secrets, Kill, brokerVars
<1>9. ASSUME NEW j \in Jobs, Finish(j) PROVE Secrets'
  BY <1>9 DEF Secrets, Finish, brokerVars
<1>10. ASSUME NEW j \in Jobs, Reaped(j) PROVE Secrets'
  BY <1>10 DEF Secrets, Reaped, brokerVars
<1>11. ASSUME NEW c \in Connections, NEW j \in Jobs, Admit(c, j) PROVE Secrets'
  BY <1>11 DEF Secrets, Admit, brokerVars
<1>12. ASSUME NEW c \in Connections, FindCanary(c) PROVE Secrets'
  BY <1>12 DEF Secrets, FindCanary, TypeOK
<1>13. ASSUME NEW c \in Connections, Send(c) PROVE Secrets'
  BY <1>13 DEF Secrets, Send, brokerVars
<1>14. ASSUME NEW c \in Connections, Drop(c) PROVE Secrets'
  BY <1>14 DEF Secrets, Drop, brokerVars
<1>15. ASSUME NEW c \in Connections, Respond(c) PROVE Secrets'
  BY <1>15 DEF Secrets, Respond, brokerVars
<1>16. ASSUME NEW c \in Connections, Charge(c) PROVE Secrets'
  BY <1>16 DEF Secrets, Charge, brokerVars
<1>17. ASSUME Shutdown PROVE Secrets'
  BY <1>17 DEF Secrets, Shutdown, brokerVars
<1>18. CASE UNCHANGED vars
  BY <1>18 DEF Secrets, vars, hostVars, brokerVars
<1>19. QED
  BY <1>1, <1>2, <1>3, <1>4, <1>5, <1>6, <1>7, <1>8, <1>9, <1>10, <1>11, <1>12, <1>13, <1>14, <1>15, <1>16, <1>17, <1>18 DEF Next, HostStep, RequestStep

(* A job that has not ended moves on.                                      *)
LEMMA Kept ==
    ASSUME NEW j \in Jobs, Ended, job[j] # "ended",
           \A k \in Jobs \ {j} : job'[k] = job[k],
           UNCHANGED <<report, result, late, ledger, leaked, req>>
    PROVE  Ended'
BY DEF Ended, Reported, UnderWay

(* Jobs that have ended. *)
LEMMA EndedStep ==
    ASSUME TypeOK, Host, Requests, Secrets, Ended, [Next]_vars
    PROVE  Ended'
<1>1. ASSUME NEW j \in Jobs, PrepareRoot(j) PROVE Ended'
  <2>1. job[j] # "ended" /\ \A k \in Jobs \ {j} : job'[k] = job[k]
    BY <1>1 DEF PrepareRoot, TypeOK
  <2>2. UNCHANGED <<report, result, late, ledger, leaked, req>>
    BY <1>1 DEF PrepareRoot, brokerVars
  <2> QED
    BY <2>1, <2>2, Kept DEF TypeOK
<1>2. ASSUME NEW j \in Jobs, Reserve(j) PROVE Ended'
  <2>1. job[j] # "ended" /\ \A k \in Jobs \ {j} : job'[k] = job[k]
    BY <1>2 DEF Reserve, TypeOK
  <2>2. UNCHANGED <<report, result, late, ledger, leaked, req>>
    BY <1>2 DEF Reserve, brokerVars
  <2> QED
    BY <2>1, <2>2, Kept DEF TypeOK
<1>3. ASSUME NEW j \in Jobs, StartBroker(j) PROVE Ended'
  <2>1. job[j] # "ended" /\ \A k \in Jobs \ {j} : job'[k] = job[k]
    BY <1>3 DEF StartBroker, TypeOK
  <2>2. UNCHANGED <<report, result, late, ledger, leaked, req>>
    BY <1>3 DEF StartBroker, brokerVars
  <2> QED
    BY <2>1, <2>2, Kept DEF TypeOK
<1>4. ASSUME NEW j \in Jobs, Spawn(j) PROVE Ended'
  <2>1. job[j] # "ended" /\ \A k \in Jobs \ {j} : job'[k] = job[k]
    BY <1>4 DEF Spawn, TypeOK
  <2>2. UNCHANGED <<report, result, late, ledger, leaked, req>>
    BY <1>4 DEF Spawn, brokerVars
  <2> QED
    BY <2>1, <2>2, Kept DEF TypeOK
<1>5. ASSUME NEW j \in Jobs, ConfigureVeth(j) PROVE Ended'
  <2>1. job[j] # "ended" /\ \A k \in Jobs \ {j} : job'[k] = job[k]
    BY <1>5 DEF ConfigureVeth, TypeOK
  <2>2. UNCHANGED <<report, result, late, ledger, leaked, req>>
    BY <1>5 DEF ConfigureVeth, brokerVars
  <2> QED
    BY <2>1, <2>2, Kept DEF TypeOK
<1>6. ASSUME NEW j \in Jobs, SetupFails(j) PROVE Ended'
  <2>1. /\ job[j] # "ended" /\ result'[j] = "failed"
        /\ \A k \in Jobs \ {j} : job'[k] = job[k] /\ result'[k] = result[k]
    BY <1>6 DEF SetupFails, TypeOK
  <2>2. UNCHANGED <<report, late, ledger, leaked, req>>
    BY <1>6 DEF SetupFails
  <2> QED
    BY <2>1, <2>2 DEF Ended, Reported, UnderWay
<1>7. ASSUME NEW j \in Jobs, Exit(j) PROVE Ended'
  <2>1. job[j] # "ended" /\ \A k \in Jobs \ {j} : job'[k] = job[k]
    BY <1>7 DEF Exit, TypeOK
  <2>2. UNCHANGED <<report, result, late, ledger, leaked, req>>
    BY <1>7 DEF Exit, brokerVars
  <2> QED
    BY <2>1, <2>2, Kept DEF TypeOK
<1>8. ASSUME NEW j \in Jobs, Kill(j) PROVE Ended'
  <2>1. job[j] # "ended" /\ \A k \in Jobs \ {j} : job'[k] = job[k]
    BY <1>8 DEF Kill, TypeOK
  <2>2. UNCHANGED <<report, result, late, ledger, leaked, req>>
    BY <1>8 DEF Kill, brokerVars
  <2> QED
    BY <2>1, <2>2, Kept DEF TypeOK
<1>9. ASSUME NEW j \in Jobs, Finish(j) PROVE Ended'
  <2>1. /\ \A k \in Jobs \ {j} : /\ job'[k] = job[k] /\ result'[k] = result[k]
                                   /\ report'[k] = report[k] /\ late'[k] = late[k]
        /\ job'[j] = "ended" /\ late'[j] = (UnderWay(j) # {})
        /\ report'[j] = Usage(j) /\ result'[j] \in Outcomes(j)
    BY <1>9 DEF Finish, TypeOK
  <2>2. UNCHANGED <<ledger, leaked, req>>
    BY <1>9 DEF Finish
  <2>3. \A k \in Jobs : UnderWay(k)' = UnderWay(k)
    BY <2>2 DEF UnderWay
  <2>4. Usage(j) # None => Usage(j) = ledger[j]
    BY DEF Usage
  <2>5. result'[j] = "outcome" => ~leaked[j]
    BY <2>1 DEF Outcomes, Secrets
  <2> QED
    BY <2>1, <2>2, <2>3, <2>4, <2>5 DEF Ended, Reported
<1>10. ASSUME NEW j \in Jobs, Reaped(j) PROVE Ended'
  BY <1>10 DEF Ended, Reported, UnderWay, Reaped, brokerVars
<1>11. ASSUME NEW c \in Connections, NEW j \in Jobs, Admit(c, j) PROVE Ended'
  <2>1. job[j] # "ended" /\ req[c].job = None
    BY <1>11 DEF Admit, Reaches, Host, Requests
  <2>2. \A k \in Jobs \ {j} : UnderWay(k)' = UnderWay(k)
    BY <1>11, <2>1, Took DEF Admit, TypeOK, RequestRecords
  <2>3. UNCHANGED <<report, result, late, ledger, leaked, job>>
    BY <1>11 DEF Admit, hostVars
  <2> QED
    BY <2>1, <2>2, <2>3 DEF Ended, Reported
<1>12. ASSUME NEW c \in Connections, FindCanary(c) PROVE Ended'
  <2>1. UNCHANGED <<report, result, late, ledger, job>>
    BY <1>12 DEF FindCanary, hostVars
  <2>2. /\ \A k \in Jobs : UnderWay(k)' = UnderWay(k) \ {c}
        /\ \A k \in Jobs : c \in UnderWay(k) <=> req[c].job = k
    BY <1>12, Left DEF FindCanary, TypeOK, RequestRecords
  <2>3. \A k \in Jobs : c \notin UnderWay(k) => leaked'[k] = leaked[k]
    BY <1>12, <2>2 DEF FindCanary, TypeOK
  <2> QED
    BY <2>1, <2>2, <2>3 DEF Ended, Reported
<1>13. ASSUME NEW c \in Connections, Send(c) PROVE Ended'
  <2>1. UNCHANGED <<report, result, late, ledger, leaked, job>>
    BY <1>13 DEF Send, hostVars
  <2>2. \A k \in Jobs : UnderWay(k)' = UnderWay(k)
    BY <1>13, Moved DEF Send, TypeOK, RequestRecords
  <2> QED
    BY <2>1, <2>2 DEF Ended, Reported
<1>14. ASSUME NEW c \in Connections, Drop(c) PROVE Ended'
  <2>1. UNCHANGED <<report, result, late, ledger, leaked, job>>
    BY <1>14 DEF Drop, hostVars
  <2>2. /\ \A k \in Jobs : UnderWay(k)' = UnderWay(k) \ {c}
        /\ \A k \in Jobs : c \in UnderWay(k) <=> req[c].job = k
    BY <1>14, Left DEF Drop, TypeOK, RequestRecords
  <2> QED
    BY <2>1, <2>2 DEF Ended, Reported
<1>15. ASSUME NEW c \in Connections, Respond(c) PROVE Ended'
  <2>1. UNCHANGED <<report, result, late, ledger, leaked, job>>
    BY <1>15 DEF Respond, hostVars
  <2>2. \A k \in Jobs : UnderWay(k)' = UnderWay(k)
    BY <1>15, Moved DEF Respond, TypeOK, RequestRecords
  <2> QED
    BY <2>1, <2>2 DEF Ended, Reported
<1>16. ASSUME NEW c \in Connections, Charge(c) PROVE Ended'
  <2>1. UNCHANGED <<report, result, late, leaked, job>>
    BY <1>16 DEF Charge, hostVars
  <2>2. /\ \A k \in Jobs : UnderWay(k)' = UnderWay(k) \ {c}
        /\ \A k \in Jobs : c \in UnderWay(k) <=> req[c].job = k
    BY <1>16, Left DEF Charge, TypeOK, RequestRecords
  <2>3. \A k \in Jobs : c \notin UnderWay(k) => ledger'[k] = ledger[k]
    BY <1>16, <2>2 DEF Charge, TypeOK
  <2> QED
    BY <2>1, <2>2, <2>3 DEF Ended, Reported
<1>17. ASSUME Shutdown PROVE Ended'
  <2>1. \A k \in Jobs : job[k] = "ended" => job'[k] = "ended" /\ result'[k] = result[k]
    BY <1>17 DEF Shutdown
  <2>2. \A k \in Jobs : result'[k] = "outcome" => result[k] = "outcome"
    BY <1>17 DEF Shutdown
  <2>3. UNCHANGED <<report, late, ledger, leaked, req>>
    BY <1>17 DEF Shutdown
  <2> QED
    BY <2>1, <2>2, <2>3 DEF Ended, Reported, UnderWay
<1>18. CASE UNCHANGED vars
  BY <1>18 DEF Ended, Reported, UnderWay, vars, hostVars, brokerVars
<1>19. QED
  BY <1>1, <1>2, <1>3, <1>4, <1>5, <1>6, <1>7, <1>8, <1>9, <1>10, <1>11, <1>12, <1>13, <1>14, <1>15, <1>16, <1>17, <1>18 DEF Next, HostStep, RequestStep

-----------------------------------------------------------------------------
THEOREM Invariance == Spec => []IInv
<1>1. Init => IInv
  <2> SUFFICES ASSUME Init PROVE IInv
    OBVIOUS
  <2>1. TypeOK
    BY SandboxAssumption DEF Init, TypeOK, Phases, Free
  <2>2. Pool /\ Host
    BY DEF Init, Pool, Host, Holding
  <2>3. Requests
    BY SandboxAssumption DEF Init, Requests, UnderWay, Free
  <2>4. Metered /\ Secrets /\ Ended
    BY SandboxAssumption DEF Init, Metered, Secrets, Ended, Reported
  <2> QED
    BY <2>1, <2>2, <2>3, <2>4 DEF IInv
<1>2. IInv /\ [Next]_vars => IInv'
  BY TypeStep, PoolStep, HostStepKeeps, RequestsStep, MeteredStep, SecretsStep, EndedStep
  DEF IInv
<1>3. QED
  BY <1>1, <1>2, PTL DEF Spec

(* While a container runs it has its root, a subnet of its own and its     *)
(* broker, and no subnet is lost.                                          *)
THEOREM Apart == Spec => []SandboxesAreApart
<1>1. IInv => SandboxesAreApart
  <2> SUFFICES ASSUME IInv PROVE SandboxesAreApart
    OBVIOUS
  <2>1. \A j \in Jobs : sandbox[j] = "alive" =>
          root[j] /\ subnet[j] # None /\ broker[j] \in {"open", "none"}
    <3> SUFFICES ASSUME NEW j \in Jobs, sandbox[j] = "alive"
                 PROVE  root[j] /\ subnet[j] # None /\ broker[j] \in {"open", "none"}
      OBVIOUS
    <3>1. job[j] \in {"spawned", "running"}
      BY DEF IInv, Host
    <3>2. root[j] /\ subnet[j] # None
      BY <3>1 DEF IInv, Host, Pool, Holding
    <3>3. broker[j] \in {"open", "none"}
      BY <3>1 DEF IInv, Host, TypeOK
    <3> QED
      BY <3>2, <3>3
  <2> QED
    BY <2>1 DEF IInv, Pool, SandboxesAreApart
<1>2. QED
  BY <1>1, Invariance, PTL

(* A limit is overshot by no more than what was under way at once.         *)
THEOREM Overshoot == Spec => []OvershootIsBounded
<1>1. IInv => OvershootIsBounded
  <2> SUFFICES ASSUME IInv, NEW j \in Jobs, ledger[j] >= Limit
               PROVE  ledger[j] + Cardinality(UnderWay(j)) * MaxCharge
                        < Limit + Cardinality(Connections) * MaxCharge
    BY DEF OvershootIsBounded
  <2>1. /\ ledger[j] \in Nat /\ Limit \in Nat /\ MaxCharge \in Nat
        /\ Cardinality(UnderWay(j)) \in Nat /\ Cardinality(Connections) \in Nat
    BY Counted, SandboxAssumption DEF IInv, TypeOK
  <2> DEFINE m == Cardinality(UnderWay(j)) * MaxCharge
             n == Cardinality(Connections) * MaxCharge
  <2>2. m \in Nat /\ n \in Nat
    BY <2>1, Products
  <2>3. ledger[j] + m <= Limit - 1 + n
    BY <2>1 DEF IInv, Metered, Room
  <2> HIDE DEF m, n
  <2>4. ledger[j] + m < Limit + n
    BY <2>1, <2>2, <2>3
  <2> QED
    BY <2>4 DEF m, n
<1>2. QED
  BY <1>1, Invariance, PTL

(* A job whose broker has read a secret has no outcome, unless the request *)
(* outlived the shutdown of the broker.                                    *)
THEOREM LeakedJobsFail == Spec => []SecretsFailTheJob
<1>1. IInv => SecretsFailTheJob
  BY DEF IInv, Ended, Reported, SecretsFailTheJob
<1>2. QED
  BY <1>1, Invariance, PTL

(* Nothing is charged after a report that was not late.                    *)
THEOREM Final == Spec => ReportIsFinal
<1> DEFINE A == \A j \in Jobs : (report[j] # None /\ ~late[j]) => ledger'[j] = report[j]
<1>1. ASSUME IInv, [Next]_vars PROVE [A]_vars
  <2> SUFFICES ASSUME NEW j \in Jobs, report[j] # None, ~late[j]
               PROVE  ledger'[j] = report[j]
    OBVIOUS
  <2>1. UnderWay(j) = {} /\ report[j] = ledger[j]
    BY <1>1 DEF IInv, Ended, Reported
  <2>2. ASSUME NEW c \in Connections, Charge(c) PROVE ledger'[j] = ledger[j]
    BY <1>1, <2>1, <2>2 DEF Charge, UnderWay, IInv, TypeOK
  <2>3. ASSUME NEW k \in Jobs, HostStep(k) PROVE ledger' = ledger
    BY <2>3 DEF HostStep, PrepareRoot, Reserve, StartBroker, Spawn, ConfigureVeth,
       SetupFails, Exit, Kill, Finish, Reaped, brokerVars
  <2>4. ASSUME NEW c \in Connections, RequestStep(c), ~Charge(c) PROVE ledger' = ledger
    BY <2>4 DEF RequestStep, Admit, FindCanary, Send, Drop, Respond
  <2>5. CASE Shutdown \/ UNCHANGED vars
    BY <2>1, <2>5 DEF Shutdown, vars, brokerVars
  <2> QED
    BY <1>1, <2>1, <2>2, <2>3, <2>4, <2>5 DEF Next
<1>2. QED
  BY <1>1, Invariance, PTL DEF Spec, ReportIsFinal
=============================================================================
