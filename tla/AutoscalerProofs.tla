-------------------------- MODULE AutoscalerProofs --------------------------
(***************************************************************************)
(* Proofs about Autoscaler, for every list of configured and of standby    *)
(* workers, any bounds, thresholds and depths of the queue, with Docker or *)
(* without, whatever requests and health checks do beside it.              *)
(***************************************************************************)
EXTENDS Autoscaler, LoadBalancerProofs, SequenceTheorems, FunctionTheorems

-----------------------------------------------------------------------------
(* The autoscaler's lists: what the operators on sequences do.             *)

\* The set of a list's elements, and when it repeats none.
LEMMA Elements ==
    ASSUME NEW S, NEW s \in Seq(S)
    PROVE  /\ Len(s) \in Nat
           /\ ToSet(s) = {s[i] : i \in 1 .. Len(s)}
           /\ IsInjective(s) <=> \A i, j \in 1 .. Len(s) : s[i] = s[j] => i = j
<1>1. Len(s) \in Nat
  BY LenProperties
<1>2. DOMAIN s = 1 .. Len(s)
  BY LenProperties
<1>3. ToSet(s) = {s[i] : i \in 1 .. Len(s)}
  BY <1>2 DEF ToSet
<1>4. IsInjective(s) <=> \A i, j \in 1 .. Len(s) : s[i] = s[j] => i = j
  BY <1>2 DEF IsInjective
<1> QED
  BY <1>1, <1>3, <1>4

\* A list that goes on where another ends.
LEMMA OneMore ==
    ASSUME NEW S, NEW s \in Seq(S), NEW t \in Seq(S), NEW x,
           Len(t) = Len(s) + 1,
           \A i \in 1 .. Len(s) : t[i] = s[i],
           t[Len(t)] = x
    PROVE  /\ ToSet(t) = ToSet(s) \cup {x}
           /\ IsInjective(t) <=> IsInjective(s) /\ x \notin ToSet(s)
<1>1. /\ Len(s) \in Nat
      /\ ToSet(s) = {s[i] : i \in 1 .. Len(s)}
      /\ IsInjective(s) <=> \A i, j \in 1 .. Len(s) : s[i] = s[j] => i = j
  BY Elements
<1>2. /\ ToSet(t) = {t[i] : i \in 1 .. Len(t)}
      /\ IsInjective(t) <=> \A i, j \in 1 .. Len(t) : t[i] = t[j] => i = j
  BY Elements
<1>3. /\ \A i \in 1 .. Len(t) : i \in 1 .. Len(s) \/ i = Len(t)
      /\ \A i \in 1 .. Len(s) : i \in 1 .. Len(t) /\ i # Len(t)
      /\ Len(t) \in 1 .. Len(t)
  BY <1>1
<1>4. ToSet(t) \subseteq ToSet(s) \cup {x}
  BY <1>1, <1>2, <1>3
<1>5. ToSet(s) \cup {x} \subseteq ToSet(t)
  BY <1>1, <1>2, <1>3
<1>6. ASSUME IsInjective(t)
      PROVE  IsInjective(s) /\ x \notin ToSet(s)
  BY <1>1, <1>2, <1>3, <1>6
<1>7. ASSUME IsInjective(s), x \notin ToSet(s)
      PROVE  IsInjective(t)
  BY <1>1, <1>2, <1>3, <1>7
<1> QED
  BY <1>4, <1>5, <1>6, <1>7

\* A list that begins before another.
LEMMA OneBefore ==
    ASSUME NEW S, NEW s \in Seq(S), NEW t \in Seq(S), NEW x,
           Len(t) = Len(s) + 1,
           \A i \in 1 .. Len(s) : t[i + 1] = s[i],
           t[1] = x
    PROVE  ToSet(t) = {x} \cup ToSet(s)
<1>1. /\ Len(s) \in Nat
      /\ ToSet(s) = {s[i] : i \in 1 .. Len(s)}
  BY Elements
<1>2. ToSet(t) = {t[i] : i \in 1 .. Len(t)}
  BY Elements
<1>3. \A i \in 1 .. Len(t) : i = 1 \/ \E j \in 1 .. Len(s) : i = j + 1
  <2>1. \A i \in 1 .. Len(t) : i = 1 \/ (i - 1 \in 1 .. Len(s) /\ i = (i - 1) + 1)
    BY <1>1
  <2> QED
    BY <2>1
<1>4. 1 \in 1 .. Len(t) /\ \A i \in 1 .. Len(s) : i + 1 \in 1 .. Len(t)
  BY <1>1
<1>5. \A i \in 1 .. Len(t) : t[i] \in {x} \cup ToSet(s)
  <2> TAKE i \in 1 .. Len(t)
  <2>1. CASE i = 1
    BY <2>1
  <2>2. ASSUME NEW j \in 1 .. Len(s), i = j + 1
        PROVE  t[i] \in {x} \cup ToSet(s)
    BY <1>1, <2>2
  <2> QED
    BY <1>3, <2>1, <2>2
<1>6. {x} \cup ToSet(s) \subseteq ToSet(t)
  BY <1>1, <1>2, <1>4
<1> QED
  BY <1>2, <1>5, <1>6

\* A list is its last element after the others.
LEMMA FrontAndLast ==
    ASSUME NEW S, NEW s \in Seq(S), s # <<>>
    PROVE  /\ Front(s) \in Seq(S) /\ Last(s) \in S
           /\ Len(Front(s)) \in Nat /\ Len(s) = Len(Front(s)) + 1
           /\ ToSet(s) = ToSet(Front(s)) \cup {Last(s)}
           /\ IsInjective(s) <=> IsInjective(Front(s)) /\ Last(s) \notin ToSet(Front(s))
<1>1. Len(s) \in Nat /\ Len(s) > 0
  BY EmptySeq
<1>2. \A i \in 1 .. Len(s) : s[i] \in S
  BY ElementOfSeq
<1>3. /\ SubSeq(s, 1, Len(s) - 1) \in Seq(S)
      /\ Len(SubSeq(s, 1, Len(s) - 1)) = IF 1 <= Len(s) - 1 THEN (Len(s) - 1) - 1 + 1 ELSE 0
      /\ \A i \in 1 .. (Len(s) - 1) - 1 + 1 : SubSeq(s, 1, Len(s) - 1)[i] = s[1 + i - 1]
  <2>1. 1 \in Int /\ Len(s) - 1 \in Int /\ \A i \in 1 .. Len(s) - 1 : s[i] \in S
    BY <1>1, <1>2
  <2> QED
    BY <2>1, SubSeqProperties
<1>4. Front(s) = SubSeq(s, 1, Len(s) - 1) /\ Last(s) = s[Len(s)]
  BY DEF Front, Last
<1>5. Front(s) \in Seq(S) /\ Len(Front(s)) = Len(s) - 1 /\ Last(s) \in S
  <2>1. Len(Front(s)) = IF 1 <= Len(s) - 1 THEN (Len(s) - 1) - 1 + 1 ELSE 0
    BY <1>3, <1>4, Zenon
  <2>5. \A k \in Nat : k > 0 => (IF 1 <= k - 1 THEN (k - 1) - 1 + 1 ELSE 0) = k - 1
    OBVIOUS
  <2>6. Len(Front(s)) = Len(s) - 1
    BY <1>1, <2>1, <2>5, Zenon
  <2>2. Len(s) \in 1 .. Len(s)
    BY <1>1
  <2>3. Front(s) \in Seq(S)
    BY <1>3, <1>4
  <2>4. Last(s) \in S
    BY <1>2, <1>4, <2>2
  <2> QED
    BY <2>6, <2>3, <2>4
<1>6. \A i \in 1 .. Len(Front(s)) : s[i] = Front(s)[i]
  BY <1>1, <1>3, <1>4, <1>5
<1>7. /\ ToSet(s) = ToSet(Front(s)) \cup {Last(s)}
      /\ IsInjective(s) <=> IsInjective(Front(s)) /\ Last(s) \notin ToSet(Front(s))
  <2>1. Len(s) = Len(Front(s)) + 1 /\ s[Len(s)] = Last(s)
    BY <1>1, <1>4, <1>5
  <2> QED
    BY <1>5, <1>6, <2>1, OneMore
<1> QED
  BY <1>1, <1>5, <1>7

\* A list is its first element before the others.
LEMMA HeadAndTail ==
    ASSUME NEW S, NEW s \in Seq(S), s # <<>>
    PROVE  /\ Tail(s) \in Seq(S) /\ Head(s) \in S
           /\ ToSet(s) = {Head(s)} \cup ToSet(Tail(s))
<1>1. Len(s) \in Nat /\ Len(s) > 0
  BY EmptySeq
<1>2. /\ Head(s) \in S /\ Tail(s) \in Seq(S) /\ Len(Tail(s)) = Len(s) - 1
      /\ \A i \in 1 .. Len(Tail(s)) : Tail(s)[i] = s[i + 1]
  BY HeadTailProperties
<1>3. s[1] = Head(s)
  OBVIOUS
<1>4. Len(s) = Len(Tail(s)) + 1
  BY <1>1, <1>2
<1>5. ToSet(s) = {Head(s)} \cup ToSet(Tail(s))
  <2> DEFINE t == Tail(s)
  <2>1. t \in Seq(S) /\ Len(s) = Len(t) + 1 /\ \A i \in 1 .. Len(t) : s[i + 1] = t[i]
    BY <1>2, <1>4
  <2> HIDE DEF t
  <2>2. ToSet(s) = {Head(s)} \cup ToSet(t)
    BY <2>1, <1>3, OneBefore
  <2> QED
    BY <2>2 DEF t
<1> QED
  BY <1>2, <1>5

\* Appending an element adds it.
LEMMA Appended ==
    ASSUME NEW S, NEW s \in Seq(S), NEW x \in S
    PROVE  /\ Append(s, x) \in Seq(S)
           /\ Len(s) \in Nat /\ Len(Append(s, x)) = Len(s) + 1
           /\ ToSet(Append(s, x)) = ToSet(s) \cup {x}
           /\ IsInjective(Append(s, x)) <=> IsInjective(s) /\ x \notin ToSet(s)
<1>1. /\ Append(s, x) \in Seq(S)
      /\ Len(Append(s, x)) = Len(s) + 1
      /\ \A i \in 1 .. Len(s) : Append(s, x)[i] = s[i]
      /\ Append(s, x)[Len(s) + 1] = x
  BY AppendProperties
<1>2. Len(s) \in Nat
  BY LenProperties
<1>3. /\ ToSet(Append(s, x)) = ToSet(s) \cup {x}
      /\ IsInjective(Append(s, x)) <=> IsInjective(s) /\ x \notin ToSet(s)
  BY <1>1, OneMore
<1> QED
  BY <1>1, <1>2, <1>3

\* So does putting it in front.
LEMMA Prepended ==
    ASSUME NEW S, NEW s \in Seq(S), NEW x \in S
    PROVE  <<x>> \o s \in Seq(S) /\ ToSet(<<x>> \o s) = {x} \cup ToSet(s)
<1>1. <<x>> \in Seq(S) /\ Len(<<x>>) = 1 /\ <<x>>[1] = x
  OBVIOUS
<1>2. /\ <<x>> \o s \in Seq(S) /\ Len(<<x>> \o s) = Len(<<x>>) + Len(s)
      /\ \A i \in 1 .. Len(<<x>>) + Len(s) :
            (<<x>> \o s)[i] = IF i <= Len(<<x>>) THEN <<x>>[i] ELSE s[i - Len(<<x>>)]
  BY <1>1, ConcatProperties
<1>3. Len(s) \in Nat
  BY LenProperties
<1>4. Len(<<x>> \o s) = Len(s) + 1
  BY <1>1, <1>2, <1>3
<1>5. (<<x>> \o s)[1] = x
  BY <1>1, <1>2, <1>3
<1>6. \A i \in 1 .. Len(s) : (<<x>> \o s)[i + 1] = s[i]
  BY <1>1, <1>2, <1>3
<1>7. ToSet(<<x>> \o s) = {x} \cup ToSet(s)
  <2> DEFINE t == <<x>> \o s
  <2>1. t \in Seq(S) /\ Len(t) = Len(s) + 1 /\ t[1] = x /\ \A i \in 1 .. Len(s) : t[i + 1] = s[i]
    BY <1>2, <1>4, <1>5, <1>6
  <2> HIDE DEF t
  <2>2. ToSet(t) = {x} \cup ToSet(s)
    BY <2>1, OneBefore
  <2> QED
    BY <2>2 DEF t
<1> QED
  BY <1>2, <1>7

-----------------------------------------------------------------------------
(* The autoscaler drives the load balancer by its operations only.         *)

USE ConstantsOK, NoClientOK, ScalerConstants

\* The types of the autoscaler's own variables.
ListsTyped ==
    /\ docker \in BOOLEAN
    /\ standby \in Seq(Urls)
    /\ dynamic \in Seq(Urls)
    /\ spawned \in Seq(Places)
    /\ container \in [Places -> {"none", "running", "stopped"}]
    /\ cooling \in BOOLEAN

\* At first it has all the standby URLs and nothing of its own.
LEMMA InitListsTyped == ScalerInit => ListsTyped
BY DEF ScalerInit, ListsTyped

\* Every step of an iteration, and what goes on beside it, keeps them.
LEMMA ListsTypedStep == ListsTyped /\ [ScalerNext]_allVars => ListsTyped'
<1> SUFFICES ASSUME ListsTyped, [ScalerNext]_allVars
             PROVE  ListsTyped'
  OBVIOUS
<1> USE DEF ListsTyped
<1>1. CASE RegisterStandby \/ SkipStandby
  <2>1. Tail(standby) \in Seq(Urls)
    BY <1>1, HeadAndTail DEF RegisterStandby, SkipStandby
  <2> QED
    BY <1>1, <2>1 DEF RegisterStandby, SkipStandby, vars
<1>2. CASE ReleaseStandby
  <2>1. Front(dynamic) \in Seq(Urls) /\ <<Last(dynamic)>> \o standby \in Seq(Urls)
    BY <1>2, FrontAndLast, Prepended DEF ReleaseStandby
  <2> QED
    BY <1>2, <2>1 DEF ReleaseStandby
<1>3. CASE StopContainer
  <2>1. Front(spawned) \in Seq(Places) /\ Last(spawned) \in Places
    BY <1>3, FrontAndLast DEF StopContainer
  <2> QED
    BY <1>3, <2>1 DEF StopContainer
<1>4. CASE CoolDown
  BY <1>4 DEF CoolDown
<1>5. ASSUME NEW c \in Clients, StandbyChecked(c)
      PROVE  ListsTyped'
  <2>1. UrlOf(c) \in Urls
    BY DEF UrlOf, Clients
  <2>2. Append(dynamic, UrlOf(c)) \in Seq(Urls)
    BY <2>1
  <2> QED
    BY <1>5, <2>2 DEF StandbyChecked
<1>6. ASSUME NEW n \in Places, SpawnContainer(n)
      PROVE  ListsTyped'
  <2>1. Append(spawned, n) \in Seq(Places)
    OBVIOUS
  <2> QED
    BY <1>6, <2>1 DEF SpawnContainer
<1>7. ASSUME NEW n \in Places, SpawnFails(n) \/ ContainerExits(n)
      PROVE  ListsTyped'
  BY <1>7 DEF SpawnFails, ContainerExits
<1>8. CASE Beside \/ UNCHANGED allVars
  BY <1>8 DEF Beside, allVars, scalerVars
<1> QED
  BY <1>1, <1>2, <1>3, <1>4, <1>5, <1>6, <1>7, <1>8 DEF ScalerNext

\* A step of the autoscaler is one of the load balancer's, or leaves it alone.
LEMMA StepDrivesBalancer == ListsTyped /\ [ScalerNext]_allVars => [Next]_vars
<1> SUFFICES ASSUME ListsTyped, [ScalerNext]_allVars
             PROVE  [Next]_vars
  OBVIOUS
<1> USE DEF ListsTyped
<1>1. ASSUME NEW u \in Urls, AddWorker(u) \/ RemoveWorker(u)
      PROVE  Next
  BY <1>1 DEF Next, Scaling
<1>2. ASSUME NEW p \in Probers, NEW c \in Clients, Land(p, c)
      PROVE  Next
  BY <1>2 DEF Next, HealthChecked
<1>3. CASE RegisterStandby
  BY <1>1, <1>3, HeadAndTail DEF RegisterStandby
<1>4. CASE ReleaseStandby
  BY <1>1, <1>4, FrontAndLast DEF ReleaseStandby
<1>5. ASSUME NEW c \in Clients, StandbyChecked(c)
      PROVE  Next
  BY <1>2, <1>5 DEF StandbyChecked
<1>6. ASSUME NEW n \in Places, SpawnContainer(n)
      PROVE  [Next]_vars
  <2>1. LocalUrl[n] \in Urls
    OBVIOUS
  <2>2. UNCHANGED vars \/ AddWorker(LocalUrl[n])
    BY <1>6 DEF SpawnContainer, Announce
  <2> QED
    BY <1>1, <2>1, <2>2
<1>7. CASE SkipStandby \/ StopContainer \/ CoolDown
  BY <1>7 DEF SkipStandby, StopContainer, CoolDown
<1>8. ASSUME NEW n \in Places, SpawnFails(n) \/ ContainerExits(n)
      PROVE  UNCHANGED vars
  BY <1>8 DEF SpawnFails, ContainerExits
<1>9. CASE Beside
  BY <1>2, <1>9 DEF Beside, Next
<1>10. CASE UNCHANGED allVars
  BY <1>10 DEF allVars
<1> QED
  BY <1>3, <1>4, <1>5, <1>6, <1>7, <1>8, <1>9, <1>10 DEF ScalerNext

\* The lists keep their types.
LEMMA ListsInvariance == ScalerSpec => []ListsTyped
BY InitListsTyped, ListsTypedStep, PTL DEF ScalerSpec

\* With its autoscaler the load balancer behaves as it does on its own: whatever
\* was proved of it holds here too.
THEOREM DrivesBalancer == ScalerSpec => Spec
<1>1. ScalerInit => Init
  BY DEF ScalerInit
<1> QED
  BY <1>1, StepDrivesBalancer, ListsInvariance, PTL DEF ScalerSpec, Spec

\* Every variable keeps its type, the load balancer's and the autoscaler's.
THEOREM ScalerTypeCorrect == ScalerSpec => []ScalerTypeOK
<1>1. IInv /\ ListsTyped => ScalerTypeOK
  BY DEF IInv, ListsTyped, ScalerTypeOK
<1> QED
  BY <1>1, DrivesBalancer, Invariance, ListsInvariance, PTL

-----------------------------------------------------------------------------
(* The load balancer's workers and their URLs.                             *)

\* A function onto a set has at least its size, a one-to-one one just its size.
LEMMA Onto ==
    ASSUME NEW S, IsFiniteSet(S), NEW T, NEW f \in [S -> T],
           \A t \in T : \E x \in S : f[x] = t
    PROVE  /\ IsFiniteSet(T) /\ Cardinality(T) <= Cardinality(S)
           /\ (\A x, y \in S : f[x] = f[y] => x = y) => Cardinality(T) = Cardinality(S)
<1>1. f \in Surjection(S, T)
  BY DEF Surjection
<1>2. /\ IsFiniteSet(T) /\ Cardinality(T) <= Cardinality(S)
      /\ Cardinality(T) = Cardinality(S) <=> f \in Injection(S, T)
  BY <1>1, FS_Surjection
<1>3. (\A x, y \in S : f[x] = f[y] => x = y) => f \in Injection(S, T)
  BY DEF Injection, IsInjective
<1> QED
  BY <1>2, <1>3

\* The size of an interval.
LEMMA Between ==
    ASSUME NEW a \in Nat, NEW b \in Int
    PROVE  /\ IsFiniteSet(a .. b)
           /\ a <= b + 1 => Cardinality(a .. b) = (b + 1) - a
<1>1. IsFiniteSet(a .. b) /\ Cardinality(a .. b) = IF a > b THEN 0 ELSE b - a + 1
  <2>1. a \in Int /\ b \in Int
    OBVIOUS
  <2> QED
    BY <2>1, FS_Interval
<1>2. a <= b + 1 => (IF a > b THEN 0 ELSE b - a + 1) = (b + 1) - a
  OBVIOUS
<1> QED
  BY <1>1, <1>2

\* The number of the configured workers.
LEMMA ConfiguredCount ==
    /\ Len(Configured) \in Nat
    /\ IsFiniteSet(ConfiguredUrls) /\ Cardinality(ConfiguredUrls) = Len(Configured)
<1> DEFINE f == [i \in 1 .. Len(Configured) |-> Configured[i]]
<1>1. Len(Configured) \in Nat
  BY LenProperties
<1>2. IsFiniteSet(1 .. Len(Configured)) /\ Cardinality(1 .. Len(Configured)) = Len(Configured)
  <2>1. ASSUME NEW n \in Nat
        PROVE  IsFiniteSet(1 .. n) /\ Cardinality(1 .. n) = n
    <3>1. 1 <= n + 1 /\ (n + 1) - 1 = n
      OBVIOUS
    <3> QED
      BY <3>1, Between
  <2> QED
    BY <1>1, <2>1
<1>3. /\ f \in [1 .. Len(Configured) -> ConfiguredUrls]
      /\ \A t \in ConfiguredUrls : \E x \in 1 .. Len(Configured) : f[x] = t
      /\ \A x, y \in 1 .. Len(Configured) : f[x] = f[y] => x = y
  BY DEF ConfiguredUrls
<1> HIDE DEF f
<1> QED
  BY <1>1, <1>2, <1>3, Onto

\* As a worker has a URL of its own there are as many URLs as workers.
LEMMA UrlPerWorker ==
    ASSUME IInv, IsFiniteSet(Registered)
    PROVE  IsFiniteSet(workers) /\ Cardinality(workers) = Cardinality(Registered)
<1> DEFINE f == [u \in Registered |-> CHOOSE c \in workers : UrlOf(c) = u]
<1>1. \A u \in Registered : f[u] \in workers /\ UrlOf(f[u]) = u
  BY DEF Registered
<1>2. \A c, d \in workers : UrlOf(c) = UrlOf(d) => c = d
  BY DEF IInv, WorkersHaveBreakers
<1>3. f \in [Registered -> workers]
  BY <1>1
<1>4. \A c \in workers : UrlOf(c) \in Registered
  BY DEF Registered
<1> HIDE DEF f
<1>5. \A c \in workers : \E u \in Registered : f[u] = c
  BY <1>1, <1>2, <1>4
<1>6. \A u, v \in Registered : f[u] = f[v] => u = v
  BY <1>1
<1> QED
  BY <1>3, <1>5, <1>6, Onto

\* Adding a worker adds its URL.
LEMMA UrlAdded ==
    ASSUME NEW c, workers' = workers \cup {c}
    PROVE  Registered' = Registered \cup {UrlOf(c)}
BY DEF Registered

\* Removing the workers of a URL removes it.
LEMMA UrlRemoved ==
    ASSUME NEW u, workers' = {c \in workers : UrlOf(c) # u}
    PROVE  Registered' = Registered \ {u}
BY DEF Registered

-----------------------------------------------------------------------------
(* The inductive invariant, one for each mode.                             *)

\* The workers whose health check the loop awaits: one at most.
Checking == {c \in Clients : probe[Scaler][c] # "none"}

\* In static mode no URL is listed twice, and none that is configured; the
\* daemon has no container of ours.
StaticRoster ==
    /\ IsFiniteSet(workers)
    /\ Registered = ConfiguredUrls \cup ToSet(dynamic) \cup BeingAdded
    /\ Cardinality(workers) = Len(Configured) + Len(dynamic) + Cardinality(BeingAdded)
    /\ IsInjective(dynamic) /\ ToSet(dynamic) \cap ConfiguredUrls = {}
    /\ BeingAdded \cap (ConfiguredUrls \cup ToSet(dynamic)) = {}
    /\ \A c, d \in Checking : c = d
    /\ ToSet(Standby) \subseteq Registered \cup ToSet(standby)
    /\ WithinMax
    /\ spawned = <<>>
    /\ \A n \in Places : container[n] = "none"

\* The ports a container may be started on: the numbers from that of the
\* configured workers up.
LocalUrls == {LocalUrl[n] : n \in {k \in Places : k >= Len(Configured)}}

DockerRoster ==
    /\ ConfiguredStay
    /\ Registered \subseteq ConfiguredUrls \cup LocalUrls
    /\ SpawnedExist

RosterInv == IF docker THEN DockerRoster ELSE StaticRoster

-----------------------------------------------------------------------------
(* Steps that leave the roster alone.                                      *)

\* What both modes look at.
Unmoved == /\ UNCHANGED <<workers, docker, standby, dynamic, spawned, container>>
           /\ Checking' = Checking

\* Requests, the health checks of others and the answers to ours move nothing.
LEMMA BesideUnmoved ==
    ASSUME IInv, Beside
    PROVE  Unmoved
<1>1. probe \in [Probers -> [Clients -> {"none", "sent", "up", "down"}]]
  BY DEF IInv, TypeOK
<1>2. UNCHANGED <<docker, standby, dynamic, spawned, container>>
  BY DEF Beside, scalerVars
<1>3. CASE UNCHANGED <<workers, probe>>
  BY <1>2, <1>3 DEF Unmoved, Checking
<1>4. ASSUME NEW p \in Probers \ {Scaler}, StartRound(p)
      PROVE  Unmoved
  <2>1. UNCHANGED workers /\ probe'[Scaler] = probe[Scaler]
    BY <1>1, <1>4 DEF StartRound, poolVars
  <2> QED
    BY <1>2, <2>1 DEF Unmoved, Checking
<1>5. ASSUME NEW p \in Probers, NEW c \in Clients, Answer(p, c)
      PROVE  Unmoved
  <2>1. UNCHANGED workers /\ probe[p][c] = "sent"
    BY <1>5 DEF Answer, poolVars
  <2>2. PICK a \in {"up", "down"} : probe' = [probe EXCEPT ![p][c] = a]
    BY <1>5 DEF Answer
  <2>3. \A d \in Clients : probe'[Scaler][d] # "none" <=> probe[Scaler][d] # "none"
    BY <1>1, <2>1, <2>2
  <2> QED
    BY <1>2, <2>1, <2>3 DEF Unmoved, Checking
<1>6. ASSUME NEW p \in Probers \ {Scaler}, NEW c \in Clients, Land(p, c)
      PROVE  Unmoved
  <2>1. UNCHANGED workers /\ probe'[Scaler] = probe[Scaler]
    BY <1>1, <1>6 DEF Land, poolVars
  <2> QED
    BY <1>2, <2>1 DEF Unmoved, Checking
<1>7. ASSUME NEW r \in Requests, Dispatch(r) \/ Reject(r) \/ Succeed(r) \/ Fail(r)
      PROVE  UNCHANGED <<workers, probe>>
  BY <1>7 DEF Dispatch, Reject, Succeed, Fail, poolVars
<1>8. ASSUME NEW u \in Urls, Flip(u) \/ Cool(u)
      PROVE  UNCHANGED <<workers, probe>>
  BY <1>8 DEF Flip, Cool, poolVars
<1>9. ASSUME NEW p \in Probers, StartRound(p)
      PROVE  p # Scaler
  BY <1>9 DEF StartRound
<1> QED
  BY <1>3, <1>4, <1>5, <1>6, <1>7, <1>8, <1>9 DEF Beside, Serving

\* Nor does the roster change then.
LEMMA UnmovedRoster ==
    ASSUME Unmoved
    PROVE  (StaticRoster => StaticRoster') /\ (DockerRoster => DockerRoster')
<1>1. Registered' = Registered /\ BeingAdded' = BeingAdded
  BY DEF Unmoved, Registered, BeingAdded, Checking
<1>2. Running' = Running
  BY DEF Unmoved, Running
<1> QED
  BY <1>1, <1>2 DEF Unmoved, StaticRoster, DockerRoster, WithinMax, SpawnedExist,
                    ConfiguredStay

-----------------------------------------------------------------------------
(* Static mode.                                                            *)

\* The lists and the workers are finite.
LEMMA StaticSizes ==
    ASSUME ListsTyped, StaticRoster
    PROVE  /\ Cardinality(workers) \in Nat
           /\ Len(dynamic) \in Nat /\ Len(Configured) \in Nat
BY ConfiguredCount, FS_CardinalityType, LenProperties DEF ListsTyped, StaticRoster

\* The URLs of no client, and of one.
LEMMA NoUrls == {UrlOf(c) : c \in {}} = {} /\ Cardinality({UrlOf(c) : c \in {}}) = 0
<1>1. {UrlOf(c) : c \in {}} = {}
  OBVIOUS
<1> QED
  BY <1>1, FS_EmptySet

LEMMA OneUrl ==
    ASSUME NEW c
    PROVE  {UrlOf(d) : d \in {c}} = {UrlOf(c)} /\ Cardinality({UrlOf(d) : d \in {c}}) = 1
<1>1. {UrlOf(d) : d \in {c}} = {UrlOf(c)}
  OBVIOUS
<1> QED
  BY <1>1, FS_Singleton

\* What is being added, now and after a step, when nothing is or one worker is.
LEMMA Added ==
    /\ Checking = {} => BeingAdded = {} /\ Cardinality(BeingAdded) = 0
    /\ Checking' = {} => BeingAdded' = {} /\ Cardinality(BeingAdded') = 0
    /\ \A c : Checking = {c} => BeingAdded = {UrlOf(c)} /\ Cardinality(BeingAdded) = 1
    /\ \A c : Checking' = {c} => BeingAdded' = {UrlOf(c)} /\ Cardinality(BeingAdded') = 1
<1>1. BeingAdded = {UrlOf(c) : c \in Checking} /\ BeingAdded' = {UrlOf(c) : c \in Checking'}
  BY DEF BeingAdded, Checking
<1>2. /\ Checking = {} => BeingAdded = {} /\ Cardinality(BeingAdded) = 0
      /\ Checking' = {} => BeingAdded' = {} /\ Cardinality(BeingAdded') = 0
  BY <1>1, NoUrls
<1>3. ASSUME NEW c, Checking = {c}
      PROVE  BeingAdded = {UrlOf(c)} /\ Cardinality(BeingAdded) = 1
  BY <1>1, <1>3, OneUrl
<1>4. ASSUME NEW c, Checking' = {c}
      PROVE  BeingAdded' = {UrlOf(c)} /\ Cardinality(BeingAdded') = 1
  BY <1>1, <1>4, OneUrl
<1> QED
  BY <1>2, <1>3, <1>4

\* A URL the load balancer has leaves the standby list.
LEMMA SkipStandbyRoster ==
    ASSUME ListsTyped, StaticRoster, SkipStandby
    PROVE  StaticRoster'
<1>1. ToSet(standby) = {Head(standby)} \cup ToSet(Tail(standby))
  BY HeadAndTail DEF SkipStandby, ListsTyped
<1>2. Registered' = Registered /\ BeingAdded' = BeingAdded /\ Checking' = Checking
  BY DEF SkipStandby, vars, poolVars, Registered, BeingAdded, Checking
<1>3. UNCHANGED <<workers, dynamic, spawned, container>> /\ standby' = Tail(standby)
  BY DEF SkipStandby, vars, poolVars
<1>4. (ToSet(Standby) \subseteq Registered \cup ToSet(standby))'
  BY <1>1, <1>2, <1>3 DEF SkipStandby, StaticRoster
<1> QED
  BY <1>2, <1>3, <1>4 DEF StaticRoster, WithinMax

\* A new one is registered, below the bound, and its health check awaited.
LEMMA RegisterStandbyRoster ==
    ASSUME IInv, ListsTyped, StaticRoster, RegisterStandby
    PROVE  StaticRoster'
<1> DEFINE u == Head(standby)
           c == <<u, built + 1>>
<1>1. u \in Urls /\ ToSet(standby) = {u} \cup ToSet(Tail(standby))
  BY HeadAndTail DEF RegisterStandby, ListsTyped
<1>2. c \in Clients /\ UrlOf(c) = u
  BY <1>1 DEF IInv, TypeOK, RegisterStandby, AddWorker, Clients, UrlOf
<1>3. /\ workers' = workers \cup {c} /\ probe' = [probe EXCEPT ![Scaler][c] = "sent"]
      /\ standby' = Tail(standby) /\ UNCHANGED <<dynamic, spawned, container>>
      /\ u \notin Registered
  BY DEF RegisterStandby, AddWorker
<1>4. Checking = {}
  BY DEF RegisterStandby, WantsUp, Free, RoundOver, Checking
<1> HIDE DEF c, u
<1>5. Checking' = {c}
  <2>1. probe \in [Probers -> [Clients -> {"none", "sent", "up", "down"}]]
    BY DEF IInv, TypeOK
  <2>2. probe'[Scaler] = [probe[Scaler] EXCEPT ![c] = "sent"]
    BY <1>2, <1>3, <2>1
  <2>3. \A d \in Clients : probe'[Scaler][d] # "none" <=> d = c
    BY <1>2, <1>4, <2>1, <2>2 DEF Checking
  <2> QED
    BY <1>2, <2>3 DEF Checking
<1>6. BeingAdded = {} /\ Cardinality(BeingAdded) = 0
  BY <1>4, Added
<1>7. BeingAdded' = {u} /\ Cardinality(BeingAdded') = 1
  BY <1>2, <1>5, Added
<1>8. Registered' = Registered \cup {u}
  BY <1>2, <1>3, UrlAdded
<1>9. c \notin workers
  BY <1>2, <1>3 DEF Registered
<1>10. IsFiniteSet(workers') /\ Cardinality(workers') = Cardinality(workers) + 1
  BY <1>3, <1>9, FS_AddElement DEF StaticRoster
<1>11. Cardinality(workers) < MaxWorkers
  BY DEF RegisterStandby, WantsUp
<1>12. WithinMax'
  BY <1>10, <1>11, StaticSizes DEF WithinMax
<1>13. (Cardinality(workers) = Len(Configured) + Len(dynamic) + Cardinality(BeingAdded))'
  <2>1. Cardinality(workers) = Len(Configured) + Len(dynamic)
    BY <1>6, StaticSizes DEF StaticRoster
  <2> QED
    BY <1>3, <1>7, <1>10, <2>1, StaticSizes
<1>14. (ToSet(Standby) \subseteq Registered \cup ToSet(standby))'
  BY <1>1, <1>3, <1>8 DEF StaticRoster
<1>15. (Registered = ConfiguredUrls \cup ToSet(dynamic) \cup BeingAdded)'
  BY <1>3, <1>6, <1>7, <1>8 DEF StaticRoster
<1>16. (BeingAdded \cap (ConfiguredUrls \cup ToSet(dynamic)) = {})'
  BY <1>3, <1>6, <1>7 DEF StaticRoster
<1>17. (IsInjective(dynamic) /\ ToSet(dynamic) \cap ConfiguredUrls = {})'
  BY <1>3 DEF StaticRoster
<1>18. (spawned = <<>> /\ \A n \in Places : container[n] = "none")'
  BY <1>3 DEF StaticRoster
<1>19. (\A x, y \in Checking : x = y)'
  BY <1>5
<1> QED
  BY <1>10, <1>12, <1>13, <1>14, <1>15, <1>16, <1>17, <1>18, <1>19 DEF StaticRoster

\* Its check is over: what was being added is the autoscaler's own.
LEMMA StandbyCheckedRoster ==
    ASSUME IInv, ListsTyped, StaticRoster, NEW c \in Clients, StandbyChecked(c)
    PROVE  StaticRoster'
<1> DEFINE u == UrlOf(c)
<1>1. u \in Urls
  BY DEF UrlOf, Clients
<1>2. /\ probe[Scaler][c] # "none" /\ probe' = [probe EXCEPT ![Scaler][c] = "none"]
      /\ dynamic' = Append(dynamic, u) /\ UNCHANGED <<workers, standby, spawned, container>>
  BY DEF StandbyChecked, Land, poolVars
<1>3. Checking = {c}
  BY <1>2 DEF StaticRoster, Checking
<1>4. Checking' = {}
  <2>1. probe \in [Probers -> [Clients -> {"none", "sent", "up", "down"}]]
    BY DEF IInv, TypeOK
  <2>2. probe'[Scaler] = [probe[Scaler] EXCEPT ![c] = "none"]
    BY <1>2, <2>1
  <2>3. \A d \in Clients : probe'[Scaler][d] = "none"
    BY <1>3, <2>1, <2>2 DEF Checking
  <2> QED
    BY <2>3 DEF Checking
<1>5. BeingAdded = {u} /\ Cardinality(BeingAdded) = 1
  BY <1>3, Added
<1>6. (BeingAdded = {} /\ Cardinality(BeingAdded) = 0)'
  BY <1>4, Added
<1>7. Registered' = Registered
  BY <1>2 DEF Registered
<1> HIDE DEF u
<1>8. /\ Len(dynamic') = Len(dynamic) + 1 /\ ToSet(dynamic') = ToSet(dynamic) \cup {u}
      /\ IsInjective(dynamic') <=> IsInjective(dynamic) /\ u \notin ToSet(dynamic)
  BY <1>1, <1>2, Appended DEF ListsTyped
<1>9. u \notin ConfiguredUrls \cup ToSet(dynamic)
  BY <1>5 DEF StaticRoster
<1>10. (IsInjective(dynamic) /\ ToSet(dynamic) \cap ConfiguredUrls = {})'
  BY <1>8, <1>9 DEF StaticRoster
<1>11. (Registered = ConfiguredUrls \cup ToSet(dynamic) \cup BeingAdded)'
  BY <1>5, <1>6, <1>7, <1>8 DEF StaticRoster
<1>12. (Cardinality(workers) = Len(Configured) + Len(dynamic) + Cardinality(BeingAdded))'
  <2>1. Cardinality(workers) = Len(Configured) + Len(dynamic) + 1
    BY <1>5, StaticSizes DEF StaticRoster
  <2> QED
    BY <1>2, <1>6, <1>8, <2>1, StaticSizes
<1>13. (BeingAdded \cap (ConfiguredUrls \cup ToSet(dynamic)) = {})'
  BY <1>6
<1>14. (\A x, y \in Checking : x = y)'
  BY <1>4
<1>15. (ToSet(Standby) \subseteq Registered \cup ToSet(standby) /\ WithinMax)'
  BY <1>2, <1>7 DEF StaticRoster, WithinMax
<1> QED
  BY <1>2, <1>10, <1>11, <1>12, <1>13, <1>14, <1>15 DEF StaticRoster

\* The last it added goes back to the standby list, and it alone.
LEMMA ReleaseStandbyRoster ==
    ASSUME IInv, ListsTyped, StaticRoster, ReleaseStandby
    PROVE  StaticRoster'
<1> DEFINE u == Last(dynamic)
<1>1. /\ u \in Urls /\ Len(Front(dynamic)) \in Nat /\ Len(dynamic) = Len(Front(dynamic)) + 1
      /\ ToSet(dynamic) = ToSet(Front(dynamic)) \cup {u}
      /\ IsInjective(dynamic) <=> IsInjective(Front(dynamic)) /\ u \notin ToSet(Front(dynamic))
  BY FrontAndLast DEF ReleaseStandby, ListsTyped
<1>2. /\ u \in Registered /\ workers' = {d \in workers : UrlOf(d) # u} /\ UNCHANGED probe
      /\ dynamic' = Front(dynamic) /\ standby' = <<u>> \o standby
      /\ UNCHANGED <<spawned, container>>
  BY DEF ReleaseStandby, RemoveWorker
<1>3. Checking = {} /\ Checking' = {}
  BY <1>2 DEF ReleaseStandby, WantsDown, Free, RoundOver, Checking
<1> HIDE DEF u
<1>4. ToSet(standby') = {u} \cup ToSet(standby)
  BY <1>1, <1>2, Prepended DEF ListsTyped
<1>5. BeingAdded = {} /\ Cardinality(BeingAdded) = 0
  BY <1>3, Added
<1>6. (BeingAdded = {} /\ Cardinality(BeingAdded) = 0)'
  BY <1>3, Added
<1>7. Registered' = Registered \ {u}
  BY <1>2, UrlRemoved
<1>8. IsFiniteSet(workers') /\ Cardinality(workers') = Cardinality(workers) - 1
  <2>1. PICK d \in workers : UrlOf(d) = u
    BY <1>2 DEF Registered
  <2>2. workers' = workers \ {d}
    BY <1>2, <2>1 DEF IInv, WorkersHaveBreakers
  <2> QED
    BY <2>1, <2>2, FS_RemoveElement DEF StaticRoster
<1>9. u \notin ConfiguredUrls /\ u \notin ToSet(Front(dynamic))
  BY <1>1 DEF StaticRoster
<1>10. (Registered = ConfiguredUrls \cup ToSet(dynamic) \cup BeingAdded)'
  BY <1>1, <1>2, <1>5, <1>6, <1>7, <1>9 DEF StaticRoster
<1>11. Cardinality(workers) = Len(Configured) + Len(dynamic)
  BY <1>5, StaticSizes DEF StaticRoster
<1>12. (Cardinality(workers) = Len(Configured) + Len(dynamic) + Cardinality(BeingAdded))'
  BY <1>1, <1>2, <1>6, <1>8, <1>11, StaticSizes
<1>13. WithinMax'
  BY <1>1, <1>8, <1>11, StaticSizes DEF StaticRoster, WithinMax
<1>14. (IsInjective(dynamic) /\ ToSet(dynamic) \cap ConfiguredUrls = {})'
  BY <1>1, <1>2 DEF StaticRoster
<1>15. (BeingAdded \cap (ConfiguredUrls \cup ToSet(dynamic)) = {})'
  BY <1>6
<1>16. (\A x, y \in Checking : x = y)'
  BY <1>3
<1>17. (ToSet(Standby) \subseteq Registered \cup ToSet(standby))'
  BY <1>4, <1>7 DEF StaticRoster
<1> QED
  BY <1>2, <1>8, <1>10, <1>12, <1>13, <1>14, <1>15, <1>16, <1>17 DEF StaticRoster

\* No step of an iteration, nor any beside it, breaks the roster.
LEMMA StaticStep ==
    ASSUME IInv, ListsTyped, StaticRoster, ~docker, [ScalerNext]_allVars
    PROVE  StaticRoster' /\ ~docker'
<1>1. CASE RegisterStandby
  BY <1>1, RegisterStandbyRoster DEF RegisterStandby
<1>2. CASE SkipStandby
  BY <1>2, SkipStandbyRoster DEF SkipStandby
<1>3. CASE ReleaseStandby
  BY <1>3, ReleaseStandbyRoster DEF ReleaseStandby
<1>4. ASSUME NEW c \in Clients, StandbyChecked(c)
      PROVE  StaticRoster' /\ ~docker'
  BY <1>4, StandbyCheckedRoster DEF StandbyChecked
<1>5. CASE CoolDown \/ UNCHANGED allVars
  <2>1. Unmoved
    BY <1>5 DEF CoolDown, Unmoved, Checking, allVars, scalerVars, vars, poolVars
  <2> QED
    BY <2>1, UnmovedRoster DEF Unmoved
<1>6. CASE Beside
  BY <1>6, BesideUnmoved, UnmovedRoster DEF Unmoved
<1>7. ASSUME NEW n \in Places
      PROVE  ~SpawnContainer(n) /\ ~SpawnFails(n) /\ ~ContainerExits(n)
  BY DEF SpawnContainer, SpawnFails, ContainerExits, StaticRoster
<1>8. ~StopContainer
  BY DEF StopContainer
<1> QED
  BY <1>1, <1>2, <1>3, <1>4, <1>5, <1>6, <1>7, <1>8 DEF ScalerNext

-----------------------------------------------------------------------------
(* Docker mode.                                                            *)

\* Nothing of the roster is lost while workers, list and containers stay.
LEMMA ContainersLeftAlone ==
    ASSUME DockerRoster, UNCHANGED <<workers, spawned, container>>
    PROVE  DockerRoster'
<1>1. Registered' = Registered /\ Running' = Running
  BY DEF Registered, Running
<1> QED
  BY <1>1 DEF DockerRoster, ConfiguredStay, SpawnedExist

\* The numbers counted begin after the configured workers.
LEMMA CountedPorts ==
    ASSUME docker, NEW n \in Counts, n \in Places
    PROVE  LocalUrl[n] \in LocalUrls
<1>1. Cardinality(Running) \in Nat
  <2>1. IsFiniteSet(Places)
    BY Between DEF Places
  <2> QED
    BY <2>1, FS_Subset, FS_CardinalityType DEF Running
<1>2. n \in Places /\ n >= Len(Configured)
  BY <1>1, ConfiguredCount DEF Counts
<1> QED
  BY <1>2 DEF LocalUrls

\* A container that is started is new, and its worker is registered.
LEMMA SpawnContainerRoster ==
    ASSUME ListsTyped, DockerRoster, NEW n \in Places, SpawnContainer(n)
    PROVE  DockerRoster'
<1>1. LocalUrl[n] \in LocalUrls
  BY CountedPorts DEF SpawnContainer
<1>2. Registered' = Registered \cup {LocalUrl[n]}
  <2>1. CASE LocalUrl[n] \in Registered
    BY <2>1 DEF SpawnContainer, Announce, vars, poolVars, Registered
  <2>2. CASE LocalUrl[n] \notin Registered
    <3>1. workers' = workers \cup {<<LocalUrl[n], built + 1>>}
      BY <2>2 DEF SpawnContainer, Announce, AddWorker
    <3>2. UrlOf(<<LocalUrl[n], built + 1>>) = LocalUrl[n]
      BY DEF UrlOf
    <3> QED
      BY <3>1, <3>2, UrlAdded
  <2> QED
    BY <2>1, <2>2
<1>3. /\ container[n] = "none" /\ container' = [container EXCEPT ![n] = "running"]
      /\ spawned' = Append(spawned, n)
  BY DEF SpawnContainer
<1>4. /\ ToSet(spawned') = ToSet(spawned) \cup {n}
      /\ IsInjective(spawned') <=> IsInjective(spawned) /\ n \notin ToSet(spawned)
  BY <1>3, Appended DEF ListsTyped
<1>5. ToSet(spawned) \subseteq Places
  BY DEF ListsTyped, ToSet
<1>6. IsInjective(spawned') /\ \A m \in ToSet(spawned') : container'[m] # "none"
  BY <1>3, <1>4, <1>5 DEF DockerRoster, SpawnedExist, ListsTyped
<1>7. Running' = Running \cup {n}
  BY <1>3 DEF Running, ListsTyped
<1> QED
  BY <1>1, <1>2, <1>6, <1>7 DEF DockerRoster, ConfiguredStay, SpawnedExist

\* One that fails to start, or that exits, still exists.
LEMMA StoppedRoster ==
    ASSUME ListsTyped, DockerRoster, NEW n \in Places,
           container' = [container EXCEPT ![n] = "stopped"],
           UNCHANGED <<workers, spawned>>
    PROVE  DockerRoster'
<1>1. Registered' = Registered /\ Running' \subseteq Running
  BY DEF Registered, Running, ListsTyped
<1>2. ToSet(spawned) \subseteq Places
  BY DEF ListsTyped, ToSet
<1>3. \A m \in ToSet(spawned) : container'[m] # "none"
  BY <1>2 DEF DockerRoster, SpawnedExist, ListsTyped
<1> QED
  BY <1>1, <1>3 DEF DockerRoster, ConfiguredStay, SpawnedExist

\* One that is stopped has left the list, removed or not.
LEMMA StopContainerRoster ==
    ASSUME ListsTyped, DockerRoster, StopContainer
    PROVE  DockerRoster'
<1>1. /\ Last(spawned) \in Places
      /\ ToSet(spawned) = ToSet(Front(spawned)) \cup {Last(spawned)}
      /\ IsInjective(spawned) <=>
            IsInjective(Front(spawned)) /\ Last(spawned) \notin ToSet(Front(spawned))
  BY FrontAndLast DEF StopContainer, ListsTyped
<1>2. UNCHANGED workers /\ spawned' = Front(spawned)
  BY DEF StopContainer, vars, poolVars
<1>3. ToSet(spawned) \subseteq Places
  BY DEF ListsTyped, ToSet
<1>4. \/ UNCHANGED container
      \/ \E s \in {"none", "stopped"} : container' = [container EXCEPT ![Last(spawned)] = s]
  BY DEF StopContainer
<1>5. Registered' = Registered /\ Running' \subseteq Running
  BY <1>1, <1>2, <1>4 DEF Registered, Running, ListsTyped
<1>6. \A m \in ToSet(spawned') : container'[m] # "none"
  BY <1>1, <1>2, <1>3, <1>4 DEF DockerRoster, SpawnedExist, ListsTyped
<1> QED
  BY <1>1, <1>2, <1>5, <1>6 DEF DockerRoster, ConfiguredStay, SpawnedExist

\* No step breaks the roster.
LEMMA DockerStep ==
    ASSUME IInv, ListsTyped, DockerRoster, docker, [ScalerNext]_allVars
    PROVE  DockerRoster' /\ docker'
<1>1. ~RegisterStandby /\ ~SkipStandby /\ ~ReleaseStandby
  BY DEF RegisterStandby, SkipStandby, ReleaseStandby
<1>2. CASE StopContainer
  BY <1>2, StopContainerRoster DEF StopContainer
<1>3. ASSUME NEW c \in Clients, StandbyChecked(c)
      PROVE  DockerRoster' /\ docker'
  BY <1>3, ContainersLeftAlone DEF StandbyChecked, Land, poolVars
<1>4. ASSUME NEW n \in Places, SpawnContainer(n)
      PROVE  DockerRoster' /\ docker'
  BY <1>4, SpawnContainerRoster DEF SpawnContainer
<1>5. ASSUME NEW n \in Places, SpawnFails(n) \/ ContainerExits(n)
      PROVE  DockerRoster' /\ docker'
  BY <1>5, StoppedRoster DEF SpawnFails, ContainerExits, vars, poolVars
<1>6. CASE CoolDown \/ UNCHANGED allVars
  BY <1>6, ContainersLeftAlone DEF CoolDown, allVars, scalerVars, vars, poolVars
<1>7. CASE Beside
  BY <1>7, BesideUnmoved, UnmovedRoster DEF Unmoved
<1> QED
  BY <1>1, <1>2, <1>3, <1>4, <1>5, <1>6, <1>7 DEF ScalerNext

\* The configured workers and the ports above them are at most MaxWorkers, or
\* there are no such ports.
LEMMA PortsBound ==
    ASSUME IInv, DockerRoster
    PROVE  WithinMax
<1> DEFINE L == Len(Configured)
           P == {k \in Places : k >= L}
           f == [n \in P |-> LocalUrl[n]]
<1>1. L \in Nat /\ IsFiniteSet(ConfiguredUrls) /\ Cardinality(ConfiguredUrls) = L
  BY ConfiguredCount
<1>2. MaxWorkers \in Nat /\ P = L .. MaxWorkers - 1
  BY <1>1 DEF Places
<1>3. f \in [P -> LocalUrls] /\ \A u \in LocalUrls : \E n \in P : f[n] = u
  BY DEF LocalUrls
<1>4. Registered \subseteq ConfiguredUrls \cup LocalUrls /\ ConfiguredUrls \subseteq Registered
  BY DEF DockerRoster, ConfiguredStay
<1>5. CASE MaxWorkers <= L
  <2>1. LocalUrls = {}
    BY <1>1, <1>2, <1>3, <1>5
  <2>2. Registered = ConfiguredUrls
    BY <1>4, <2>1
  <2> QED
    BY <1>1, <2>2, UrlPerWorker DEF WithinMax
<1>6. CASE L < MaxWorkers
  <2>1. IsFiniteSet(P) /\ Cardinality(P) = MaxWorkers - L
    <3>1. MaxWorkers - 1 \in Int /\ L <= (MaxWorkers - 1) + 1
      BY <1>1, <1>2, <1>6
    <3>2. IsFiniteSet(L .. MaxWorkers - 1)
      BY <1>1, <3>1, Between
    <3>3. Cardinality(L .. MaxWorkers - 1) = ((MaxWorkers - 1) + 1) - L
      BY <1>1, <3>1, Between
    <3>4. ((MaxWorkers - 1) + 1) - L = MaxWorkers - L
      BY <1>1, <1>2
    <3> QED
      BY <1>2, <3>2, <3>3, <3>4
  <2> HIDE DEF P, f, L
  <2>2. IsFiniteSet(LocalUrls) /\ Cardinality(LocalUrls) <= MaxWorkers - L
    BY <1>3, <2>1, Onto
  <2> DEFINE U == ConfiguredUrls \cup LocalUrls
  <2>3. /\ IsFiniteSet(U)
        /\ Cardinality(U) =
              Cardinality(ConfiguredUrls) + Cardinality(LocalUrls)
                - Cardinality(ConfiguredUrls \cap LocalUrls)
    BY <1>1, <2>2, FS_Union
  <2>4. Cardinality(ConfiguredUrls \cap LocalUrls) \in Nat
    BY <1>1, FS_Subset, FS_CardinalityType
  <2>5. Cardinality(LocalUrls) \in Nat
    BY <2>2, FS_CardinalityType
  <2>6. Cardinality(U) <= MaxWorkers
    BY <1>1, <1>2, <2>2, <2>3, <2>4, <2>5
  <2>7. IsFiniteSet(Registered) /\ Cardinality(Registered) <= Cardinality(U)
    BY <1>4, <2>3, FS_Subset
  <2>8. Cardinality(Registered) \in Nat /\ Cardinality(U) \in Nat
    BY <2>3, <2>7, FS_CardinalityType
  <2>9. Cardinality(workers) = Cardinality(Registered)
    BY <2>7, UrlPerWorker
  <2> QED
    BY <1>2, <2>6, <2>7, <2>8, <2>9 DEF WithinMax
<1> QED
  BY <1>1, <1>2, <1>5, <1>6

-----------------------------------------------------------------------------
(* The theorems.                                                           *)

\* A load balancer starts with the workers that are configured.
LEMMA InitRegistered == Init => Registered = ConfiguredUrls
<1> SUFFICES ASSUME Init
             PROVE  Registered = ConfiguredUrls
  OBVIOUS
<1>1. workers = {<<Configured[i], i>> : i \in 1 .. Len(Configured)}
  BY DEF Init
<1>2. \A i \in 1 .. Len(Configured) : UrlOf(<<Configured[i], i>>) = Configured[i]
  BY DEF UrlOf
<1>3. ASSUME NEW u \in Registered
      PROVE  u \in ConfiguredUrls
  <2>1. PICK c \in workers : u = UrlOf(c)
    BY <1>3 DEF Registered
  <2>2. PICK i \in 1 .. Len(Configured) : c = <<Configured[i], i>>
    BY <1>1, <2>1
  <2> QED
    BY <1>2, <2>1, <2>2 DEF ConfiguredUrls
<1>4. ASSUME NEW i \in 1 .. Len(Configured)
      PROVE  Configured[i] \in Registered
  BY <1>1, <1>2 DEF Registered
<1> QED
  BY <1>3, <1>4 DEF ConfiguredUrls

\* The configured workers, each once, and nothing of the autoscaler's own.
LEMMA InitRoster == ScalerInit => RosterInv
<1> SUFFICES ASSUME ScalerInit
             PROVE  RosterInv
  OBVIOUS
<1>1. /\ Init /\ docker \in BOOLEAN /\ standby = Standby /\ dynamic = <<>> /\ spawned = <<>>
      /\ container = [n \in Places |-> "none"]
  BY DEF ScalerInit
<1>2. Registered = ConfiguredUrls
  BY <1>1, InitRegistered
<1>3. IsFiniteSet(workers) /\ Cardinality(workers) = Len(Configured)
  BY <1>1, <1>2, InitIInv, UrlPerWorker, ConfiguredCount
<1>4. /\ ToSet(<<>>) = {} /\ Len(<<>>) = 0
      /\ IsInjective(dynamic) /\ IsInjective(spawned)
  BY <1>1 DEF ToSet, IsInjective
<1>5. Checking = {}
  BY <1>1 DEF Init, Checking
<1>6. BeingAdded = {} /\ Cardinality(BeingAdded) = 0
  BY <1>5, Added
<1>7. Running = {}
  BY <1>1 DEF Running
<1>8. StaticRoster
  <2>1. Cardinality(workers) = Len(Configured) + Len(dynamic) + Cardinality(BeingAdded)
    BY <1>1, <1>3, <1>4, <1>6, ConfiguredCount
  <2> QED
    BY <1>1, <1>2, <1>3, <1>4, <1>5, <1>6, <2>1 DEF StaticRoster, WithinMax
<1>9. DockerRoster
  BY <1>1, <1>2, <1>4, <1>7 DEF DockerRoster, ConfiguredStay, SpawnedExist
<1> QED
  BY <1>8, <1>9 DEF RosterInv

\* Every step keeps the roster of its mode.
LEMMA RosterStep == IInv /\ ListsTyped /\ RosterInv /\ [ScalerNext]_allVars => RosterInv'
<1> SUFFICES ASSUME IInv, ListsTyped, RosterInv, [ScalerNext]_allVars
             PROVE  RosterInv'
  OBVIOUS
<1>1. CASE docker
  BY <1>1, DockerStep DEF RosterInv
<1>2. CASE ~docker
  BY <1>2, StaticStep DEF RosterInv
<1> QED
  BY <1>1, <1>2

\* The invariant holds, with the load balancer's own.
THEOREM RosterInvariance == ScalerSpec => [](IInv /\ ListsTyped /\ RosterInv)
BY InitRoster, RosterStep, DrivesBalancer, Invariance, ListsInvariance, PTL DEF ScalerSpec

\* What the invariant says in either mode.
LEMMA RosterImplies ==
    IInv /\ ListsTyped /\ RosterInv =>
        ConfiguredStay /\ RosterAgrees /\ StandbyKept /\ WithinMax /\ SpawnedExist
<1> SUFFICES ASSUME IInv, ListsTyped, RosterInv
             PROVE  ConfiguredStay /\ RosterAgrees /\ StandbyKept /\ WithinMax /\ SpawnedExist
  OBVIOUS
<1>1. CASE docker
  BY <1>1, PortsBound DEF RosterInv, DockerRoster, RosterAgrees, StandbyKept
<1>2. CASE ~docker
  <2>1. StaticRoster
    BY <1>2 DEF RosterInv
  <2>2. ToSet(spawned) = {} /\ IsInjective(spawned)
    BY <2>1 DEF StaticRoster, ToSet, IsInjective
  <2>3. Running = {}
    BY <2>1 DEF StaticRoster, Running
  <2>4. SpawnedExist
    BY <2>2, <2>3 DEF SpawnedExist
  <2> QED
    BY <1>2, <2>1, <2>4 DEF StaticRoster, ConfiguredStay, RosterAgrees, StandbyKept
<1> QED
  BY <1>1, <1>2

\* Scaling never deregisters a configured worker, in either mode, even if its
\* URL is listed among the standby workers too.
THEOREM ConfiguredAreKept == ScalerSpec => []ConfiguredStay
BY RosterInvariance, RosterImplies, PTL

\* In static mode the load balancer has the configured workers, those the
\* autoscaler added and the one it is adding, each once.
THEOREM RosterAgreement == ScalerSpec => []RosterAgrees
BY RosterInvariance, RosterImplies, PTL

\* No standby URL is lost between the list and the load balancer.
THEOREM StandbyNeverLost == ScalerSpec => []StandbyKept
BY RosterInvariance, RosterImplies, PTL

\* There are at most AUTOSCALE_MAX_WORKERS workers, or just the configured ones,
\* although Docker mode deregisters none: the ports it may use are few.
THEOREM NeverTooMany == ScalerSpec => []WithinMax
BY RosterInvariance, RosterImplies, PTL

\* The list of containers names existing ones, each once, and what runs has its
\* worker.
THEOREM ContainersAreKnown == ScalerSpec => []SpawnedExist
BY RosterInvariance, RosterImplies, PTL

\* Nothing was added: neither a standby worker nor a container is ours.
Dormant == /\ Registered = ConfiguredUrls /\ Checking = {}
           /\ dynamic = <<>> /\ spawned = <<>>

LEMMA DormantStep ==
    ASSUME \A d \in Depths : d < UpThreshold, IInv, Dormant, [ScalerNext]_allVars
    PROVE  Dormant'
<1>1. ~Deep
  BY ScalerConstants DEF Deep
<1>2. ASSUME Unmoved
      PROVE  Dormant'
  BY <1>2 DEF Unmoved, Dormant, Registered
<1>3. ~RegisterStandby /\ ~SkipStandby
  BY <1>1 DEF RegisterStandby, SkipStandby, WantsUp
<1>4. ASSUME NEW n \in Places
      PROVE  ~SpawnContainer(n) /\ ~SpawnFails(n)
  BY <1>1 DEF SpawnContainer, SpawnFails, WantsUp
<1>5. ~ReleaseStandby /\ ~StopContainer
  BY DEF ReleaseStandby, StopContainer, Dormant
<1>6. ASSUME NEW c \in Clients
      PROVE  ~StandbyChecked(c)
  <2>1. probe[Scaler][c] = "none"
    BY DEF Dormant, Checking
  <2> QED
    BY <2>1 DEF StandbyChecked, Land
<1>7. CASE CoolDown \/ UNCHANGED allVars
  <2>1. Unmoved
    BY <1>7 DEF CoolDown, Unmoved, Checking, allVars, scalerVars, vars, poolVars
  <2> QED
    BY <1>2, <2>1
<1>8. ASSUME NEW n \in Places, ContainerExits(n)
      PROVE  Dormant'
  <2>1. /\ UNCHANGED <<workers, probe, dynamic, spawned>>
    BY <1>8 DEF ContainerExits, vars, poolVars
  <2> QED
    BY <2>1 DEF Dormant, Registered, Checking
<1>9. CASE Beside
  BY <1>2, <1>9, BesideUnmoved
<1> QED
  BY <1>3, <1>4, <1>5, <1>6, <1>7, <1>8, <1>9 DEF ScalerNext

\* If the list the autoscaler reads is never deep, as the one nothing is written to,
\* it never adds a worker in either mode, however many jobs wait in the stream, and
\* removes none either.
THEOREM BlindScalerIsIdle ==
    ASSUME \A d \in Depths : d < UpThreshold
    PROVE  ScalerSpec => [](Registered = ConfiguredUrls)
<1>1. ScalerInit => Dormant
  <2> SUFFICES ASSUME ScalerInit
               PROVE  Dormant
    OBVIOUS
  <2>1. Init /\ dynamic = <<>> /\ spawned = <<>>
    BY DEF ScalerInit
  <2>2. Registered = ConfiguredUrls
    BY <2>1, InitRegistered
  <2>3. Checking = {}
    BY <2>1 DEF Init, Checking
  <2> QED
    BY <2>1, <2>2, <2>3 DEF Dormant
<1>2. IInv /\ Dormant /\ [ScalerNext]_allVars => Dormant'
  BY DormantStep
<1>3. Dormant => Registered = ConfiguredUrls
  BY DEF Dormant
<1> QED
  BY RosterInvariance, <1>1, <1>2, <1>3, PTL DEF ScalerSpec
=============================================================================
