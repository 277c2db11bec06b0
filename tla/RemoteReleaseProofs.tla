------------------------ MODULE RemoteReleaseProofs ------------------------
(* What the recipe promises of a stage host, for any number of deploys, any *)
(* versions and any keep_releases. First the lock: as long as deploys fail  *)
(* under it or are killed, no two of them work in the deploy path. Then,    *)
(* for one deploy job at a time on a stage in service, what is served, the  *)
(* schema under it and what a failure restores.                             *)
EXTENDS RemoteRelease, TLAPS, WellFoundedInduction

\* So far no deploy has failed before it took the lock or after it dropped it.
FailedUnderLock == mishaps \cap {"setup", "late"} = {}

\* Deployer's configuration of a deploy has a program point.
Shape ==
  /\ job = [d \in Deploys |-> job[d]]
  /\ \A d \in Deploys : "pc" \in DOMAIN job[d]

Holding(d) == Working(d) \/ job[d].pc \in {"repoint", "remove", "unmark"}

\* The inductive invariant: LockInv as long as FailedUnderLock.
LockInv == Shape /\ \A d \in Deploys : Holding(d) => lock = d

\* Moving one deploy to another point moves no other deploy.
LEMMA GotoOnly ==
  ASSUME Shape, NEW d \in Deploys, NEW point, Goto(d, point)
  PROVE  /\ Shape'
         /\ job'[d].pc = point
         /\ \A e \in Deploys : e # d => job'[e] = job[e]
BY DEF Shape, Goto

\* A deploy that stays under the lock, or leaves it, disturbs nobody.
LEMMA StaysInside ==
  ASSUME LockInv, NEW d \in Deploys, NEW point, Goto(d, point), UNCHANGED lock,
         Holding(d) \/ point \in {"idle", "setup", "lock", "prune", "restart", "forget"}
  PROVE  LockInv'
<1>1. /\ Shape'
      /\ job'[d].pc = point
      /\ \A e \in Deploys : e # d => job'[e] = job[e]
  BY GotoOnly DEF LockInv
<1>2. ASSUME NEW e \in Deploys, Holding(e)' PROVE lock' = e
  <2>1. CASE e = d
    BY <2>1, <1>1, <1>2 DEF LockInv, Holding, Working, TaskPoints
  <2>2. CASE e # d
    BY <2>2, <1>1, <1>2 DEF LockInv, Holding, Working
  <2>3. QED
    BY <2>1, <2>2
<1>3. QED
  BY <1>1, <1>2 DEF LockInv

\* A holder that gives the lock back on its way out disturbs nobody: nobody else held it.
LEMMA GivesBack ==
  ASSUME LockInv, NEW d \in Deploys, NEW point, Goto(d, point), Holding(d),
         point \in {"prune", "forget"}
  PROVE  LockInv'
<1>1. /\ Shape'
      /\ job'[d].pc = point
      /\ \A e \in Deploys : e # d => job'[e] = job[e]
  BY GotoOnly DEF LockInv
<1>2. ASSUME NEW e \in Deploys, Holding(e)' PROVE FALSE
  <2>1. CASE e = d
    BY <2>1, <1>1, <1>2 DEF Holding, Working, TaskPoints
  <2>2. CASE e # d
    BY <2>2, <1>1, <1>2 DEF LockInv, Holding, Working
  <2>3. QED
    BY <2>1, <2>2
<1>3. QED
  BY <1>1, <1>2 DEF LockInv

\* Every step of a deploy keeps LockInv when failures happen under the lock only.
LEMMA StepKeepsLock ==
  ASSUME FailedUnderLock', RemoteAssumption, LockInv, NEW d \in Deploys, Step(d)
  PROVE  LockInv'
<1>1. CASE Setup(d)
  BY <1>1, StaysInside DEF Setup, files
<1>2. CASE Lock(d)
  <2>1. CASE lock = "free"
    <3>1. Goto(d, "release") /\ lock' = d
      BY <1>2, <2>1 DEF Lock
    <3>2. \A e \in Deploys : ~Holding(e)
      BY <2>1, RemoteAssumption DEF LockInv, RemoteAssumption
    <3>3. QED
      BY <3>1, <3>2, GotoOnly DEF LockInv, Holding, Working
  <2>2. CASE lock # "free"
    BY <1>2, <2>2, StaysInside DEF Lock
  <2>3. QED
    BY <2>1, <2>2
<1>3. CASE StartRelease(d)
  <2>1. /\ Shape' /\ lock' = lock /\ lock = d
        /\ \A e \in Deploys : e # d => job'[e] = job[e]
    BY <1>3 DEF StartRelease, LockInv, Shape, Holding, Working, TaskPoints, At
  <2>2. QED
    BY <2>1 DEF LockInv, Holding, Working
<1>4. CASE UpdateCode(d) \/ AbsoluteLink(d) \/ UploadArtifacts(d)
  BY <1>4, StaysInside
     DEF UpdateCode, AbsoluteLink, UploadArtifacts, Holding, Working, TaskPoints, At
<1>5. CASE Update(d) \/ FailUpdate(d)
  BY <1>5, StaysInside DEF Update, FailUpdate, files, Holding, Working, At
<1>6. CASE WarmUp(d) \/ Symlink(d)
  BY <1>6, StaysInside DEF WarmUp, Symlink, Holding, Working, TaskPoints, At
<1>7. CASE Unlock(d)
  BY <1>7, GivesBack DEF Unlock, Holding, Working, TaskPoints, At
<1>8. CASE Prune(d) \/ Restart(d)
  BY <1>8, StaysInside DEF Prune, Restart, files
<1>9. CASE Fail(d)
  <2>1. Working(d)
    BY <1>9 DEF Fail, Fails, FailedUnderLock, Mishap, Working, At, TaskPoints
  <2>2. /\ Shape' /\ lock' = lock /\ lock = d
        /\ \A e \in Deploys : e # d => job'[e] = job[e]
    BY <1>9, <2>1 DEF Fail, LockInv, Shape, Holding, files
  <2>3. QED
    BY <2>2 DEF LockInv, Holding, Working
<1>10. CASE Repoint(d) \/ RemoveRelease(d)
  BY <1>10, StaysInside DEF Repoint, RemoveRelease, Holding, At
<1>11. CASE DropMarks(d)
  BY <1>11, GivesBack DEF DropMarks, Holding, At
<1>12. CASE Forget(d)
  BY <1>12, StaysInside DEF Forget, files
<1>13. CASE FailCleanUp(d)
  BY <1>13, StaysInside DEF FailCleanUp, files
<1>14. QED
  BY <1>1, <1>2, <1>3, <1>4, <1>5, <1>6, <1>7, <1>8, <1>9, <1>10, <1>11, <1>12, <1>13
     DEF Step, Tasks, CleanUp

\* A stage that is free or held by its deploy stays so under every step of the system:
\* a deploy that begins or is killed owns nothing, and the operator only removes the
\* lock of a deploy that is gone.
LEMMA NextKeepsLock ==
  ASSUME FailedUnderLock', RemoteAssumption, LockInv, [Next]_vars
  PROVE  LockInv'
<1>1. ASSUME NEW d \in Deploys, Begin(d) PROVE LockInv'
  <2>1. /\ Shape' /\ lock' = lock /\ job'[d].pc = "setup"
        /\ \A e \in Deploys : e # d => job'[e] = job[e]
    BY <1>1 DEF Begin, LockInv, Shape, files, Idle
  <2>2. QED
    BY <2>1 DEF LockInv, Holding, Working, TaskPoints
<1>2. ASSUME NEW d \in Deploys, Kill(d) PROVE LockInv'
  BY <1>2, StaysInside DEF Kill, files
<1>3. CASE OperatorUnlocks
  <2>1. \A e \in Deploys : ~Holding(e)
    BY <1>3 DEF OperatorUnlocks, LockInv, Holding, Working, TaskPoints, At
  <2>2. QED
    BY <1>3, <2>1 DEF OperatorUnlocks, LockInv, Shape, Holding, Working
<1>4. CASE Rest \/ UNCHANGED vars
  BY <1>4 DEF Rest, vars, files, LockInv, Shape, Holding, Working
<1>5. QED
  BY <1>1, <1>2, <1>3, <1>4, StepKeepsLock DEF Next

\* Every step leaves each deploy with a program point, and the history grows.
LEMMA NextKeepsShape ==
  ASSUME Shape, [Next]_vars
  PROVE  Shape' /\ mishaps \subseteq mishaps'
<1>1. ASSUME NEW d \in Deploys, NEW point, Goto(d, point) PROVE Shape'
  BY <1>1, GotoOnly
<1>2. ASSUME NEW d \in Deploys, Begin(d) PROVE Shape'
  BY <1>2 DEF Begin, Shape, Idle
<1>3. ASSUME NEW d \in Deploys, StartRelease(d) \/ Fail(d) PROVE Shape'
  BY <1>3 DEF StartRelease, Fail, Shape
<1>4. ASSUME NEW d \in Deploys, Tasks(d) \/ CleanUp(d) PROVE Shape'
  <2>1. CASE StartRelease(d)
    BY <1>3, <2>1
  <2>2. CASE ~StartRelease(d)
    BY <1>1, <1>4, <2>2
       DEF Tasks, CleanUp, Setup, Lock, UpdateCode, AbsoluteLink, UploadArtifacts, Update,
           WarmUp, Symlink, Unlock, Prune, Restart, Repoint, RemoveRelease, DropMarks, Forget
  <2>3. QED
    BY <2>1, <2>2
<1>5. ASSUME NEW d \in Deploys, FailUpdate(d) \/ FailCleanUp(d) \/ Kill(d) PROVE Shape'
  BY <1>1, <1>5 DEF FailUpdate, FailCleanUp, Kill
<1>6. CASE OperatorUnlocks \/ Rest \/ UNCHANGED vars
  BY <1>6 DEF OperatorUnlocks, Rest, vars, Shape
<1>7. Shape'
  BY <1>2, <1>3, <1>4, <1>5, <1>6 DEF Next, Step
<1>8. mishaps \subseteq mishaps'
  BY DEF Next, Step, Fail, Fails, FailUpdate, FailCleanUp, Kill, Mishap, OperatorUnlocks, Rest, vars
<1>9. QED
  BY <1>7, <1>8

\* At most one deploy works under the lock of the stage, for every number of deploys, as
\* long as deploys fail under the lock only (a failure before or after it runs the cleanup
\* of a deploy that does not own it).
THEOREM DeploysExclude == Spec => []OneDeployAtATime
<1> DEFINE IInv == Shape /\ (FailedUnderLock => LockInv)
<1>1. Init => IInv
  BY RemoteAssumption
     DEF Init, LockInv, Shape, Idle, Holding, Working, TaskPoints
<1>2. IInv /\ [Next]_vars => IInv'
  <2> SUFFICES ASSUME IInv, [Next]_vars PROVE IInv'
    OBVIOUS
  <2>1. Shape' /\ mishaps \subseteq mishaps'
    BY NextKeepsShape
  <2>2. ASSUME FailedUnderLock' PROVE LockInv'
    <3>1. FailedUnderLock
      BY <2>1, <2>2 DEF FailedUnderLock
    <3>2. QED
      BY <2>2, <3>1, NextKeepsLock, RemoteAssumption
  <2>3. QED
    BY <2>1, <2>2
<1>3. IInv => OneDeployAtATime
  BY DEF LockInv, OneDeployAtATime, Holding, FailedUnderLock
<1>4. QED
  BY <1>1, <1>2, <1>3, PTL DEF Spec

-----------------------------------------------------------------------------
(* Induction over the naturals, from the least element of a set.            *)

LEMMA LeastElement ==
  ASSUME NEW S \in SUBSET Nat, S # {}
  PROVE  \E m \in S : \A k \in S : m <= k
<1>1. PICK x \in S : \A y \in S : ~(<<y, x>> \in OpToRel(<, Nat))
  <2>1. IsWellFoundedOn(OpToRel(<, Nat), Nat)
    BY NatLessThanWellFounded
  <2>2. QED
    BY <2>1, WFMin
<1>2. \A y \in S : ~(y < x)
  <2>1. \A y \in S : y < x => <<y, x>> \in OpToRel(<, Nat)
    BY DEF OpToRel
  <2>2. QED
    BY <1>1, <2>1, Zenon
<1>3. x \in S /\ x \in Nat
  OBVIOUS
<1> HIDE <1>1
<1>4. QED
  BY <1>2, <1>3

LEMMA EveryNatural ==
  ASSUME NEW S, 0 \in S, \A n \in Nat : n \in S => n + 1 \in S
  PROVE  Nat \subseteq S
<1>1. SUFFICES ASSUME Nat \ S # {} PROVE FALSE
  OBVIOUS
<1>2. PICK m \in Nat \ S : \A k \in Nat \ S : m <= k
  BY <1>1, LeastElement
<1>3. m - 1 \in Nat /\ m - 1 \in S
  BY <1>2
<1>4. QED
  BY <1>2, <1>3

-----------------------------------------------------------------------------
(* Filtering a sequence. F[i] is what is left of its first i entries.       *)

Filters(F, s, S, n) ==
  F = [i \in 0..n |-> IF i = 0 THEN <<>> ELSE IF s[i] \in S THEN Append(F[i - 1], s[i]) ELSE F[i - 1]]

LEMMA FilterExists ==
  ASSUME NEW s, NEW S, NEW n \in Nat
  PROVE  \E F : Filters(F, s, S, n)
<1> DEFINE Good == {k \in Nat : \E F : Filters(F, s, S, k)}
<1>1. 0 \in Good
  <2> DEFINE F == [i \in 0..0 |-> <<>>]
  <2>1. Filters(F, s, S, 0)
    BY DEF Filters
  <2>2. QED
    BY <2>1
<1>2. ASSUME NEW k \in Nat, k \in Good PROVE k + 1 \in Good
  <2>1. PICK F : Filters(F, s, S, k)
    BY <1>2
  <2> DEFINE G == [i \in 0..k + 1 |-> IF i <= k THEN F[i]
                                      ELSE IF s[i] \in S THEN Append(F[k], s[i]) ELSE F[k]]
  <2>2. \A i \in 0..k : G[i] = F[i]
    OBVIOUS
  <2>3. G[k + 1] = IF s[k + 1] \in S THEN Append(G[k], s[k + 1]) ELSE G[k]
    BY <2>2
  <2>4. \A i \in 0..k : F[i] = IF i = 0 THEN <<>> ELSE IF s[i] \in S THEN Append(F[i - 1], s[i]) ELSE F[i - 1]
    BY <2>1 DEF Filters
  <2>5. G = [i \in 0..k + 1 |-> G[i]]
    OBVIOUS
  <2> HIDE DEF G
  <2>6. \A i \in 0..k + 1 : G[i] = IF i = 0 THEN <<>> ELSE IF s[i] \in S THEN Append(G[i - 1], s[i]) ELSE G[i - 1]
    <3> TAKE i \in 0..k + 1
    <3>1. CASE i = k + 1
      BY <2>3, <3>1
    <3>2. CASE i # k + 1
      <4>1. i \in 0..k /\ (i # 0 => i - 1 \in 0..k)
        BY <3>2
      <4>2. QED
        BY <2>2, <2>4, <4>1
    <3>3. QED
      BY <3>1, <3>2
  <2>7. Filters(G, s, S, k + 1)
    BY <2>5, <2>6 DEF Filters
  <2>8. QED
    BY <2>7
<1> HIDE DEF Good
<1>3. Nat \subseteq Good
  BY <1>1, <1>2, EveryNatural
<1>4. QED
  BY <1>3 DEF Good

LEMMA AmongFilters ==
  ASSUME NEW s, NEW S, Len(s) \in Nat
  PROVE  \E F : Filters(F, s, S, Len(s)) /\ Among(s, S) = F[Len(s)]
<1> DEFINE H == CHOOSE F : Filters(F, s, S, Len(s))
<1>1. Among(s, S) = H[Len(s)]
  BY DEF Among, Filters
<1>2. Filters(H, s, S, Len(s))
  BY FilterExists
<1>3. QED
  BY <1>1, <1>2

Increasing(s) == \A i, j \in DOMAIN s : i < j => s[i] < s[j]

\* What is left are the entries in S, and they keep their order.
Kept(r, s, S, i) ==
  /\ \A k \in 1..Len(r) : r[k] \in S /\ \E j \in 1..i : r[k] = s[j]
  /\ \A j \in 1..i : s[j] \in S => \E k \in 1..Len(r) : r[k] = s[j]
  /\ Increasing(s) => Increasing(r)

LEMMA AmongKeeps ==
  ASSUME NEW N, NEW s \in Seq(N), NEW S
  PROVE  Among(s, S) \in Seq(N) /\ Kept(Among(s, S), s, S, Len(s))
<1>1. Len(s) \in Nat
  OBVIOUS
<1>2. PICK F : Filters(F, s, S, Len(s)) /\ Among(s, S) = F[Len(s)]
  BY <1>1, AmongFilters
<1>3. F[0] = <<>> /\ \A i \in 1..Len(s) : F[i] = IF s[i] \in S THEN Append(F[i - 1], s[i]) ELSE F[i - 1]
  <2>1. F = [i \in 0..Len(s) |->
              IF i = 0 THEN <<>> ELSE IF s[i] \in S THEN Append(F[i - 1], s[i]) ELSE F[i - 1]]
    BY <1>2 DEF Filters
  <2> DEFINE G(i) == IF i = 0 THEN <<>> ELSE IF s[i] \in S THEN Append(F[i - 1], s[i]) ELSE F[i - 1]
  <2>2. \A i \in 0..Len(s) : F[i] = G(i)
    <3> HIDE DEF G
    <3>1. F = [i \in 0..Len(s) |-> G(i)]
      BY <2>1, Zenon DEF G
    <3>2. QED
      BY <3>1, Zenon
  <2>3. 0 \in 0..Len(s) /\ \A i \in 1..Len(s) : i \in 0..Len(s) /\ i # 0
    BY <1>1
  <2>4. F[0] = <<>>
    BY <2>2, <2>3
  <2>5. \A i \in 1..Len(s) : F[i] = IF s[i] \in S THEN Append(F[i - 1], s[i]) ELSE F[i - 1]
    BY <2>2, <2>3
  <2>6. QED
    BY <2>4, <2>5
<1> DEFINE Good == {i \in Nat : i <= Len(s) => F[i] \in Seq(N) /\ Kept(F[i], s, S, i)}
<1>4. 0 \in Good
  <2>1. F[0] = <<>> /\ <<>> \in Seq(N) /\ Len(<<>>) = 0 /\ DOMAIN <<>> = {}
    BY <1>3
  <2>2. Kept(<<>>, s, S, 0)
    BY <2>1 DEF Kept, Increasing
  <2>3. QED
    BY <2>1, <2>2
<1>5. ASSUME NEW i \in Nat, i \in Good PROVE i + 1 \in Good
  <2> SUFFICES ASSUME i + 1 <= Len(s)
               PROVE  F[i + 1] \in Seq(N) /\ Kept(F[i + 1], s, S, i + 1)
    OBVIOUS
  <2>1. F[i] \in Seq(N) /\ Kept(F[i], s, S, i) /\ i + 1 \in 1..Len(s) /\ (i + 1) - 1 = i
    BY <1>1, <1>5
  <2>2. CASE s[i + 1] \notin S
    <3>1. F[i + 1] = F[i]
      BY <1>3, <2>1, <2>2
    <3>2. QED
      BY <2>1, <2>2, <3>1 DEF Kept
  <2>3. CASE s[i + 1] \in S
    <3> DEFINE r == F[i]
               q == Append(r, s[i + 1])
    <3>1. F[i + 1] = q
      BY <1>3, <2>1, <2>3
    <3>2. /\ q \in Seq(N) /\ Len(q) = Len(r) + 1 /\ Len(r) \in Nat
          /\ q[Len(r) + 1] = s[i + 1] /\ \A k \in 1..Len(r) : q[k] = r[k]
      BY <2>1
    <3> HIDE DEF q, r
    <3>3. Kept(r, s, S, i)
      BY <2>1 DEF r
    <3>4. \A k \in 1..Len(q) : q[k] \in S /\ \E j \in 1..i + 1 : q[k] = s[j]
      <4> TAKE k \in 1..Len(q)
      <4>1. CASE k = Len(r) + 1
        BY <2>1, <2>3, <3>2, <4>1
      <4>2. CASE k # Len(r) + 1
        <5>1. k \in 1..Len(r) /\ q[k] = r[k]
          BY <3>2, <4>2
        <5>2. r[k] \in S /\ \E j \in 1..i : r[k] = s[j]
          BY <3>3, <5>1 DEF Kept
        <5>3. 1..i \subseteq 1..i + 1
          OBVIOUS
        <5>4. QED
          BY <5>1, <5>2, <5>3
      <4>3. QED
        BY <4>1, <4>2
    <3>5. \A j \in 1..i + 1 : s[j] \in S => \E k \in 1..Len(q) : q[k] = s[j]
      <4> TAKE j \in 1..i + 1
      <4>1. CASE j = i + 1
        <5>1. Len(r) + 1 \in 1..Len(q)
          BY <3>2
        <5>2. QED
          BY <3>2, <4>1, <5>1
      <4>2. CASE j # i + 1
        <5>1. j \in 1..i
          BY <4>2
        <5>2. s[j] \in S => \E k \in 1..Len(r) : r[k] = s[j]
          BY <3>3, <5>1 DEF Kept
        <5>3. \A k \in 1..Len(r) : k \in 1..Len(q) /\ q[k] = r[k]
          BY <3>2
        <5>4. QED
          BY <5>2, <5>3
      <4>3. QED
        BY <4>1, <4>2
    <3>6. ASSUME Increasing(s) PROVE Increasing(q)
      <4>1. DOMAIN q = 1..Len(r) + 1 /\ DOMAIN s = 1..Len(s)
        BY <3>2
      <4>2. \A k \in 1..Len(r) : q[k] < s[i + 1]
        <5> TAKE k \in 1..Len(r)
        <5>1. PICK j \in 1..i : r[k] = s[j]
          BY <3>3 DEF Kept
        <5>2. j \in DOMAIN s /\ i + 1 \in DOMAIN s /\ j < i + 1
          BY <2>1, <4>1
        <5>3. QED
          BY <3>2, <3>6, <5>1, <5>2 DEF Increasing
      <4>3. DOMAIN r = 1..Len(r)
        BY <2>1 DEF r
      <4>4. \A j, k \in 1..Len(r) : j < k => q[j] < q[k]
        BY <3>2, <3>3, <3>6, <4>3 DEF Kept, Increasing
      <4>5. ASSUME NEW j \in DOMAIN q, NEW k \in DOMAIN q, j < k
            PROVE  q[j] < q[k]
        <5>1. j \in 1..Len(r)
          BY <3>2, <4>1, <4>5
        <5>2. CASE k = Len(r) + 1
          BY <3>2, <4>2, <5>1, <5>2
        <5>3. CASE k # Len(r) + 1
          <6>1. k \in 1..Len(r)
            BY <3>2, <4>1, <5>3
          <6>2. QED
            BY <4>4, <4>5, <5>1, <6>1
        <5>4. QED
          BY <5>2, <5>3
      <4>6. QED
        BY <4>5 DEF Increasing
    <3>7. QED
      BY <3>1, <3>2, <3>4, <3>5, <3>6 DEF Kept
  <2>4. QED
    BY <2>2, <2>3
<1> HIDE DEF Good
<1>6. Nat \subseteq Good
  BY <1>4, <1>5, EveryNatural
<1>7. QED
  BY <1>1, <1>2, <1>6 DEF Good

-----------------------------------------------------------------------------
(* Types.                                                                   *)

Before == {"idle", "setup", "lock", "release"}
Building == {"code", "link", "upload", "update", "warmup", "symlink"}
Published == {"unlock", "prune", "restart"}
CleaningUp == {"repoint", "remove", "unmark", "forget"}

Jobs == [pc : Points, version : Versions \cup {NoVersion}, name : 0..MaxName + 1, prev : 0..MaxName,
         list : Seq(Names), before : 0..MaxName]

\* A deploy under way has a version, one that builds a release, one that cleans up a
\* release to remove.
Typed ==
  /\ TypeOK /\ job \in [Deploys -> Jobs]
  /\ \A d \in Deploys :
       /\ job[d].pc # "idle" => job[d].version \in Versions
       /\ job[d].pc \in Building => job[d].name \in Names
       /\ job[d].pc \in CleaningUp => job[d].name # 0

\* d goes on as j.
Becomes(d, j) == job' = [job EXCEPT ![d] = j]

LEMMA GotoBecomes ==
  ASSUME job \in [Deploys -> Jobs], NEW d \in Deploys, NEW point \in Points, Goto(d, point)
  PROVE  \E j \in Jobs :
           /\ Becomes(d, j) /\ j.pc = point /\ j.version = job[d].version /\ j.name = job[d].name
           /\ j.prev = job[d].prev /\ j.list = job[d].list /\ j.before = job[d].before
<1> DEFINE j == [job[d] EXCEPT !.pc = point]
<1>1. job[d] \in Jobs
  OBVIOUS
<1>2. /\ j \in Jobs /\ j.pc = point /\ j.version = job[d].version /\ j.name = job[d].name
      /\ j.prev = job[d].prev /\ j.list = job[d].list /\ j.before = job[d].before
  BY <1>1 DEF Jobs
<1>3. Becomes(d, j)
  BY DEF Goto, Becomes
<1>4. QED
  BY <1>2, <1>3

LEMMA BecomesFacts ==
  ASSUME job \in [Deploys -> Jobs], NEW d \in Deploys, NEW j \in Jobs, Becomes(d, j)
  PROVE  /\ job' \in [Deploys -> Jobs] /\ job'[d] = j
         /\ \A e \in Deploys : e # d => job'[e] = job[e]
BY DEF Becomes

\* What a deploy's own step has to show about its configuration.
LEMMA BecomesTyped ==
  ASSUME Typed, NEW d \in Deploys, NEW j \in Jobs, Becomes(d, j),
         j.pc # "idle" => j.version \in Versions, j.pc \in Building => j.name \in Names,
         j.pc \in CleaningUp => j.name # 0,
         (/\ dir \in [Names -> [version : Versions \cup {NoVersion}, stage : Stages]]
          /\ link \in [to : 0..MaxName, abs : BOOLEAN]
          /\ current \in [to : 0..MaxName, abs : BOOLEAN]
          /\ lock \in Deploys \cup {"free"}
          /\ log \in Seq(Names) /\ latest \in 0..MaxName
          /\ db \in SUBSET AllMigrations /\ mishaps \subseteq Faults)'
  PROVE  Typed'
<1>1. /\ job' \in [Deploys -> Jobs] /\ job'[d] = j
      /\ \A e \in Deploys : e # d => job'[e] = job[e]
  BY BecomesFacts DEF Typed
<1>2. \A e \in Deploys : job'[e] \in Jobs
  BY <1>1
<1>3. \A e \in Deploys :
        /\ job'[e].pc # "idle" => job'[e].version \in Versions
        /\ job'[e].pc \in Building => job'[e].name \in Names
        /\ job'[e].pc \in CleaningUp => job'[e].name # 0
  BY <1>1 DEF Typed
<1>4. TypeOK'
  BY <1>2 DEF TypeOK, Jobs
<1>5. QED
  BY <1>1, <1>3, <1>4 DEF Typed

LEMMA InitTyped == Init => Typed
<1> SUFFICES ASSUME Init PROVE Typed
  OBVIOUS
<1> USE RemoteAssumption DEF RemoteAssumption
<1>1. 1 \in Names /\ 1 \in 0..MaxName
  BY DEF Names
<1>2. dir \in [Names -> [version : Versions \cup {NoVersion}, stage : Stages]]
  BY DEF Init, Absent, Stages
<1>3. link \in [to : 0..MaxName, abs : BOOLEAN] /\ current \in [to : 0..MaxName, abs : BOOLEAN]
  <2>1. NoLink \in [to : 0..MaxName, abs : BOOLEAN] /\ [to |-> 1, abs |-> TRUE] \in [to : 0..MaxName, abs : BOOLEAN]
    BY <1>1 DEF NoLink
  <2>2. link = NoLink /\ (current = NoLink \/ current = [to |-> 1, abs |-> TRUE])
    BY DEF Init
  <2>3. QED
    BY <2>1, <2>2
<1>4. log \in Seq(Names) /\ latest \in 0..MaxName
  <2>1. <<1>> \in Seq(Names) /\ <<>> \in Seq(Names) /\ 0 \in 0..MaxName
    BY <1>1
  <2>2. (log = <<1>> /\ latest = 1) \/ (log = <<>> /\ latest = 0)
    BY DEF Init
  <2>3. QED
    BY <1>1, <2>1, <2>2
<1>5. db \in SUBSET AllMigrations
  <2>1. db = {} \/ (Installed \in Versions /\ db = Migrations[Installed])
    BY DEF Init
  <2>2. QED
    BY <2>1 DEF AllMigrations
<1>6. job \in [Deploys -> Jobs] /\ \A d \in Deploys : job[d].pc = "idle"
  <2>1. Idle \in Jobs /\ Idle.pc = "idle"
    BY DEF Idle, Jobs, Points
  <2>2. QED
    BY <2>1 DEF Init
<1>7. TypeOK
  <2>1. \A d \in Deploys : job[d] \in Jobs
    BY <1>6
  <2>2. lock \in Deploys \cup {"free"} /\ mishaps \subseteq Faults
    BY DEF Init
  <2>3. QED
    BY <1>2, <1>3, <1>4, <1>5, <2>1, <2>2 DEF TypeOK, Jobs
<1>8. QED
  BY <1>6, <1>7 DEF Typed, Building, CleaningUp

LEMMA ListTyped ==
  ASSUME TypeOK
  PROVE  /\ ReleasesList \in Seq(Names) /\ Len(ReleasesList) = Len(Among(log, OnDisk))
         /\ \A i \in 1..Len(ReleasesList) : ReleasesList[i] = Among(log, OnDisk)[Len(ReleasesList) + 1 - i]
<1> DEFINE s == Among(log, OnDisk)
<1>1. s \in Seq(Names)
  BY AmongKeeps DEF TypeOK
<1> HIDE DEF s
<1>2. Reverse(s) \in Seq(Names) /\ Len(Reverse(s)) = Len(s) /\ \A i \in 1..Len(s) : Reverse(s)[i] = s[(Len(s) - i) + 1]
  BY <1>1 DEF Reverse
<1>3. \A i \in 1..Len(s) : (Len(s) - i) + 1 = Len(s) + 1 - i
  BY <1>1
<1>4. QED
  BY <1>2, <1>3 DEF ReleasesList, s

LEMMA MigrationsTyped ==
  ASSUME NEW v \in Versions
  PROVE  Migrations[v] \subseteq AllMigrations
BY DEF AllMigrations

\* What oro:platform:update may apply are migrations.
LEMMA UpdateTyped ==
  ASSUME Typed, NEW d \in Deploys, job[d].pc # "idle"
  PROVE  PartlyUpdated(d) \subseteq SUBSET AllMigrations
<1>1. job[d].version \in Versions
  BY DEF Typed
<1>2. Migrations[job[d].version] \subseteq AllMigrations /\ db \subseteq AllMigrations
  BY <1>1, MigrationsTyped DEF Typed, TypeOK
<1>3. QED
  BY <1>2 DEF PartlyUpdated

\* The steps that move a deploy to its next point.
Walks(d) ==
  \/ Setup(d) \/ Lock(d) \/ UpdateCode(d) \/ AbsoluteLink(d) \/ UploadArtifacts(d) \/ Update(d)
  \/ WarmUp(d) \/ Symlink(d) \/ Unlock(d) \/ Prune(d) \/ Restart(d)

LEMMA WalksTyped ==
  ASSUME Typed, NEW d \in Deploys, Walks(d), UNCHANGED mishaps
  PROVE  Typed'
<1> USE DEF Typed, TypeOK
<1>1. PICK point \in Points \ CleaningUp :
        Goto(d, point) /\ (point \in Building => job[d].pc \in Building)
  <2>1. {"lock", "idle", "release", "link", "upload", "update", "warmup", "symlink", "unlock", "prune", "restart"}
          \subseteq Points \ CleaningUp
    BY DEF Points, TaskPoints, CleaningUp
  <2>2. QED
    BY <2>1 DEF Walks, Setup, Lock, UpdateCode, AbsoluteLink, UploadArtifacts, Update, WarmUp, Symlink, Unlock,
                Prune, Restart, At, Building
<1>2. PICK j \in Jobs : Becomes(d, j) /\ j.pc = point /\ j.version = job[d].version /\ j.name = job[d].name
  BY <1>1, GotoBecomes
<1>3. job[d].pc # "idle"
  BY DEF Walks, Setup, Lock, UpdateCode, AbsoluteLink, UploadArtifacts, Update, WarmUp, Symlink, Unlock,
         Prune, Restart, At
<1>4. /\ link' \in [to : 0..MaxName, abs : BOOLEAN]
      /\ current' \in [to : 0..MaxName, abs : BOOLEAN]
      /\ lock' \in Deploys \cup {"free"}
      /\ UNCHANGED <<log, latest>>
  <2>1. NoLink \in [to : 0..MaxName, abs : BOOLEAN]
    BY RemoteAssumption DEF RemoteAssumption, NoLink
  <2>2. CASE AbsoluteLink(d)
    <3>1. link' = [to |-> job[d].name, abs |-> TRUE]
      BY <2>2 DEF AbsoluteLink
    <3>2. job[d].name \in 0..MaxName
      BY <2>2 DEF AbsoluteLink, At, Building, Names
    <3>3. link' \in [to : 0..MaxName, abs : BOOLEAN]
      BY <3>1, <3>2
    <3>4. QED
      BY <2>2, <3>3 DEF AbsoluteLink, books
  <2>3. CASE ~AbsoluteLink(d)
    BY <2>1, <2>3 DEF Walks, Setup, Lock, UpdateCode, UploadArtifacts, Update, WarmUp, Symlink, Unlock,
                      Prune, Restart, files, books
  <2>4. QED
    BY <2>2, <2>3
<1>5. dir' \in [Names -> [version : Versions \cup {NoVersion}, stage : Stages]]
  <2>1. CASE UNCHANGED dir
    BY <2>1
  <2>2. CASE \E stage \in Stages : Reach(d, stage)
    <3>1. PICK stage \in Stages : Reach(d, stage)
      BY <2>2
    <3>2. \A n \in Names : dir'[n] = dir[n] \/ dir'[n] = [dir[n] EXCEPT !.stage = stage]
      BY <3>1 DEF Reach
    <3>3. dir' = [n \in Names |-> dir'[n]]
      BY <3>1 DEF Reach
    <3>4. \A n \in Names : dir'[n] \in [version : Versions \cup {NoVersion}, stage : Stages]
      BY <3>2
    <3>5. QED
      BY <3>3, <3>4
  <2>3. CASE Prune(d)
    BY <2>3 DEF Prune, Absent, Stages
  <2>4. {"code", "built", "updated", "ready"} \subseteq Stages
    BY DEF Stages
  <2>5. QED
    BY <2>1, <2>2, <2>3, <2>4 DEF Walks, Setup, Lock, UpdateCode, AbsoluteLink, UploadArtifacts, Update, WarmUp,
                                  Symlink, Unlock, Restart, files
<1>6. db' \in SUBSET AllMigrations
  <2>1. Migrations[job[d].version] \subseteq AllMigrations
    BY <1>3, MigrationsTyped
  <2>2. QED
    BY <2>1 DEF Walks, Setup, Lock, UpdateCode, AbsoluteLink, UploadArtifacts, Update, WarmUp, Symlink, Unlock,
                Prune, Restart
<1>7. QED
  BY <1>1, <1>2, <1>3, <1>4, <1>5, <1>6, BecomesTyped DEF CleaningUp

LEMMA StartReleaseTyped ==
  ASSUME Typed, NEW d \in Deploys, StartRelease(d), UNCHANGED mishaps
  PROVE  Typed'
<1> USE DEF Typed, TypeOK
<1> DEFINE name == latest + 1
           prev == IF ReleasesList = <<>> THEN 0 ELSE Head(ReleasesList)
           list == <<name>> \o ReleasesList
           j == [job[d] EXCEPT !.pc = "code", !.name = name, !.list = list, !.prev = prev]
<1>1. name \in Names /\ name \in 0..MaxName + 1 /\ name \in 0..MaxName
  BY RemoteAssumption DEF RemoteAssumption, StartRelease, Names
<1>2. ReleasesList \in Seq(Names)
  BY ListTyped
<1>3. prev \in 0..MaxName /\ list \in Seq(Names)
  <2>1. ReleasesList # <<>> => Head(ReleasesList) \in Names
    BY <1>2
  <2>2. Names \subseteq 0..MaxName /\ 0 \in 0..MaxName
    BY RemoteAssumption DEF RemoteAssumption, Names
  <2>3. <<name>> \in Seq(Names)
    BY <1>1
  <2>4. list \in Seq(Names)
    <3> HIDE DEF name
    <3>1. QED
      BY <1>2, <2>3
  <2>5. QED
    BY <2>1, <2>2, <2>4
<1>4. job[d] \in Jobs /\ "code" \in Points
  BY DEF Points, TaskPoints
<1>5. Becomes(d, j)
  BY DEF StartRelease, Becomes
<1> HIDE DEF name, prev, list
<1>6. j \in Jobs /\ j.pc = "code" /\ j.version = job[d].version /\ j.name = name
  BY <1>1, <1>3, <1>4 DEF Jobs
<1> HIDE DEF j
<1>7. job[d].version \in Versions
  BY DEF StartRelease, At
<1>8. /\ dir' = [dir EXCEPT ![name] = [version |-> job[d].version, stage |-> "empty"]]
      /\ link' = [to |-> name, abs |-> FALSE] /\ latest' = name /\ log' = Append(log, name)
      /\ UNCHANGED <<current, lock, db>>
  BY DEF StartRelease, name
<1>9. dir' \in [Names -> [version : Versions \cup {NoVersion}, stage : Stages]]
  BY <1>1, <1>7, <1>8 DEF Stages
<1>10. log' \in Seq(Names) /\ link' \in [to : 0..MaxName, abs : BOOLEAN]
  BY <1>1, <1>8
<1>11. QED
  BY <1>1, <1>5, <1>6, <1>7, <1>8, <1>9, <1>10, BecomesTyped DEF Building, CleaningUp

LEMMA IdleTyped == Idle \in Jobs
<1>1. NoVersion \in Versions \cup {NoVersion} /\ 0 \in 0..MaxName /\ 0 \in 0..MaxName + 1 /\ <<>> \in Seq(Names)
  BY RemoteAssumption DEF RemoteAssumption
<1>2. QED
  BY <1>1 DEF Idle, Jobs, Points

LEMMA FreshDeploy ==
  ASSUME NEW v \in Versions, NEW c \in 0..MaxName
  PROVE  \E j \in Jobs :
           /\ j = [Idle EXCEPT !.pc = "setup", !.version = v, !.before = c]
           /\ j.pc = "setup" /\ j.version = v /\ j.before = c /\ j.name = 0 /\ j.prev = 0
<1> DEFINE j == [Idle EXCEPT !.pc = "setup", !.version = v, !.before = c]
<1>1. Idle \in Jobs /\ Idle.name = 0 /\ Idle.prev = 0
  BY IdleTyped DEF Idle
<1>2. "setup" \in Points
  BY DEF Points
<1>3. j \in Jobs /\ j.pc = "setup" /\ j.version = v /\ j.before = c /\ j.name = 0 /\ j.prev = 0
  BY <1>1, <1>2 DEF Jobs
<1> HIDE DEF j
<1>4. QED
  BY <1>3 DEF j

LEMMA BeginTyped ==
  ASSUME Typed, NEW d \in Deploys, Begin(d), UNCHANGED mishaps
  PROVE  Typed'
<1>1. PICK v \in Versions : job' = [job EXCEPT ![d] =
        [Idle EXCEPT !.pc = "setup", !.version = v, !.before = current.to]]
  BY DEF Begin
<1>2. PICK c \in 0..MaxName : c = current.to
  BY DEF Typed, TypeOK
<1>3. PICK j \in Jobs :
        /\ j = [Idle EXCEPT !.pc = "setup", !.version = v, !.before = c]
        /\ j.pc = "setup" /\ j.version = v /\ j.before = c /\ j.name = 0 /\ j.prev = 0
  BY FreshDeploy, Zenon
<1>4. Becomes(d, j)
  BY <1>1, <1>2, <1>3, Zenon DEF Becomes
<1>5. QED
  BY <1>3, <1>4, BecomesTyped DEF Begin, files, books, Building, CleaningUp, Typed, TypeOK

LEMMA FailTyped ==
  ASSUME Typed, NEW d \in Deploys, Fail(d)
  PROVE  Typed'
<1> USE DEF Typed, TypeOK
<1> DEFINE name == IF job[d].name = 0 THEN latest + 1 ELSE job[d].name
           j == [job[d] EXCEPT !.pc = "repoint", !.name = name]
<1>1. name \in 0..MaxName + 1 /\ name # 0 /\ job[d] \in Jobs /\ "repoint" \in Points
  BY RemoteAssumption DEF RemoteAssumption, Points, Jobs
<1>2. Becomes(d, j)
  BY DEF Fail, Becomes
<1> HIDE DEF name
<1>3. j \in Jobs /\ j.pc = "repoint" /\ j.version = job[d].version /\ j.name = name
  BY <1>1 DEF Jobs
<1> HIDE DEF j
<1>4. job[d].version \in Versions
  BY DEF Fail, Fails, TaskPoints, At
<1>5. mishaps' \subseteq Faults
  BY DEF Fail, Fails, Mishap
<1>6. QED
  BY <1>1, <1>2, <1>3, <1>4, <1>5, BecomesTyped DEF Fail, files, books, Building

\* The release an update works in has a name.
LEMMA EndsTyped ==
  ASSUME Typed, NEW d \in Deploys, FailUpdate(d) \/ Kill(d)
  PROVE  Typed'
<1> USE DEF Typed, TypeOK
<1>1. PICK point \in {"repoint", "idle"} : Goto(d, point) /\ (point = "repoint" => InRelease(d))
  BY DEF FailUpdate, Kill
<1>2. PICK j \in Jobs : Becomes(d, j) /\ j.pc = point /\ j.version = job[d].version /\ j.name = job[d].name
  BY <1>1, GotoBecomes DEF Points
<1>3. job[d].pc # "idle"
  BY DEF FailUpdate, Kill, At
<1>4. db' \in SUBSET AllMigrations
  BY <1>3, UpdateTyped DEF FailUpdate, Kill
<1>5. job[d].version \in Versions /\ (point = "repoint" => job[d].name # 0)
  BY <1>1, <1>3 DEF InRelease, Exists, Names
<1>6. mishaps' \subseteq Faults
  BY DEF FailUpdate, Kill, Mishap
<1>7. QED
  BY <1>1, <1>2, <1>4, <1>5, <1>6, BecomesTyped DEF FailUpdate, Kill, files, books, Building, CleaningUp

LEMMA CleanUpTyped ==
  ASSUME Typed, NEW d \in Deploys, CleanUp(d), UNCHANGED mishaps
  PROVE  Typed'
<1> USE DEF Typed, TypeOK
<1>1. PICK point \in {"remove", "unmark", "forget", "idle"} : Goto(d, point)
  BY DEF CleanUp, Repoint, RemoveRelease, DropMarks, Forget
<1>2. PICK j \in Jobs : Becomes(d, j) /\ j.pc = point /\ j.version = job[d].version /\ j.name = job[d].name
  BY <1>1, GotoBecomes DEF Points
<1>3. job[d].pc \in CleaningUp /\ job[d].pc # "idle"
  BY DEF CleanUp, Repoint, RemoveRelease, DropMarks, Forget, At, CleaningUp
<1>4. job[d].name # 0 /\ job[d].version \in Versions /\ job[d] \in Jobs
  BY <1>3
<1>5. Fallback(d) \in 0..MaxName
  <2>1. job[d].prev \in 0..MaxName /\ job[d].name \in 0..MaxName + 1 /\ MaxName \in Nat
    BY <1>4, RemoteAssumption DEF RemoteAssumption, Jobs
  <2>2. job[d].name - 1 \in 0..MaxName
    BY <1>4, <2>1
  <2>3. QED
    BY <2>1, <2>2 DEF Fallback
<1>6. current' \in [to : 0..MaxName, abs : BOOLEAN] /\ link' \in [to : 0..MaxName, abs : BOOLEAN]
  <2>1. NoLink \in [to : 0..MaxName, abs : BOOLEAN]
    BY RemoteAssumption DEF RemoteAssumption, NoLink
  <2>2. [to |-> Fallback(d), abs |-> TRUE] \in [to : 0..MaxName, abs : BOOLEAN]
    BY <1>5
  <2>3. QED
    BY <2>1, <2>2 DEF CleanUp, Repoint, RemoveRelease, DropMarks, Forget, files
<1>7. dir' \in [Names -> [version : Versions \cup {NoVersion}, stage : Stages]]
  <2>1. CASE RemoveRelease(d)
    BY <2>1 DEF RemoveRelease, Absent, Stages
  <2>2. CASE ~RemoveRelease(d)
    BY <2>2 DEF CleanUp, Repoint, DropMarks, Forget, files
  <2>3. QED
    BY <2>1, <2>2
<1>8. log' \in Seq(Names) /\ latest' \in 0..MaxName
  <2>1. CASE Forget(d)
    BY <1>5, <2>1, AmongKeeps DEF Forget
  <2>2. CASE ~Forget(d)
    BY <2>2 DEF CleanUp, Repoint, RemoveRelease, DropMarks, books
  <2>3. QED
    BY <2>1, <2>2
<1>9. UNCHANGED db /\ lock' \in Deploys \cup {"free"}
  BY DEF CleanUp, Repoint, RemoveRelease, DropMarks, Forget, files
<1>10. QED
  BY <1>2, <1>4, <1>6, <1>7, <1>8, <1>9, BecomesTyped DEF Building, CleaningUp

\* A clean-up that fails leaves a release that was partly removed, or shorter books.
LEMMA FailCleanUpTyped ==
  ASSUME Typed, NEW d \in Deploys, FailCleanUp(d)
  PROVE  Typed'
<1> USE DEF Typed, TypeOK
<1>1. PICK j \in Jobs : Becomes(d, j) /\ j.pc = "idle"
  <2>1. Goto(d, "idle") /\ "idle" \in Points
    BY DEF FailCleanUp, Points
  <2>2. QED
    BY <2>1, GotoBecomes
<1>2. /\ link' \in [to : 0..MaxName, abs : BOOLEAN] /\ UNCHANGED <<current, lock, latest, db>>
      /\ mishaps' \subseteq Faults
  <2>1. NoLink \in [to : 0..MaxName, abs : BOOLEAN]
    BY RemoteAssumption DEF RemoteAssumption, NoLink
  <2>2. QED
    BY <2>1 DEF FailCleanUp, Mishap, files, books
<1>3. dir' \in [Names -> [version : Versions \cup {NoVersion}, stage : Stages]]
  <2>1. CASE UNCHANGED dir
    BY <2>1
  <2>2. CASE dir' = [n \in Names |-> IF n = job[d].name /\ Exists(n)
                                     THEN [dir[n] EXCEPT !.stage = "empty"] ELSE dir[n]]
    BY <2>2 DEF Stages
  <2>3. QED
    BY <2>1, <2>2 DEF FailCleanUp, files
<1>4. log' \in Seq(Names)
  BY AmongKeeps DEF FailCleanUp, books
<1>5. QED
  BY <1>1, <1>2, <1>3, <1>4, BecomesTyped DEF Building, CleaningUp

LEMMA NextTyped ==
  ASSUME Typed, [Next]_vars
  PROVE  Typed'
<1>1. CASE OperatorUnlocks
  BY <1>1 DEF OperatorUnlocks, books, Typed, TypeOK
<1>2. CASE Rest \/ UNCHANGED vars
  BY <1>2 DEF Rest, vars, files, books, Typed, TypeOK
<1>3. ASSUME NEW d \in Deploys, (Begin(d) /\ UNCHANGED mishaps) \/ Step(d) \/ Kill(d)
      PROVE  Typed'
  <2>1. CASE (Walks(d) \/ StartRelease(d) \/ CleanUp(d)) /\ UNCHANGED mishaps
    BY <2>1, WalksTyped, StartReleaseTyped, CleanUpTyped
  <2>2. QED
    BY <1>3, <2>1, BeginTyped, FailTyped, EndsTyped, FailCleanUpTyped DEF Step, Tasks, Walks
<1>4. QED
  BY <1>1, <1>2, <1>3 DEF Next

\* Links, books, directories and Deployer's configuration keep their types through failures
\* of any task, clean-ups and kills, for any number of deploys: in particular the clean-up
\* never writes a negative release number.
THEOREM TypeCorrect == Spec => []TypeOK
<1>1. Init => Typed
  BY InitTyped
<1>2. Typed /\ [Next]_vars => Typed'
  BY NextTyped
<1>3. Typed => TypeOK
  BY DEF Typed
<1>4. QED
  BY <1>1, <1>2, <1>3, PTL DEF Spec

-----------------------------------------------------------------------------
(* One deploy after another, on a stage in service that keeps a release to  *)
(* return to. Both premises are needed: a second deploy may start between   *)
(* the unlock and the clean-up of releases of the first, and with Keep = 1  *)
(* or a first deploy a late failure removes the only release.               *)

OneJob == \A d, e \in Deploys : d = e
InService == Installed # NoVersion /\ Keep # 1

\* How far a release has been built when its deploy is at a point.
BuiltAt(pc) ==
  CASE pc = "code" -> "empty" [] pc \in {"link", "upload"} -> "code" [] pc = "update" -> "built"
    [] pc = "warmup" -> "updated" [] pc = "symlink" -> "ready"

Logged(n) == \E i \in 1..Len(log) : log[i] = n

\* The books, and the directories against them.
Booked ==
  /\ Increasing(log) /\ (\A i \in 1..Len(log) : log[i] <= latest)
  /\ \A n \in Names : n > latest => dir[n].stage = "absent"

\* Whatever has gone through oro:update has those of its migrations in the database that the
\* checksums compare.
Covered == \A n \in Names :
  dir[n].stage \in {"updated", "ready"} => Migrations[dir[n].version] \cap Compared \subseteq db

Served == current.to \in Names /\ current.abs /\ dir[current.to].stage = "ready"

\* The release of a deploy whose configuration is j.
Own(j) ==
  /\ j.pc \in Building \cup Published =>
       /\ j.name \in Names /\ j.name = latest /\ Logged(j.name)
       /\ \A i \in 2..Len(j.list) : j.list[i] # j.name
  /\ j.pc \in Building =>
       /\ j.name # current.to
       /\ dir[j.name].version = j.version /\ dir[j.name].stage = BuiltAt(j.pc)
       /\ link.to = j.name /\ (j.pc \notin {"code", "link"} => link.abs)
  /\ j.pc \in Published => current.to = j.name

\* n is the release to return to, and what the books keep without release m.
Returns(n, m) ==
  /\ n \in Names /\ n # m /\ dir[n].stage = "ready"
  /\ Logged(n) /\ (\A i \in 1..Len(log) : log[i] = m \/ log[i] <= n)
  /\ \A k \in Names : k > n /\ k # m => dir[k].stage = "absent"

\* Fallback, for the configuration j.
FallbackOf(j) == IF j.prev # 0 THEN j.prev ELSE j.name - 1

\* The site can be put back where it was.
Restorable(j) ==
  /\ j.pc \in Before => Returns(current.to, 0) /\ current.to = latest
  /\ j.pc \in Before \ {"idle"} => j.before = current.to /\ j.name = 0 /\ j.prev = 0
  /\ j.pc \in Building \cup Published =>
       /\ j.prev = j.before /\ Returns(j.prev, j.name)
       /\ \A i \in 3..Len(j.list) : j.list[i] # j.prev
  /\ j.pc \in Building => current.to = j.prev
  /\ j.pc \in CleaningUp => FallbackOf(j) = j.before /\ Returns(FallbackOf(j), j.name)
  /\ j.pc \in CleaningUp \ {"repoint"} => current.to = FallbackOf(j)
  /\ j.pc \in {"unmark", "forget"} => ~Exists(j.name)

\* As long as nothing is killed and no clean-up fails the site can be put back, and only then
\* anything is.
DeployInv ==
  /\ Booked /\ Covered /\ Served
  /\ \A d \in Deploys :
       /\ Own(job[d])
       /\ CleanedUp => Restorable(job[d])
       /\ job[d].pc \in CleaningUp => CleanedUp

\* What the types say of the books and of a configuration.
LEMMA NumbersTyped ==
  ASSUME Typed
  PROVE  /\ MaxName \in Nat /\ Keep \in Nat /\ Keep # 0 /\ latest \in Nat /\ latest <= MaxName
         /\ Len(log) \in Nat /\ \A i \in 1..Len(log) : log[i] \in Names
         /\ \A n \in Names : n \in Nat /\ n # 0 /\ n <= MaxName
         /\ \A j \in Jobs : j.name \in Nat /\ j.prev \in Nat /\ j.before \in Nat
                            /\ j.list \in Seq(Names) /\ Len(j.list) \in Nat
<1>1. MaxName \in Nat /\ Keep \in Nat /\ Keep # 0
  BY RemoteAssumption DEF RemoteAssumption
<1>2. latest \in 0..MaxName /\ log \in Seq(Names)
  BY DEF Typed, TypeOK
<1>3. \A n \in Names : n \in Nat /\ n # 0 /\ n <= MaxName
  BY <1>1 DEF Names
<1>4. \A j \in Jobs : j.name \in 0..MaxName + 1 /\ j.prev \in 0..MaxName /\ j.before \in 0..MaxName
                      /\ j.list \in Seq(Names)
  BY DEF Jobs
<1>5. latest \in Nat /\ latest <= MaxName
  BY <1>1, <1>2
<1>6. Len(log) \in Nat /\ \A i \in 1..Len(log) : log[i] \in Names
  BY <1>2
<1>7. \A j \in Jobs : j.name \in Nat /\ j.prev \in Nat /\ j.before \in Nat
                      /\ j.list \in Seq(Names) /\ Len(j.list) \in Nat
  BY <1>1, <1>4
<1>8. QED
  BY <1>1, <1>3, <1>5, <1>6, <1>7

\* The deploy goes on as j.
LEMMA Proceeds ==
  ASSUME OneJob, Typed, NEW d \in Deploys, NEW j \in Jobs, Becomes(d, j),
         (Booked /\ Covered /\ Served)', Own(j)', CleanedUp' => Restorable(j)',
         j.pc \in CleaningUp => CleanedUp'
  PROVE  DeployInv'
<1>1. job'[d] = j /\ \A e \in Deploys : e = d
  BY BecomesFacts DEF Typed, OneJob
<1>2. \A e \in Deploys : job'[e] = j
  BY <1>1
<1>3. QED
  BY <1>2 DEF DeployInv

\* A step that touches no release and no book.
LEMMA Unmoved ==
  ASSUME UNCHANGED <<dir, link, current, log, latest>>, db \subseteq db',
         Booked, Covered, Served, NEW i, NEW j,
         j.pc \in Building \cup Published => j.name = i.name /\ j.list = i.list /\ j.version = i.version
  PROVE  /\ (Booked /\ Covered /\ Served)'
         /\ Own(i) /\ j.pc = i.pc => Own(j)'
         /\ \A n, m : Returns(n, m) => Returns(n, m)'
<1>1. (Booked /\ Covered /\ Served)'
  BY DEF Booked, Covered, Served
<1>2. \A n : Logged(n) <=> Logged(n)'
  BY DEF Logged
<1>3. Own(i) /\ j.pc = i.pc => Own(j)'
  BY <1>2 DEF Own
<1>4. \A n, m : Returns(n, m) => Returns(n, m)'
  BY <1>2 DEF Returns
<1>5. QED
  BY <1>1, <1>3, <1>4

LEMMA Standing ==
  ASSUME Typed, DeployInv, NEW d \in Deploys
  PROVE  \E i \in Jobs :
           /\ i = job[d] /\ Own(i) /\ (CleanedUp => Restorable(i)) /\ (i.pc \in CleaningUp => CleanedUp)
           /\ Booked /\ Covered /\ Served
BY DEF Typed, DeployInv

LEMMA PointsApart ==
  /\ Before \cap Building = {} /\ Before \cap Published = {} /\ Before \cap CleaningUp = {}
  /\ Building \cap Published = {} /\ Building \cap CleaningUp = {} /\ Published \cap CleaningUp = {}
BY DEF Before, Building, Published, CleaningUp

LEMMA QuietKeeps ==
  ASSUME Typed, OneJob, DeployInv, NEW d \in Deploys, Setup(d) \/ Lock(d) \/ Unlock(d) \/ Restart(d),
         UNCHANGED mishaps
  PROVE  DeployInv'
<1>1. PICK i \in Jobs :
        /\ i = job[d] /\ Own(i) /\ (CleanedUp => Restorable(i)) /\ (i.pc \in CleaningUp => CleanedUp)
        /\ Booked /\ Covered /\ Served
  BY Standing
<1>2. PICK point \in Points :
        /\ Goto(d, point)
        /\ \/ i.pc \in {"setup", "lock"} /\ point \in {"lock", "release", "idle"}
           \/ i.pc = "unlock" /\ point = "prune"
           \/ i.pc = "restart" /\ point = "idle"
  BY <1>1 DEF Setup, Lock, Unlock, Restart, At, Points, TaskPoints
<1>3. PICK j \in Jobs :
        /\ Becomes(d, j) /\ j.pc = point /\ j.version = i.version /\ j.name = i.name
        /\ j.prev = i.prev /\ j.list = i.list /\ j.before = i.before
  BY <1>1, <1>2, GotoBecomes DEF Typed
<1>4. UNCHANGED <<dir, link, current, log, latest, db>> /\ (CleanedUp <=> CleanedUp')
  BY DEF Setup, Lock, Unlock, Restart, files, books, CleanedUp
<1>5. /\ (Booked /\ Covered /\ Served)'
      /\ \A n, m : Returns(n, m) => Returns(n, m)'
  BY <1>1, <1>4, Unmoved, Zenon
<1>6. (\A n : Logged(n) <=> Logged(n)') /\ current' = current /\ latest' = latest
  BY <1>4 DEF Logged
<1>7. CASE i.pc \in {"setup", "lock"} /\ point \in {"lock", "release", "idle"}
  <2>1. i.pc \in Before \ {"idle"} /\ j.pc \in Before /\ j.pc \notin Building \cup Published \cup CleaningUp
    BY <1>3, <1>7 DEF Before, Building, Published, CleaningUp
  <2>2. Own(j)'
    BY <2>1 DEF Own
  <2>3. ASSUME CleanedUp' PROVE Restorable(j)'
    <3>1. Returns(current.to, 0) /\ current.to = latest /\ i.before = current.to /\ i.name = 0 /\ i.prev = 0
      BY <1>1, <1>4, <2>1, <2>3 DEF Restorable
    <3>2. Returns(current.to, 0)'
      BY <3>1, <1>5, <1>6
    <3>3. QED
      BY <1>3, <1>6, <2>1, <3>1, <3>2 DEF Restorable, CleaningUp
  <2>4. QED
    BY <1>3, <1>5, <2>1, <2>2, <2>3, Proceeds
<1>8. CASE i.pc = "unlock" /\ point = "prune"
  <2>1. i.pc \in Published /\ j.pc \in Published /\ j.pc \notin Before \cup Building \cup CleaningUp
    BY <1>3, <1>8 DEF Before, Building, Published, CleaningUp
  <2>2. Own(j)'
    BY <1>1, <1>3, <1>6, <2>1 DEF Own
  <2>3. ASSUME CleanedUp' PROVE Restorable(j)'
    BY <1>1, <1>3, <1>4, <1>5, <2>1, <2>3 DEF Restorable, CleaningUp
  <2>4. QED
    BY <1>3, <1>5, <2>1, <2>2, <2>3, Proceeds
<1>9. CASE i.pc = "restart" /\ point = "idle"
  <2>1. i.pc \in Published /\ j.pc = "idle" /\ j.pc \in Before /\ j.pc \notin Building \cup Published \cup CleaningUp
    BY <1>3, <1>9 DEF Before, Building, Published, CleaningUp
  <2>2. Own(j)'
    BY <2>1 DEF Own
  <2>3. current.to = latest /\ Logged(current.to) /\ current.to \in Names /\ dir[current.to].stage = "ready"
    BY <1>1, <2>1 DEF Own, Served
  <2>4. Returns(current.to, 0)
    BY <1>1, <2>3, NumbersTyped DEF Booked, Returns
  <2>5. Returns(current.to, 0)'
    BY <1>5, <1>6, <2>4
  <2>6. Restorable(j)'
    BY <1>6, <2>1, <2>3, <2>5 DEF Restorable, CleaningUp
  <2>7. QED
    BY <1>3, <1>5, <2>1, <2>2, <2>6, Proceeds
<1>10. QED
  BY <1>2, <1>7, <1>8, <1>9

LEMMA BeginKeeps ==
  ASSUME Typed, OneJob, DeployInv, NEW d \in Deploys, Begin(d), UNCHANGED mishaps
  PROVE  DeployInv'
<1>1. PICK i \in Jobs :
        /\ i = job[d] /\ Own(i) /\ (CleanedUp => Restorable(i)) /\ (i.pc \in CleaningUp => CleanedUp)
        /\ Booked /\ Covered /\ Served
  BY Standing
<1>2. PICK v \in Versions : job' = [job EXCEPT ![d] =
        [Idle EXCEPT !.pc = "setup", !.version = v, !.before = current.to]]
  BY DEF Begin
<1>3. PICK c \in 0..MaxName : c = current.to
  BY DEF Typed, TypeOK
<1>4. PICK j \in Jobs :
        /\ j = [Idle EXCEPT !.pc = "setup", !.version = v, !.before = c]
        /\ j.pc = "setup" /\ j.version = v /\ j.before = c /\ j.name = 0 /\ j.prev = 0
  BY FreshDeploy, Zenon
<1>5. j.pc = "setup" /\ j.before = current.to /\ j.name = 0 /\ j.prev = 0
  BY <1>3, <1>4
<1>6. Becomes(d, j)
  BY <1>2, <1>3, <1>4, Zenon DEF Becomes
<1>7. UNCHANGED <<dir, link, current, log, latest, db>> /\ (CleanedUp <=> CleanedUp')
  BY DEF Begin, files, books, CleanedUp
<1>8. /\ (Booked /\ Covered /\ Served)'
      /\ \A n, m : Returns(n, m) => Returns(n, m)'
  BY <1>1, <1>7, Unmoved, Zenon
<1>9. i.pc \in Before /\ j.pc \in Before /\ j.pc \notin Building \cup Published \cup CleaningUp
  BY <1>1, <1>5 DEF Begin, At, Before, Building, Published, CleaningUp
<1>10. Own(j)'
  BY <1>9 DEF Own
<1>11. ASSUME CleanedUp' PROVE Restorable(j)'
  <2>1. Returns(current.to, 0) /\ current.to = latest
    BY <1>1, <1>7, <1>9, <1>11 DEF Restorable
  <2>2. Returns(current.to, 0)' /\ current' = current /\ latest' = latest
    BY <1>7, <1>8, <2>1
  <2>3. QED
    BY <1>5, <1>9, <2>1, <2>2 DEF Restorable, CleaningUp
<1>12. QED
  BY <1>5, <1>6, <1>8, <1>9, <1>10, <1>11, Proceeds

\* The releases on disk that the log knows, newest first.
LEMMA ListOnDisk ==
  ASSUME Typed
  PROVE  \A i \in 1..Len(ReleasesList) : ReleasesList[i] \in OnDisk
<1> DEFINE s == Among(log, OnDisk)
<1>1. s \in Seq(Names) /\ Kept(s, log, OnDisk, Len(log))
  BY AmongKeeps DEF Typed, TypeOK
<1>2. /\ Len(ReleasesList) = Len(s)
      /\ \A i \in 1..Len(ReleasesList) : ReleasesList[i] = s[Len(ReleasesList) + 1 - i]
  BY ListTyped DEF Typed
<1> HIDE DEF s
<1>3. Len(s) \in Nat
  BY <1>1
<1>4. \A i \in 1..Len(s) : Len(s) + 1 - i \in 1..Len(s)
  BY <1>3
<1>5. QED
  BY <1>1, <1>2, <1>4 DEF Kept

LEMMA ListStartsAtLatest ==
  ASSUME Typed, Booked, Returns(latest, 0)
  PROVE  /\ ReleasesList # <<>> /\ Head(ReleasesList) = latest
         /\ \A i \in 2..Len(ReleasesList) : ReleasesList[i] # latest
<1> DEFINE s == Among(log, OnDisk)
<1>1. s \in Seq(Names) /\ Kept(s, log, OnDisk, Len(log))
  BY AmongKeeps DEF Typed, TypeOK
<1>2. /\ Len(ReleasesList) = Len(s) /\ ReleasesList \in Seq(Names)
      /\ \A i \in 1..Len(ReleasesList) : ReleasesList[i] = s[Len(ReleasesList) + 1 - i]
  BY ListTyped DEF Typed
<1> HIDE DEF s
<1>3. Len(s) \in Nat /\ \A k \in 1..Len(s) : s[k] \in Names /\ s[k] \in Nat
  BY <1>1, NumbersTyped
<1>4. latest \in OnDisk
  BY DEF Returns, OnDisk, Exists
<1>5. PICK i \in 1..Len(log) : log[i] = latest
  BY DEF Returns, Logged
<1>6. PICK k \in 1..Len(s) : s[k] = latest
  BY <1>1, <1>4, <1>5 DEF Kept
<1>7. \A m \in 1..Len(s) : s[m] <= latest
  BY <1>1 DEF Kept, Booked
<1>8. \A m, n \in 1..Len(s) : m < n => s[m] < s[n]
  BY <1>1, <1>3 DEF Kept, Booked, Increasing
<1>9. k = Len(s)
  <2>1. SUFFICES ASSUME k # Len(s) PROVE FALSE
    OBVIOUS
  <2>2. k < Len(s) /\ Len(s) \in 1..Len(s)
    BY <1>3, <2>1
  <2>3. s[k] < s[Len(s)] /\ s[Len(s)] <= latest
    BY <1>7, <1>8, <2>2
  <2>4. QED
    BY <1>3, <1>6, <2>2, <2>3
<1>10. Len(s) >= 1 /\ s[Len(s)] = latest
  BY <1>6, <1>9
<1>11. ReleasesList[1] = latest
  <2>1. 1 \in 1..Len(ReleasesList) /\ Len(ReleasesList) + 1 - 1 = Len(s)
    BY <1>2, <1>3, <1>10
  <2>2. QED
    BY <1>2, <1>10, <2>1
<1>12. ASSUME NEW m \in 2..Len(ReleasesList) PROVE ReleasesList[m] # latest
  <2>1. m \in 1..Len(ReleasesList) /\ Len(s) + 1 - m \in 1..Len(s) /\ Len(s) + 1 - m < Len(s)
    BY <1>2, <1>3
  <2>2. s[Len(s) + 1 - m] < s[Len(s)]
    BY <1>8, <1>10, <2>1, <1>3
  <2>3. ReleasesList[m] = s[Len(s) + 1 - m] /\ s[Len(s) + 1 - m] \in Nat
    BY <1>2, <1>3, <2>1
  <2>4. QED
    BY <1>3, <1>10, <2>2, <2>3
<1>13. ReleasesList # <<>> /\ Head(ReleasesList) = ReleasesList[1]
  BY <1>2, <1>10
<1>14. QED
  BY <1>11, <1>12, <1>13

LEMMA StartReleaseKeeps ==
  ASSUME Typed, OneJob, InService, DeployInv, NEW d \in Deploys, StartRelease(d), UNCHANGED mishaps
  PROVE  DeployInv'
<1>1. PICK i \in Jobs :
        /\ i = job[d] /\ Own(i) /\ (CleanedUp => Restorable(i)) /\ (i.pc \in CleaningUp => CleanedUp)
        /\ Booked /\ Covered /\ Served
  BY Standing
<1>2. PICK name : name = latest + 1
  OBVIOUS
<1>3. PICK l : l = ReleasesList
  OBVIOUS
<1>4. /\ i.pc = "release" /\ name \in Names /\ latest' = name /\ log' = Append(log, name)
      /\ dir' = [dir EXCEPT ![name] = [version |-> i.version, stage |-> "empty"]]
      /\ link' = [to |-> name, abs |-> FALSE]
      /\ UNCHANGED <<current, db>> /\ (CleanedUp <=> CleanedUp')
  BY <1>1, <1>2 DEF StartRelease, At, CleanedUp
<1>5. job' = [job EXCEPT ![d] = [job[d] EXCEPT !.pc = "code", !.name = name, !.list = <<name>> \o l,
                                   !.prev = IF l = <<>> THEN 0 ELSE Head(l)]]
  BY <1>2, <1>3 DEF StartRelease
<1>6. PICK prev : prev = IF l = <<>> THEN 0 ELSE Head(l)
  OBVIOUS
<1>7. PICK list : list = <<name>> \o l
  OBVIOUS
<1>8. l \in Seq(Names) /\ Len(l) \in Nat
  BY <1>3, ListTyped DEF Typed
<1>9. list \in Seq(Names) /\ Len(list) = Len(l) + 1 /\ \A m \in 2..Len(list) : list[m] = l[m - 1]
  <2>1. <<name>> \in Seq(Names) /\ Len(<<name>>) = 1
    BY <1>4
  <2>2. QED
    BY <1>7, <1>8, <2>1
<1>10. prev \in 0..MaxName /\ name \in 0..MaxName + 1
  <2>1. l # <<>> => Head(l) \in Names
    BY <1>8
  <2>2. QED
    BY <1>4, <1>6, <2>1, NumbersTyped DEF Names
<1>11. PICK j : j = [i EXCEPT !.pc = "code", !.name = name, !.list = list, !.prev = prev]
  OBVIOUS
<1>12. /\ j \in Jobs /\ j.pc = "code" /\ j.name = name /\ j.list = list /\ j.prev = prev
       /\ j.version = i.version /\ j.before = i.before
  <2>1. "code" \in Points
    BY DEF Points, TaskPoints
  <2>2. QED
    BY <1>9, <1>10, <1>11, <2>1 DEF Jobs
<1>13. Becomes(d, j)
  BY <1>1, <1>5, <1>6, <1>7, <1>11, Zenon DEF Becomes
<1>14. /\ dir'[name].stage = "empty" /\ dir'[name].version = i.version
       /\ \A n \in Names : n # name => dir'[n] = dir[n]
  BY <1>4 DEF Typed, TypeOK
<1>15. dir[name].stage = "absent" /\ latest \in Nat /\ name \in Nat /\ name > latest
  BY <1>1, <1>2, <1>4, NumbersTyped DEF Booked
<1>16. current.to # name
  BY <1>1, <1>15 DEF Served
<1>17. /\ Len(log') = Len(log) + 1 /\ log'[Len(log) + 1] = name /\ Len(log) \in Nat
       /\ \A k \in 1..Len(log) : log'[k] = log[k]
       /\ DOMAIN log' = 1..Len(log) + 1 /\ DOMAIN log = 1..Len(log)
  BY <1>4 DEF Typed, TypeOK
<1>18. Booked'
  <2>1. \A k \in 1..Len(log) : log[k] <= latest /\ log[k] \in Nat
    BY <1>1, NumbersTyped DEF Booked
  <2>2. \A k \in 1..Len(log) : log'[k] < name /\ log'[k] \in Nat
    BY <1>15, <1>17, <2>1
  <2>3. Increasing(log')
    <3> SUFFICES ASSUME NEW m \in 1..Len(log) + 1, NEW n \in 1..Len(log) + 1, m < n
                 PROVE  log'[m] < log'[n]
      BY <1>17 DEF Increasing
    <3>1. m \in 1..Len(log)
      BY <1>17
    <3>2. CASE n = Len(log) + 1
      BY <1>17, <2>2, <3>1, <3>2
    <3>3. CASE n # Len(log) + 1
      <4>1. n \in 1..Len(log)
        BY <1>17, <3>3
      <4>2. log[m] < log[n]
        BY <1>1, <1>17, <3>1, <4>1 DEF Booked, Increasing
      <4>3. QED
        BY <1>17, <3>1, <4>1, <4>2
    <3>4. QED
      BY <3>2, <3>3
  <2>4. \A k \in 1..Len(log') : log'[k] <= latest'
    <3> TAKE k \in 1..Len(log')
    <3>1. k \in 1..Len(log) \/ k = Len(log) + 1
      BY <1>17
    <3>2. QED
      BY <1>4, <1>15, <1>17, <2>2, <3>1
  <2>5. \A n \in Names : n > latest' => dir'[n].stage = "absent"
    <3> SUFFICES ASSUME NEW n \in Names, n > name PROVE dir'[n].stage = "absent"
      BY <1>4
    <3>1. n \in Nat /\ n > latest /\ n # name
      BY <1>15, NumbersTyped
    <3>2. QED
      BY <1>1, <1>14, <3>1 DEF Booked
  <2>6. QED
    BY <2>3, <2>4, <2>5 DEF Booked
<1>19. Covered'
  BY <1>1, <1>4, <1>14 DEF Covered
<1>20. Served'
  BY <1>1, <1>4, <1>14, <1>16 DEF Served
<1>21. \A n : Logged(n) => Logged(n)'
  <2> SUFFICES ASSUME NEW n, Logged(n) PROVE Logged(n)'
    OBVIOUS
  <2>1. PICK k \in 1..Len(log) : log[k] = n
    BY DEF Logged
  <2>2. k \in 1..Len(log') /\ log'[k] = n
    BY <1>17, <2>1
  <2>3. QED
    BY <2>2 DEF Logged
<1>22. Logged(name)'
  <2>1. Len(log) + 1 \in 1..Len(log')
    BY <1>17
  <2>2. QED
    BY <1>17, <2>1 DEF Logged
<1>23. j.pc \in Building /\ j.pc \notin Before \cup Published \cup CleaningUp
  BY <1>12 DEF Before, Building, Published, CleaningUp
<1>24. Own(j)'
  <2>1. \A m \in 2..Len(list) : list[m] # name
    <3> TAKE m \in 2..Len(list)
    <3>1. m - 1 \in 1..Len(l) /\ list[m] = l[m - 1]
      BY <1>8, <1>9
    <3>2. l[m - 1] \in OnDisk
      BY <1>3, <3>1, ListOnDisk
    <3>3. QED
      BY <1>15, <3>1, <3>2 DEF OnDisk, Exists
  <2>2. BuiltAt(j.pc) = "empty" /\ j.pc \in {"code", "link"}
    BY <1>12 DEF BuiltAt
  <2>3. link'.to = name /\ latest' = name /\ current' = current
    BY <1>4
  <2>4. QED
    BY <1>4, <1>12, <1>14, <1>16, <1>22, <1>23, <2>1, <2>2, <2>3 DEF Own
<1>25. ASSUME CleanedUp' PROVE Restorable(j)'
  <2>1. i.pc \in Before \ {"idle"}
    BY <1>4 DEF Before
  <2>2. Returns(latest, 0) /\ current.to = latest /\ i.before = latest
    BY <1>1, <1>4, <1>25, <2>1 DEF Restorable
  <2>3. l # <<>> /\ Head(l) = latest /\ \A m \in 2..Len(l) : l[m] # latest
    BY <1>1, <1>3, <2>2, ListStartsAtLatest
  <2>4. prev = latest
    BY <1>6, <2>3
  <2>5. \A m \in 3..Len(list) : list[m] # prev
    <3> TAKE m \in 3..Len(list)
    <3>1. m - 1 \in 2..Len(l) /\ m \in 2..Len(list)
      BY <1>8, <1>9
    <3>2. QED
      BY <1>9, <2>3, <2>4, <3>1
  <2>6. Returns(prev, name)'
    <3>1. prev \in Names /\ prev # name /\ dir'[prev].stage = "ready"
      BY <1>14, <1>15, <2>2, <2>4 DEF Returns
    <3>2. Logged(prev)'
      BY <1>21, <2>2, <2>4 DEF Returns
    <3>3. \A k \in 1..Len(log') : log'[k] = name \/ log'[k] <= prev
      <4> TAKE k \in 1..Len(log')
      <4>1. k \in 1..Len(log) \/ k = Len(log) + 1
        BY <1>17
      <4>2. QED
        BY <1>1, <1>17, <2>4, <4>1 DEF Booked
    <3>4. \A k \in Names : k > prev /\ k # name => dir'[k].stage = "absent"
      BY <1>1, <1>14, <2>4 DEF Booked
    <3>5. QED
      BY <3>1, <3>2, <3>3, <3>4 DEF Returns
  <2>7. current' = current
    BY <1>4
  <2>8. QED
    BY <1>12, <1>23, <2>2, <2>4, <2>5, <2>6, <2>7 DEF Restorable, CleaningUp
<1>26. QED
  BY <1>12, <1>13, <1>18, <1>19, <1>20, <1>23, <1>24, <1>25, Proceeds

\* A task that works inside the release its deploy builds.
LEMMA Built ==
  ASSUME Typed, Booked, Covered, Served, NEW i \in Jobs, NEW j \in Jobs,
         i.pc \in Building, j.pc \in Building, Own(i), db \subseteq db',
         j.version = i.version, j.name = i.name, j.prev = i.prev, j.list = i.list, j.before = i.before,
         UNCHANGED <<current, log, latest>>,
         \A n \in Names : n # i.name => dir'[n] = dir[n],
         dir'[i.name].version = i.version, dir'[i.name].stage = BuiltAt(j.pc),
         BuiltAt(j.pc) \in {"updated", "ready"} => Migrations[i.version] \cap Compared \subseteq db',
         link'.to = i.name, j.pc \notin {"code", "link"} => link'.abs
  PROVE  (Booked /\ Covered /\ Served)' /\ Own(j)' /\ (Restorable(i) => Restorable(j)')
<1>1. /\ i.name \in Names /\ i.name = latest /\ Logged(i.name) /\ i.name # current.to
      /\ \A m \in 2..Len(i.list) : i.list[m] # i.name
  BY DEF Own
<1>2. \A n : Logged(n) => Logged(n)'
  BY DEF Logged
<1>3. Booked'
  <2>1. \A n \in Names : n > latest => n # i.name
    BY <1>1, NumbersTyped
  <2>2. QED
    BY <2>1 DEF Booked
<1>4. Covered'
  BY DEF Covered
<1>5. Served'
  BY <1>1 DEF Served
<1>6. j.pc \notin Before \cup Published \cup CleaningUp
  BY PointsApart
<1>7. Own(j)'
  <2>1. latest' = latest /\ current' = current
    OBVIOUS
  <2>2. QED
    BY <1>1, <1>2, <1>6, <2>1 DEF Own
<1>8. ASSUME Restorable(i) PROVE Restorable(j)'
  <2>1. i.prev = i.before /\ Returns(i.prev, i.name) /\ current.to = i.prev
        /\ \A m \in 3..Len(i.list) : i.list[m] # i.prev
    BY <1>8 DEF Restorable
  <2>2. Returns(i.prev, i.name)'
    BY <1>2, <2>1 DEF Returns
  <2>3. QED
    BY <1>6, <2>1, <2>2 DEF Restorable, CleaningUp
<1>9. QED
  BY <1>3, <1>4, <1>5, <1>7, <1>8

\* A release whose compared migration files are those of the release that is served needs no
\* update for them: the database has them already.
LEMMA UpdateCovers ==
  ASSUME Typed, Covered, Served, NEW d \in Deploys, NEW i \in Jobs, i = job[d], Own(i), Update(d)
  PROVE  Migrations[i.version] \cap Compared \subseteq db' /\ db \subseteq db'
<1>1. i.pc = "update" /\ i.pc \in Building
  BY DEF Update, At, Building
<1>2. dir[i.name].version = i.version /\ dir[i.name].stage = "built"
  BY <1>1 DEF Own, BuiltAt
<1>3. db' = IF HasNewMigrations(d) THEN db \cup Migrations[i.version] ELSE db
  BY DEF Update
<1>4. CASE HasNewMigrations(d)
  BY <1>3, <1>4
<1>5. CASE ~HasNewMigrations(d)
  <2>1. Checksum(current.to) = Checksum(i.name)
    BY <1>5 DEF HasNewMigrations
  <2>2. Checksum(current.to) = Migrations[dir[current.to].version] \cap Compared
    BY DEF Checksum, Served
  <2>3. Checksum(i.name) = Migrations[i.version] \cap Compared
    BY <1>2 DEF Checksum
  <2>4. Checksum(current.to) \subseteq db
    BY <2>2 DEF Covered, Served
  <2>5. QED
    BY <1>3, <1>5, <2>1, <2>3, <2>4
<1>6. QED
  BY <1>4, <1>5

LEMMA ReachFacts ==
  ASSUME Typed, NEW d \in Deploys, NEW n \in Names, n = job[d].name, NEW stage, Reach(d, stage)
  PROVE  /\ \A m \in Names : m # n => dir'[m] = dir[m]
         /\ dir'[n].version = dir[n].version /\ dir'[n].stage = stage
BY DEF Reach, Typed, TypeOK

LEMMA BuildingKeeps ==
  ASSUME Typed, OneJob, DeployInv, NEW d \in Deploys,
         UpdateCode(d) \/ AbsoluteLink(d) \/ UploadArtifacts(d) \/ Update(d) \/ WarmUp(d),
         UNCHANGED mishaps
  PROVE  DeployInv'
<1>1. PICK i \in Jobs :
        /\ i = job[d] /\ Own(i) /\ (CleanedUp => Restorable(i)) /\ (i.pc \in CleaningUp => CleanedUp)
        /\ Booked /\ Covered /\ Served
  BY Standing
<1>2. PICK point \in Points :
        /\ Goto(d, point) /\ i.pc \in Building /\ point \in Building
        /\ \/ UpdateCode(d) /\ i.pc = "code" /\ point = "link"
           \/ AbsoluteLink(d) /\ i.pc = "link" /\ point = "upload"
           \/ UploadArtifacts(d) /\ i.pc = "upload" /\ point = "update"
           \/ Update(d) /\ i.pc = "update" /\ point = "warmup"
           \/ WarmUp(d) /\ i.pc = "warmup" /\ point = "symlink"
  BY <1>1 DEF UpdateCode, AbsoluteLink, UploadArtifacts, Update, WarmUp, At, Points, TaskPoints, Building
<1>3. PICK j \in Jobs :
        /\ Becomes(d, j) /\ j.pc = point /\ j.version = i.version /\ j.name = i.name
        /\ j.prev = i.prev /\ j.list = i.list /\ j.before = i.before
  BY <1>1, <1>2, GotoBecomes DEF Typed
<1>4. UNCHANGED <<current, log, latest>> /\ (CleanedUp <=> CleanedUp')
  BY DEF UpdateCode, AbsoluteLink, UploadArtifacts, Update, WarmUp, files, books, CleanedUp
<1>5. /\ i.name \in Names /\ i.name = job[d].name /\ dir[i.name].version = i.version
      /\ dir[i.name].stage = BuiltAt(i.pc) /\ link.to = i.name
      /\ (i.pc \notin {"code", "link"} => link.abs)
  BY <1>1, <1>2 DEF Own
<1>6. /\ \A n \in Names : n # i.name => dir'[n] = dir[n]
      /\ dir'[i.name].version = i.version /\ dir'[i.name].stage = BuiltAt(point)
  <2>1. CASE AbsoluteLink(d) /\ i.pc = "link" /\ point = "upload"
    BY <1>5, <2>1 DEF AbsoluteLink, BuiltAt
  <2>2. CASE ~AbsoluteLink(d)
    <3>1. Reach(d, BuiltAt(point))
      BY <1>2, <2>2 DEF UpdateCode, UploadArtifacts, Update, WarmUp, BuiltAt
    <3>2. QED
      BY <1>5, <3>1, ReachFacts
  <2>3. CASE AbsoluteLink(d) /\ ~(i.pc = "link" /\ point = "upload")
    BY <1>1, <1>2, <2>3 DEF AbsoluteLink, At, UpdateCode, UploadArtifacts, Update, WarmUp
  <2>4. QED
    BY <2>1, <2>2, <2>3
<1>7. link'.to = i.name /\ (point \notin {"code", "link"} => link'.abs)
  <2>1. CASE AbsoluteLink(d)
    BY <1>5, <2>1 DEF AbsoluteLink
  <2>2. CASE ~AbsoluteLink(d)
    BY <1>2, <1>5, <2>2 DEF UpdateCode, UploadArtifacts, Update, WarmUp
  <2>3. QED
    BY <2>1, <2>2
<1>8. db \subseteq db' /\ (BuiltAt(point) \in {"updated", "ready"} => Migrations[i.version] \cap Compared \subseteq db')
  <2>1. CASE Update(d)
    BY <1>1, <2>1, UpdateCovers
  <2>2. CASE WarmUp(d) /\ i.pc = "warmup"
    <3>1. dir[i.name].stage = "updated"
      BY <1>5, <2>2 DEF BuiltAt
    <3>2. UNCHANGED db
      BY <2>2 DEF WarmUp
    <3>3. QED
      BY <1>1, <1>5, <3>1, <3>2 DEF Covered
  <2>3. CASE point \in {"link", "upload", "update"} /\ ~Update(d)
    <3>1. BuiltAt(point) \notin {"updated", "ready"}
      BY <2>3 DEF BuiltAt
    <3>2. UNCHANGED db
      BY <2>3 DEF UpdateCode, AbsoluteLink, UploadArtifacts, WarmUp
    <3>3. QED
      BY <3>1, <3>2
  <2>4. QED
    BY <1>2, <2>1, <2>2, <2>3
<1>9. (Booked /\ Covered /\ Served)' /\ Own(j)' /\ (Restorable(i) => Restorable(j)')
  BY <1>1, <1>2, <1>3, <1>4, <1>5, <1>6, <1>7, <1>8, Built
<1>10. j.pc \notin CleaningUp
  BY <1>2, <1>3, PointsApart
<1>11. QED
  BY <1>1, <1>3, <1>4, <1>9, <1>10, Proceeds

\* deploy:publish moves the very symlink that was made absolute to the release.
LEMMA SymlinkKeeps ==
  ASSUME Typed, OneJob, DeployInv, NEW d \in Deploys, Symlink(d), UNCHANGED mishaps
  PROVE  DeployInv'
<1>1. PICK i \in Jobs :
        /\ i = job[d] /\ Own(i) /\ (CleanedUp => Restorable(i)) /\ (i.pc \in CleaningUp => CleanedUp)
        /\ Booked /\ Covered /\ Served
  BY Standing
<1>2. i.pc = "symlink" /\ i.pc \in Building /\ Goto(d, "unlock") /\ "unlock" \in Points
  BY <1>1 DEF Symlink, At, Building, Points, TaskPoints
<1>3. PICK j \in Jobs :
        /\ Becomes(d, j) /\ j.pc = "unlock" /\ j.version = i.version /\ j.name = i.name
        /\ j.prev = i.prev /\ j.list = i.list /\ j.before = i.before
  BY <1>1, <1>2, GotoBecomes DEF Typed
<1>4. UNCHANGED <<dir, log, latest, db>> /\ current' = link /\ (CleanedUp <=> CleanedUp')
  BY DEF Symlink, books, CleanedUp
<1>5. /\ i.name \in Names /\ i.name = latest /\ Logged(i.name)
      /\ \A m \in 2..Len(i.list) : i.list[m] # i.name
      /\ dir[i.name].stage = "ready" /\ link.to = i.name /\ link.abs
  BY <1>1, <1>2 DEF Own, BuiltAt
<1>6. \A n : Logged(n) => Logged(n)'
  BY <1>4 DEF Logged
<1>7. (Booked /\ Covered /\ Served)'
  BY <1>1, <1>4, <1>5 DEF Booked, Covered, Served
<1>8. j.pc \in Published /\ j.pc \notin Before \cup Building \cup CleaningUp
  BY <1>3 DEF Before, Building, Published, CleaningUp
<1>9. Own(j)'
  <2>1. latest' = latest /\ current' = link
    BY <1>4
  <2>2. QED
    BY <1>3, <1>5, <1>6, <1>8, <2>1 DEF Own
<1>10. ASSUME CleanedUp' PROVE Restorable(j)'
  <2>1. i.prev = i.before /\ Returns(i.prev, i.name) /\ \A m \in 3..Len(i.list) : i.list[m] # i.prev
    BY <1>1, <1>2, <1>4, <1>10 DEF Restorable
  <2>2. Returns(i.prev, i.name)'
    BY <1>4, <1>6, <2>1 DEF Returns
  <2>3. QED
    BY <1>3, <1>8, <2>1, <2>2 DEF Restorable, CleaningUp
<1>11. QED
  BY <1>3, <1>7, <1>8, <1>9, <1>10, Proceeds

LEMMA Beyond ==
  ASSUME NEW N, NEW l \in Seq(N), NEW k \in Nat, NEW n \in ToSet(SubSeq(l, k + 1, Len(l)))
  PROVE  \E m \in k + 1..Len(l) : l[m] = n
<1> DEFINE s == SubSeq(l, k + 1, Len(l))
<1>1. PICK m \in DOMAIN s : s[m] = n
  BY DEF ToSet
<1>2. Len(l) \in Nat
  OBVIOUS
<1>3. s = [x \in 1..(1 + Len(l) - (k + 1)) |-> l[(k + 1) + x - 1]]
  BY DEF SubSeq
<1> HIDE DEF s
<1>4. m \in 1..(1 + Len(l) - (k + 1)) /\ n = l[(k + 1) + m - 1]
  BY <1>1, <1>3
<1>5. (k + 1) + m - 1 \in k + 1..Len(l)
  BY <1>2, <1>4
<1>6. QED
  BY <1>4, <1>5

\* Keeping two releases at least, deploy:cleanup spares the new one and the one before.
LEMMA PruneKeeps ==
  ASSUME Typed, OneJob, InService, DeployInv, NEW d \in Deploys, Prune(d), UNCHANGED mishaps
  PROVE  DeployInv'
<1>1. PICK i \in Jobs :
        /\ i = job[d] /\ Own(i) /\ (CleanedUp => Restorable(i)) /\ (i.pc \in CleaningUp => CleanedUp)
        /\ Booked /\ Covered /\ Served
  BY Standing
<1>2. i.pc = "prune" /\ i.pc \in Published /\ Goto(d, "restart") /\ "restart" \in Points
  BY <1>1 DEF Prune, At, Published, Points
<1>3. PICK j \in Jobs :
        /\ Becomes(d, j) /\ j.pc = "restart" /\ j.version = i.version /\ j.name = i.name
        /\ j.prev = i.prev /\ j.list = i.list /\ j.before = i.before
  BY <1>1, <1>2, GotoBecomes DEF Typed
<1>4. UNCHANGED <<current, log, latest, db>> /\ (CleanedUp <=> CleanedUp')
  BY DEF Prune, books, CleanedUp
<1>5. Keep \in Nat /\ Keep >= 2 /\ i.list \in Seq(Names) /\ Len(i.list) \in Nat
  BY NumbersTyped DEF InService
<1>6. PICK gone : gone = ToSet(SubSeq(i.list, Keep + 1, Len(i.list)))
  OBVIOUS
<1>7. \A n \in Names : dir'[n] = IF n \in gone THEN Absent ELSE dir[n]
  BY <1>1, <1>6 DEF Prune
<1>8. \A n \in gone : \E m \in Keep + 1..Len(i.list) : i.list[m] = n
  BY <1>5, <1>6, Beyond
<1>9. \A n \in gone : \E m \in 3..Len(i.list) : i.list[m] = n
  <2>1. Keep + 1..Len(i.list) \subseteq 3..Len(i.list)
    BY <1>5
  <2>2. QED
    BY <1>8, <2>1
<1>10. /\ i.name \in Names /\ i.name = latest /\ Logged(i.name) /\ current.to = i.name
       /\ \A m \in 2..Len(i.list) : i.list[m] # i.name
  BY <1>1, <1>2 DEF Own
<1>11. i.name \notin gone
  <2>1. 3..Len(i.list) \subseteq 2..Len(i.list)
    BY <1>5
  <2>2. QED
    BY <1>9, <1>10, <2>1
<1>12. Absent.stage = "absent"
  BY DEF Absent
<1>13. \A n : Logged(n) => Logged(n)'
  BY <1>4 DEF Logged
<1>14. (Booked /\ Covered /\ Served)'
  <2>1. Booked'
    BY <1>1, <1>4, <1>7, <1>12 DEF Booked
  <2>2. Covered'
    BY <1>1, <1>4, <1>7, <1>12 DEF Covered
  <2>3. Served'
    BY <1>1, <1>4, <1>7, <1>10, <1>11 DEF Served
  <2>4. QED
    BY <2>1, <2>2, <2>3
<1>15. j.pc \in Published /\ j.pc \notin Before \cup Building \cup CleaningUp
  BY <1>3 DEF Before, Building, Published, CleaningUp
<1>16. Own(j)'
  <2>1. latest' = latest /\ current' = current
    BY <1>4
  <2>2. QED
    BY <1>3, <1>10, <1>13, <1>15, <2>1 DEF Own
<1>17. ASSUME CleanedUp' PROVE Restorable(j)'
  <2>1. i.prev = i.before /\ Returns(i.prev, i.name) /\ \A m \in 3..Len(i.list) : i.list[m] # i.prev
    BY <1>1, <1>2, <1>4, <1>17 DEF Restorable
  <2>2. i.prev \notin gone
    BY <1>9, <2>1
  <2>3. Returns(i.prev, i.name)'
    BY <1>4, <1>7, <1>12, <1>13, <2>1, <2>2 DEF Returns
  <2>4. QED
    BY <1>3, <1>15, <2>1, <2>3 DEF Restorable, CleaningUp
<1>18. QED
  BY <1>3, <1>14, <1>15, <1>16, <1>17, Proceeds

LEMMA FaultIsCleaned ==
  ASSUME KilledOrFailed', NEW kind \in {"setup", "task", "late"}, Mishap(kind)
  PROVE  CleanedUp /\ CleanedUp'
<1>1. kind \in mishaps' /\ kind # "kill" /\ mishaps \subseteq mishaps'
  BY DEF Mishap
<1>2. CleanedUp'
  BY <1>1 DEF KilledOrFailed
<1>3. QED
  BY <1>1, <1>2 DEF CleanedUp

\* A clean-up that fails is outside the premise.
LEMMA CleanUpFailed ==
  ASSUME KilledOrFailed', NEW d \in Deploys, FailCleanUp(d)
  PROVE  FALSE
BY DEF FailCleanUp, Mishap, KilledOrFailed, CleanedUp

\* With one deploy every task finds what it needs: a failure is a fault.
LEMMA FailsIsFault ==
  ASSUME Typed, KilledOrFailed', NEW d \in Deploys, NEW i \in Jobs, i = job[d], Own(i), Booked, Served, Fails(d)
  PROVE  CleanedUp /\ CleanedUp' /\ i.pc \in {"setup", "lock", "release"} \cup Building \cup Published
<1>1. i.pc \in {"setup", "lock", "release"} \cup Building \cup Published
  BY DEF Fails, At, TaskPoints, Building, Published
<1>2. ~(At(d, "release") /\ Exists(latest + 1))
  <2>1. latest + 1 \in Names => dir[latest + 1].stage = "absent"
    BY NumbersTyped DEF Booked
  <2>2. QED
    BY <2>1 DEF Exists
<1>3. ~(At(d, "symlink") /\ link = NoLink)
  <2>1. SUFFICES ASSUME At(d, "symlink") PROVE link.to # 0
    BY DEF NoLink
  <2>2. i.pc \in Building
    BY <2>1 DEF At, Building
  <2>3. QED
    BY <2>2, NumbersTyped DEF Own
<1>4. ~(job[d].pc \in {"code", "upload", "update", "warmup"} /\ ~InRelease(d))
  <2>1. SUFFICES ASSUME i.pc \in {"code", "upload", "update", "warmup"} PROVE InRelease(d)
    OBVIOUS
  <2>2. i.name \in Names /\ dir[i.name].stage = BuiltAt(i.pc)
    BY <2>1 DEF Own, Building
  <2>3. BuiltAt(i.pc) # "absent"
    BY <2>1 DEF BuiltAt
  <2>4. QED
    BY <2>2, <2>3 DEF InRelease, Exists
<1>5. \E kind \in {"setup", "task", "late"} : Mishap(kind)
  BY <1>2, <1>3, <1>4 DEF Fails
<1>6. QED
  BY <1>1, <1>5, FaultIsCleaned

\* Where the clean-up starts from: the release the deploy was to replace.
LEMMA FallsBack ==
  ASSUME Typed, Booked, NEW i \in Jobs, NEW j \in Jobs, Own(i), Restorable(i),
         i.pc \in {"setup", "lock", "release"} \cup Building \cup Published,
         j.prev = i.prev, j.before = i.before, j.name = IF i.name = 0 THEN latest + 1 ELSE i.name
  PROVE  FallbackOf(j) = j.before /\ Returns(FallbackOf(j), j.name)
<1>1. CASE i.pc \in {"setup", "lock", "release"}
  <2>1. i.pc \in Before \ {"idle"}
    BY <1>1 DEF Before
  <2>2. Returns(latest, 0) /\ current.to = latest /\ i.before = latest /\ i.name = 0 /\ i.prev = 0
    BY <2>1 DEF Restorable
  <2>3. latest \in Nat /\ j.name = latest + 1 /\ j.prev = 0 /\ j.before = latest
    BY <2>2, NumbersTyped
  <2>4. FallbackOf(j) = latest
    BY <2>3 DEF FallbackOf
  <2>5. Returns(latest, latest + 1)
    BY <2>2, <2>3 DEF Returns, Booked
  <2>6. QED
    BY <2>3, <2>4, <2>5
<1>2. CASE i.pc \in Building \cup Published
  <2>1. i.prev = i.before /\ Returns(i.prev, i.name) /\ i.name \in Names
    BY <1>2 DEF Restorable, Own
  <2>2. i.name # 0 /\ i.prev # 0
    BY <2>1, NumbersTyped DEF Returns
  <2>3. j.name = i.name /\ FallbackOf(j) = i.prev
    BY <2>2 DEF FallbackOf
  <2>4. QED
    BY <2>1, <2>3
<1>3. QED
  BY <1>1, <1>2

LEMMA FailKeeps ==
  ASSUME Typed, OneJob, KilledOrFailed', DeployInv, NEW d \in Deploys, Fail(d) \/ FailUpdate(d)
  PROVE  DeployInv'
<1>1. PICK i \in Jobs :
        /\ i = job[d] /\ Own(i) /\ (CleanedUp => Restorable(i)) /\ (i.pc \in CleaningUp => CleanedUp)
        /\ Booked /\ Covered /\ Served
  BY Standing
<1>2. CleanedUp /\ CleanedUp' /\ i.pc \in {"setup", "lock", "release"} \cup Building \cup Published
  <2>1. CASE Fail(d)
    BY <1>1, <2>1, FailsIsFault DEF Fail
  <2>2. CASE FailUpdate(d)
    BY <1>1, <2>2, FaultIsCleaned DEF FailUpdate, At, Building
  <2>3. QED
    BY <2>1, <2>2
<1>3. PICK name : name = IF i.name = 0 THEN latest + 1 ELSE i.name
  OBVIOUS
<1>4. name \in 0..MaxName + 1
  BY <1>3, NumbersTyped DEF Jobs
<1>5. PICK j : j = [i EXCEPT !.pc = "repoint", !.name = name]
  OBVIOUS
<1>6. /\ j \in Jobs /\ j.pc = "repoint" /\ j.name = name /\ j.prev = i.prev /\ j.before = i.before
      /\ j.version = i.version /\ j.list = i.list
  BY <1>4, <1>5 DEF Jobs, Points
<1>7. Becomes(d, j)
  <2>1. CASE Fail(d)
    BY <1>1, <1>3, <1>5, <2>1 DEF Fail, Becomes
  <2>2. CASE FailUpdate(d)
    <3>1. i.pc = "update" /\ i.pc \in Building
      BY <1>1, <2>2 DEF FailUpdate, At, Building
    <3>2. i.name # 0
      BY <1>1, <3>1, NumbersTyped DEF Own
    <3>3. j = [i EXCEPT !.pc = "repoint"]
      BY <1>3, <1>5, <3>2 DEF Jobs
    <3>4. QED
      BY <1>1, <2>2, <3>3 DEF FailUpdate, Goto, Becomes
  <2>3. QED
    BY <2>1, <2>2
<1>8. UNCHANGED <<dir, link, current, log, latest>> /\ db \subseteq db'
  BY DEF Fail, FailUpdate, PartlyUpdated, files, books
<1>9. j.pc \in CleaningUp /\ j.pc \notin Before \cup Building \cup Published
  BY <1>6 DEF Before, Building, Published, CleaningUp
<1>10. /\ (Booked /\ Covered /\ Served)'
       /\ \A n, m : Returns(n, m) => Returns(n, m)'
  BY <1>1, <1>8, Unmoved, Zenon
<1>11. Own(j)'
  BY <1>9 DEF Own
<1>12. FallbackOf(j) = j.before /\ Returns(FallbackOf(j), j.name)
  BY <1>1, <1>2, <1>3, <1>6, FallsBack
<1>13. Returns(FallbackOf(j), j.name)'
  <2>1. PICK n : n = FallbackOf(j)
    OBVIOUS
  <2>2. n = FallbackOf(j)'
    BY <2>1 DEF FallbackOf
  <2>3. QED
    BY <1>10, <1>12, <2>1, <2>2
<1>14. Restorable(j)'
  <2>1. FallbackOf(j)' = FallbackOf(j)
    BY DEF FallbackOf
  <2>2. QED
    BY <1>6, <1>9, <1>12, <1>13, <2>1 DEF Restorable
<1>15. QED
  BY <1>2, <1>6, <1>7, <1>10, <1>11, <1>14, Proceeds

\* oro:cleanup_failed, command by command, up to the books.
LEMMA CleanUpKeeps ==
  ASSUME Typed, OneJob, DeployInv, NEW d \in Deploys, Repoint(d) \/ RemoveRelease(d) \/ DropMarks(d),
         UNCHANGED mishaps
  PROVE  DeployInv'
<1>1. PICK i \in Jobs :
        /\ i = job[d] /\ Own(i) /\ (CleanedUp => Restorable(i)) /\ (i.pc \in CleaningUp => CleanedUp)
        /\ Booked /\ Covered /\ Served
  BY Standing
<1>2. PICK point \in Points :
        /\ Goto(d, point) /\ i.pc \in CleaningUp
        /\ \/ Repoint(d) /\ i.pc = "repoint" /\ point = "remove"
           \/ RemoveRelease(d) /\ i.pc = "remove" /\ point = "unmark"
           \/ DropMarks(d) /\ i.pc = "unmark" /\ point = "forget"
  BY <1>1 DEF Repoint, RemoveRelease, DropMarks, At, Points, CleaningUp
<1>3. PICK j \in Jobs :
        /\ Becomes(d, j) /\ j.pc = point /\ j.version = i.version /\ j.name = i.name
        /\ j.prev = i.prev /\ j.list = i.list /\ j.before = i.before
  BY <1>1, <1>2, GotoBecomes DEF Typed
<1>4. CleanedUp /\ CleanedUp' /\ UNCHANGED <<log, latest, db>>
  BY <1>1, <1>2 DEF Repoint, RemoveRelease, DropMarks, books, CleanedUp
<1>5. PICK n : n = FallbackOf(i)
  OBVIOUS
<1>6. n = Fallback(d) /\ n = FallbackOf(j) /\ n = FallbackOf(j)'
  BY <1>1, <1>3, <1>5 DEF Fallback, FallbackOf
<1>7. n = i.before /\ Returns(n, i.name) /\ (i.pc # "repoint" => current.to = n)
      /\ (i.pc = "unmark" => ~Exists(i.name))
  BY <1>1, <1>2, <1>4, <1>5 DEF Restorable
<1>8. j.pc \in CleaningUp \ {"repoint"} /\ j.pc \notin Before \cup Building \cup Published
  BY <1>2, <1>3 DEF Before, Building, Published, CleaningUp
<1>9. Own(j)'
  BY <1>8 DEF Own
<1>10. \A k : Logged(k) => Logged(k)'
  BY <1>4 DEF Logged
<1>11. \A k \in Names : dir'[k] = dir[k] \/ (k = i.name /\ dir'[k] = Absent)
  <2>1. CASE RemoveRelease(d)
    BY <1>1, <2>1 DEF RemoveRelease
  <2>2. CASE ~RemoveRelease(d)
    BY <1>2, <2>2 DEF Repoint, DropMarks
  <2>3. QED
    BY <2>1, <2>2
<1>12. Absent.stage = "absent"
  BY DEF Absent
<1>13. n \in Names /\ n # i.name /\ dir[n].stage = "ready" /\ dir'[n] = dir[n]
  BY <1>7, <1>11 DEF Returns
<1>14. current'.to = n /\ current'.abs
  <2>1. CASE Repoint(d)
    <3>1. Exists(n)
      BY <1>13 DEF Exists
    <3>2. QED
      BY <1>6, <2>1, <3>1 DEF Repoint
  <2>2. CASE ~Repoint(d)
    BY <1>1, <1>2, <1>7, <2>2 DEF RemoveRelease, DropMarks, Served
  <2>3. QED
    BY <2>1, <2>2
<1>15. (Booked /\ Covered /\ Served)'
  <2>1. Booked'
    BY <1>1, <1>4, <1>11, <1>12 DEF Booked
  <2>2. Covered'
    BY <1>1, <1>4, <1>11, <1>12 DEF Covered
  <2>3. Served'
    BY <1>13, <1>14 DEF Served
  <2>4. QED
    BY <2>1, <2>2, <2>3
<1>16. Returns(n, i.name)'
  BY <1>4, <1>7, <1>10, <1>11, <1>12, <1>13 DEF Returns
<1>17. j.pc \in {"unmark", "forget"} => ~Exists(j.name)'
  <2>1. CASE RemoveRelease(d)
    <3>1. i.name \in Names => dir'[i.name] = Absent
      BY <1>1, <2>1 DEF RemoveRelease
    <3>2. QED
      BY <1>3, <1>12, <3>1 DEF Exists
  <2>2. CASE DropMarks(d)
    <3>1. i.pc = "unmark" /\ UNCHANGED dir
      BY <1>1, <2>2 DEF DropMarks, At
    <3>2. QED
      BY <1>3, <1>7, <3>1 DEF Exists
  <2>3. CASE Repoint(d) /\ ~RemoveRelease(d) /\ ~DropMarks(d)
    BY <1>2, <1>3, <2>3
  <2>4. QED
    BY <1>2, <2>1, <2>2, <2>3
<1>18. Restorable(j)'
  BY <1>3, <1>6, <1>7, <1>8, <1>14, <1>16, <1>17 DEF Restorable
<1>19. QED
  BY <1>3, <1>4, <1>9, <1>15, <1>18, Proceeds

\* The books lose the failed release: the release before it is the latest again.
LEMMA ForgetKeeps ==
  ASSUME Typed, OneJob, DeployInv, NEW d \in Deploys, Forget(d), UNCHANGED mishaps
  PROVE  DeployInv'
<1>1. PICK i \in Jobs :
        /\ i = job[d] /\ Own(i) /\ (CleanedUp => Restorable(i)) /\ (i.pc \in CleaningUp => CleanedUp)
        /\ Booked /\ Covered /\ Served
  BY Standing
<1>2. i.pc = "forget" /\ i.pc \in CleaningUp /\ Goto(d, "idle") /\ "idle" \in Points
  BY <1>1 DEF Forget, At, CleaningUp, Points
<1>3. PICK j \in Jobs : Becomes(d, j) /\ j.pc = "idle"
  BY <1>1, <1>2, GotoBecomes DEF Typed
<1>4. PICK n : n = FallbackOf(i)
  OBVIOUS
<1>5. n = Fallback(d)
  BY <1>1, <1>4 DEF Fallback, FallbackOf
<1>6. Returns(n, i.name) /\ current.to = n /\ ~Exists(i.name)
  BY <1>1, <1>2, <1>4 DEF Restorable
<1>7. UNCHANGED <<dir, link, current, lock, db>> /\ latest' = n
      /\ log' = Among(log, Names \ {i.name})
  BY <1>1, <1>5 DEF Forget, files
<1>8. Kept(log', log, Names \ {i.name}, Len(log)) /\ log' \in Seq(Names)
  BY <1>7, AmongKeeps DEF Typed, TypeOK
<1>9. \A k \in 1..Len(log') : log'[k] <= n
  <2> TAKE k \in 1..Len(log')
  <2>1. log'[k] # i.name /\ \E m \in 1..Len(log) : log'[k] = log[m]
    BY <1>8 DEF Kept
  <2>2. QED
    BY <1>6, <2>1 DEF Returns
<1>10. \A k \in Names : k > n => dir[k].stage = "absent"
  BY <1>6 DEF Returns, Exists
<1>11. Logged(n)'
  <2>1. PICK m \in 1..Len(log) : log[m] = n
    BY <1>6 DEF Returns, Logged
  <2>2. log[m] \in Names \ {i.name}
    BY <1>6, <2>1 DEF Returns
  <2>3. \E k \in 1..Len(log') : log'[k] = n
    BY <1>8, <2>1, <2>2 DEF Kept
  <2>4. QED
    BY <2>3 DEF Logged
<1>12. (Booked /\ Covered /\ Served)'
  <2>1. Booked'
    BY <1>1, <1>7, <1>8, <1>9, <1>10 DEF Booked, Kept
  <2>2. Covered' /\ Served'
    BY <1>1, <1>7 DEF Covered, Served
  <2>3. QED
    BY <2>1, <2>2
<1>13. j.pc \in Before /\ j.pc \notin Building \cup Published \cup CleaningUp
  BY <1>3 DEF Before, Building, Published, CleaningUp
<1>14. Own(j)'
  BY <1>13 DEF Own
<1>15. Returns(n, 0)'
  <2>1. n \in Names /\ n # 0 /\ dir'[n].stage = "ready"
    BY <1>6, <1>7, NumbersTyped DEF Returns
  <2>2. QED
    BY <1>7, <1>9, <1>10, <1>11, <2>1 DEF Returns
<1>16. Restorable(j)'
  <2>1. current'.to = n
    BY <1>6, <1>7
  <2>2. QED
    BY <1>3, <1>7, <1>13, <1>15, <2>1 DEF Restorable, CleaningUp
<1>17. QED
  BY <1>3, <1>12, <1>13, <1>14, <1>16, Proceeds

LEMMA KillKeeps ==
  ASSUME Typed, OneJob, DeployInv, NEW d \in Deploys, Kill(d)
  PROVE  DeployInv'
<1>1. PICK i \in Jobs :
        /\ i = job[d] /\ Own(i) /\ (CleanedUp => Restorable(i)) /\ (i.pc \in CleaningUp => CleanedUp)
        /\ Booked /\ Covered /\ Served
  BY Standing
<1>2. Goto(d, "idle") /\ "idle" \in Points /\ ~CleanedUp'
  BY DEF Kill, Mishap, Points, CleanedUp
<1>3. PICK j \in Jobs : Becomes(d, j) /\ j.pc = "idle"
  BY <1>1, <1>2, GotoBecomes DEF Typed
<1>4. UNCHANGED <<dir, link, current, log, latest>> /\ db \subseteq db'
  BY DEF Kill, PartlyUpdated, files, books
<1>5. (Booked /\ Covered /\ Served)'
  BY <1>1, <1>4 DEF Booked, Covered, Served
<1>6. j.pc \notin Building \cup Published \cup CleaningUp
  BY <1>3 DEF Building, Published, CleaningUp
<1>7. Own(j)'
  BY <1>6 DEF Own
<1>8. QED
  BY <1>2, <1>3, <1>5, <1>6, <1>7, Proceeds

LEMMA InitInService ==
  ASSUME OneJob, InService, Init
  PROVE  DeployInv
<1>1. /\ Installed \in Versions /\ Installed # NoVersion /\ NoVersion \notin Versions
      /\ MaxName \in Nat /\ 1 \in Names /\ \A n \in Names : n \in Nat /\ n >= 1
  BY RemoteAssumption DEF RemoteAssumption, InService, Names
<1>2. /\ dir[1] = [version |-> Installed, stage |-> "ready"]
      /\ \A n \in Names : n # 1 => dir[n] = Absent
  BY <1>1 DEF Init
<1>3. current = [to |-> 1, abs |-> TRUE] /\ log = <<1>> /\ latest = 1 /\ db = Migrations[Installed]
  BY <1>1 DEF Init
<1>4. Len(log) = 1 /\ log[1] = 1 /\ DOMAIN log = 1..1
  BY <1>3
<1>5. Booked
  <2>1. Increasing(log)
    BY <1>4 DEF Increasing
  <2>2. \A n \in Names : n > latest => dir[n].stage = "absent"
    BY <1>1, <1>2, <1>3 DEF Absent
  <2>3. QED
    BY <1>3, <1>4, <2>1, <2>2 DEF Booked
<1>6. Covered
  BY <1>2, <1>3 DEF Covered, Absent
<1>7. Served
  BY <1>1, <1>2, <1>3 DEF Served
<1>8. Returns(current.to, 0) /\ current.to = latest
  <2>1. Logged(1)
    BY <1>4 DEF Logged
  <2>2. \A k \in Names : k > 1 /\ k # 0 => dir[k].stage = "absent"
    BY <1>1, <1>2 DEF Absent
  <2>3. QED
    BY <1>1, <1>2, <1>3, <1>4, <2>1, <2>2 DEF Returns
<1>9. ASSUME NEW d \in Deploys PROVE Own(job[d]) /\ Restorable(job[d]) /\ job[d].pc \notin CleaningUp
  <2>1. job[d].pc = "idle"
    BY DEF Init, Idle
  <2>2. job[d].pc \notin Building \cup Published \cup CleaningUp
    BY <2>1 DEF Building, Published, CleaningUp
  <2>3. QED
    BY <1>8, <2>1, <2>2 DEF Own, Restorable, CleaningUp
<1>10. QED
  BY <1>5, <1>6, <1>7, <1>9 DEF DeployInv

LEMMA StillKeeps ==
  ASSUME DeployInv, UNCHANGED <<dir, link, current, log, latest, db, job, mishaps>>
  PROVE  DeployInv'
<1>1. (Booked /\ Covered /\ Served)'
  BY DEF DeployInv, Booked, Covered, Served
<1>2. \A n : Logged(n) => Logged(n)'
  BY DEF Logged
<1>3. \A n, m : Returns(n, m) => Returns(n, m)'
  BY <1>2 DEF Returns
<1>4. \A j : Own(j) => Own(j)'
  BY <1>2 DEF Own
<1>5. \A j : Restorable(j) => Restorable(j)'
  <2> SUFFICES ASSUME NEW j, Restorable(j) PROVE Restorable(j)'
    OBVIOUS
  <2>1. current' = current /\ latest' = latest /\ FallbackOf(j)' = FallbackOf(j)
        /\ (~Exists(j.name) => ~Exists(j.name)')
    BY DEF FallbackOf, Exists
  <2>2. \A c : c = current.to => (Returns(c, 0) => Returns(current.to, 0)')
    BY <1>3, <2>1
  <2>3. \A c : c = FallbackOf(j) => (Returns(c, j.name) => Returns(FallbackOf(j), j.name)')
    BY <1>3, <2>1
  <2>4. QED
    BY <1>3, <2>1, <2>2, <2>3 DEF Restorable
<1>6. QED
  BY <1>1, <1>4, <1>5 DEF DeployInv, CleanedUp

LEMMA NextKeepsDeploys ==
  ASSUME Typed, OneJob, InService, KilledOrFailed', DeployInv, [Next]_vars
  PROVE  DeployInv'
<1>1. CASE OperatorUnlocks \/ Rest \/ UNCHANGED vars
  BY <1>1, StillKeeps DEF OperatorUnlocks, Rest, vars, files, books
<1>2. ASSUME NEW d \in Deploys, (Begin(d) /\ UNCHANGED mishaps) \/ Step(d) \/ Kill(d)
      PROVE  DeployInv'
  <2>1. CASE Begin(d) /\ UNCHANGED mishaps
    BY <2>1, BeginKeeps
  <2>2. CASE Kill(d)
    BY <2>2, KillKeeps
  <2>3. CASE Fail(d) \/ FailUpdate(d)
    BY <2>3, FailKeeps
  <2>4. CASE Tasks(d) /\ UNCHANGED mishaps
    BY <2>4, QuietKeeps, StartReleaseKeeps, BuildingKeeps, SymlinkKeeps, PruneKeeps DEF Tasks
  <2>5. CASE CleanUp(d) /\ UNCHANGED mishaps
    BY <2>5, CleanUpKeeps, ForgetKeeps DEF CleanUp
  <2>6. QED
    BY <1>2, <2>1, <2>2, <2>3, <2>4, <2>5, CleanUpFailed DEF Step
<1>3. QED
  BY <1>1, <1>2 DEF Next

\* Mishaps only add up.
LEMMA MishapsAddUp ==
  ASSUME [Next]_vars, KilledOrFailed'
  PROVE  KilledOrFailed
<1>1. mishaps \subseteq mishaps'
  BY DEF Next, Begin, Step, Fail, Fails, FailUpdate, FailCleanUp, Kill, Mishap, OperatorUnlocks, Rest,
         vars
<1>2. QED
  BY <1>1 DEF KilledOrFailed, CleanedUp

LEMMA DeploysKeep ==
  ASSUME OneJob, InService
  PROVE  Spec => [](Typed /\ (KilledOrFailed => DeployInv))
<1>1. Init => Typed /\ (KilledOrFailed => DeployInv)
  BY InitTyped, InitInService
<1>2. Typed /\ (KilledOrFailed => DeployInv) /\ [Next]_vars => (Typed /\ (KilledOrFailed => DeployInv))'
  BY NextTyped, MishapsAddUp, NextKeepsDeploys
<1>3. QED
  BY <1>1, <1>2, PTL DEF Spec

\* As long as every failed deploy is cleaned up, current leads to a directory, whatever task
\* fails: the clean-up moves it back before it removes the release (oro:cleanup_failed).
THEOREM SiteStaysUpHolds ==
  ASSUME OneJob, InService
  PROVE  Spec => []SiteStaysUp
<1>1. (KilledOrFailed => DeployInv) => SiteStaysUp
  <2> SUFFICES ASSUME KilledOrFailed => DeployInv, CleanedUp PROVE Resolves(current)
    BY DEF SiteStaysUp
  <2>1. Served
    BY DEF KilledOrFailed, DeployInv
  <2>2. QED
    BY <2>1 DEF Served, Resolves, Exists
<1>2. QED
  BY <1>1, DeploysKeep, PTL

\* Nobody is served a release that has not been built to its end: deploy:publish runs
\* last, and a clean-up returns to a release that was served.
THEOREM FinishedReleaseServed ==
  ASSUME OneJob, InService
  PROVE  Spec => []ServesFinishedRelease
<1>1. (KilledOrFailed => DeployInv) => ServesFinishedRelease
  BY DEF ServesFinishedRelease, DeployInv, Served
<1>2. QED
  BY <1>1, DeploysKeep, PTL

\* The database has the migrations under src/ and vendor/oro of the code that is served,
\* although oro:platform:update is skipped when their checksum has not changed. Of the
\* migrations of other packages the theorem says nothing: the code loses them.
THEOREM SchemaCovered ==
  ASSUME OneJob, InService
  PROVE  Spec => []SchemaCoversServedCode
<1>1. (KilledOrFailed => DeployInv) => SchemaCoversServedCode
  BY DEF SchemaCoversServedCode, Needed, DeployInv, Served, Covered
<1>2. QED
  BY <1>1, DeploysKeep, PTL

\* After a failed deploy has cleaned up, its directory is gone and current is back at the
\* release that was served when it began (docs/deployment.md).
THEOREM FailureRestores ==
  ASSUME OneJob, InService
  PROVE  Spec => []FailureRestoresPrevious
<1>1. Typed /\ (KilledOrFailed => DeployInv) => FailureRestoresPrevious
  <2> SUFFICES ASSUME KilledOrFailed => DeployInv, CleanedUp,
                      NEW d \in Deploys, At(d, "forget")
               PROVE  ~Exists(job[d].name) /\ current.to = job[d].before
    BY DEF FailureRestoresPrevious
  <2>1. Restorable(job[d])
    BY DEF KilledOrFailed, DeployInv
  <2>2. job[d].pc \in CleaningUp \ {"repoint"}
    BY DEF At, CleaningUp
  <2>3. QED
    BY <2>1, <2>2 DEF Restorable, At
<1>2. QED
  BY <1>1, DeploysKeep, PTL
=============================================================================
