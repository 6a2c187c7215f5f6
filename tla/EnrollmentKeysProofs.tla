-------------------------- MODULE EnrollmentKeysProofs --------------------------
(***************************************************************************)
(* Proofs about the enrollment keys, for every number of commands, keys    *)
(* and enrollments and any number of cuts.                                 *)
(***************************************************************************)
EXTENDS EnrollmentKeysProperties, TLAPS

Busy(j) == j.at \notin {"idle", "wait"}

\* A ca.json to be installed in the place of another keeps the keys of its roles and its
\* renewals, and the files sign for every role.
Succeeds(out, from) ==
  /\ \A r \in Role :
       /\ out.prov[r] # None
       /\ out.prov[r].enc = None
       /\ Signs(files[r], out.prov[r].key)
       /\ from.prov[r] # None => out.prov[r].key = from.prov[r].key
  /\ out.renewals = from.renewals

\* A command works from a ca.json whose enrollment keys are still the live ones.
ReadsLive(j) ==
  Busy(j) =>
    /\ j.read # None
    /\ \A r \in Role : j.read.prov[r] # None =>
         live.prov[r] # None /\ live.prov[r].key = j.read.prov[r].key

\* A role is placed file by file and unmarked until the last of them.
PlacesInOrder(j) ==
  j.at = "place" =>
    LET prov == j.read.prov[Roles[j.role]]  c == files[Roles[j.role]] IN
    /\ Convertible(prov)
    /\ j.pw \in Pw \ {CaPw}
    /\ c.pw = None
    /\ j.file \in {2, 3} => c.pub = prov.key
    /\ j.file = 3 => c.priv = [key |-> prov.enc, pw |-> j.pw]

\* What it has materialized it may write out.
OutSucceeds(j) == j.at = "out" => j.out # None /\ Succeeds(j.out, j.read)

JobInv(j) == ReadsLive(j) /\ PlacesInOrder(j) /\ OutSucceeds(j)

\* Where ca.json has a role, the files in place are those of its key pair.
FilesMatch ==
  \A r \in Role : live.prov[r] # None =>
    /\ files[r].pub # None => files[r].pub = live.prov[r].key
    /\ files[r].priv # None => files[r].priv.key = live.prov[r].key

StagedSucceeds == staged # None => Succeeds(staged.out, staged.from)

IInv ==
  /\ TypeOK
  /\ \A p \in Proc : JobInv(job[p])
  /\ FilesMatch
  /\ StagedSucceeds
  /\ MarkerMeansComplete
  /\ RolloutKeepsSigning
  /\ TokensVerify
  /\ RolloutKeepsEnrollments

-----------------------------------------------------------------------------
LEMMA TheRoles ==
  /\ Role = {"host", "user"}
  /\ DOMAIN Roles = {1, 2} /\ Len(Roles) = 2
  /\ Roles[1] = "host" /\ Roles[2] = "user"
<1>1. DOMAIN Roles = {1, 2} /\ Len(Roles) = 2 /\ Roles[1] = "host" /\ Roles[2] = "user"
  BY DEF Roles
<1>2. QED  BY <1>1 DEF Role

LEMMA TheFiles ==
  /\ DOMAIN PlaceOrder = {1, 2, 3} /\ Len(PlaceOrder) = 3
  /\ PlaceOrder[1] = "pub" /\ PlaceOrder[2] = "priv" /\ PlaceOrder[3] = "pw"
BY DEF PlaceOrder

LEMMA Distinct ==
  /\ \A x \in Proc : x # None
  /\ \A x \in Key : x # None
  /\ \A x \in Pw : x # None
  /\ \A x \in Prov : x # None
  /\ \A x \in Sealed : x # None
  /\ \A x \in Staged : x # None
  /\ \A x \in Live : x # None
BY EnrollmentKeysAssumption DEF EnrollmentKeysAssumption

LEMMA IdleJob == Idle \in Job /\ JobInv(Idle) /\ ~ Busy(Idle)
BY TheRoles, TheFiles DEF Idle, Job, JobInv, Busy, ReadsLive, PlacesInOrder, OutSucceeds

\* What a command relies on depends on ca.json and the files alone.
LEMMA JobStays ==
  ASSUME NEW q, JobInv(job'[q]), UNCHANGED <<live, files>>
  PROVE  JobInv(job[q])'
<1>1. ReadsLive(job[q])'  BY DEF JobInv, ReadsLive, Busy
<1>2. PlacesInOrder(job[q])'  BY DEF JobInv, PlacesInOrder
<1>3. OutSucceeds(job[q])'  BY DEF JobInv, OutSucceeds, Succeeds
<1>4. QED  BY <1>1, <1>2, <1>3 DEF JobInv

\* A command takes a step that changes nothing but its own variables.
LEMMA Moves ==
  ASSUME IInv, NEW p \in Proc, NEW j \in Job, JobInv(j), Busy(j) <=> Busy(job[p]),
         Go(p, j), UNCHANGED <<live, files, staged, tokens, enrolled, cuts>>
  PROVE  IInv'
<1> USE DEF IInv, Go
<1>1. job' \in [Proc -> Job] /\ \A q \in Proc : job'[q] = IF q = p THEN j ELSE job[q]
  BY DEF TypeOK
<1>2. TypeOK'
  BY <1>1, Zenon DEF TypeOK, Busy
<1>3. \A q \in Proc : JobInv(job[q])'
  <2> SUFFICES ASSUME NEW q \in Proc PROVE JobInv(job[q])'  OBVIOUS
  <2>1. JobInv(job'[q])  BY <1>1
  <2>2. QED  BY <2>1, JobStays
<1>4. (FilesMatch /\ StagedSucceeds /\ MarkerMeansComplete)'
  BY DEF FilesMatch, StagedSucceeds, Succeeds, MarkerMeansComplete
<1>5. (RolloutKeepsSigning /\ TokensVerify /\ RolloutKeepsEnrollments)'
  BY DEF RolloutKeepsSigning, TokensVerify, RolloutKeepsEnrollments
<1>6. QED  BY <1>2, <1>3, <1>4, <1>5

\* A command ends, having written at most a staged ca.json.
LEMMA Exits ==
  ASSUME IInv, NEW p \in Proc, Exit(p), UNCHANGED <<live, files, tokens, enrolled>>,
         staged' \in Staged \union {None}, StagedSucceeds', cuts' \in 0 .. MaxCuts
  PROVE  IInv'
<1> USE DEF IInv, Exit
<1>1. job' \in [Proc -> Job] /\ \A q \in Proc : job'[q] = IF q = p THEN Idle ELSE job[q]
  BY IdleJob DEF TypeOK
<1>2. TypeOK'
  BY <1>1, IdleJob, Distinct, Zenon DEF TypeOK, Busy
<1>3. \A q \in Proc : JobInv(job[q])'
  <2> SUFFICES ASSUME NEW q \in Proc PROVE JobInv(job[q])'  OBVIOUS
  <2>1. JobInv(job'[q])  BY <1>1, IdleJob
  <2>2. QED  BY <2>1, JobStays
<1>4. (FilesMatch /\ MarkerMeansComplete)'
  BY DEF FilesMatch, MarkerMeansComplete
<1>5. (RolloutKeepsSigning /\ TokensVerify /\ RolloutKeepsEnrollments)'
  BY DEF RolloutKeepsSigning, TokensVerify, RolloutKeepsEnrollments
<1>6. QED  BY <1>2, <1>3, <1>4, <1>5

-----------------------------------------------------------------------------
\* The next role begins with no file placed.
LEMMA NextRoleKeeps ==
  ASSUME IInv, NEW p \in Proc, Busy(job[p]), NextRole(p),
         UNCHANGED <<live, files, staged, tokens, enrolled, cuts>>
  PROVE  IInv'
<1> DEFINE j == [job[p] EXCEPT !.at = "role", !.role = @ + 1, !.pw = None]
<1>1. job[p] \in Job /\ JobInv(job[p])  BY DEF IInv, TypeOK
<1>2. CASE job[p].role = Len(Roles)
  <2>1. staged' \in Staged \union {None} /\ StagedSucceeds' /\ cuts' \in 0 .. MaxCuts
    BY DEF IInv, TypeOK, StagedSucceeds, Succeeds
  <2>2. Exit(p)  BY <1>2 DEF NextRole
  <2>3. QED  BY <2>1, <2>2, Exits
<1>3. CASE job[p].role # Len(Roles)
  <2>0. job[p].role = 1  BY <1>1, <1>3, TheRoles DEF Job
  <2>1. j \in Job /\ j.at = "role" /\ j.read = job[p].read
    <3>1. j = [job[p] EXCEPT !.at = "role", !.role = 2, !.pw = None]  BY <2>0
    <3>2. QED  BY <1>1, <3>1, TheRoles DEF Job
  <2>2. JobInv(j) /\ Busy(j)
    BY <1>1, <2>1 DEF JobInv, ReadsLive, PlacesInOrder, OutSucceeds, Busy, Job
  <2>3. Go(p, j)  BY <1>3 DEF NextRole
  <2>4. QED  BY <2>1, <2>2, <2>3, Moves
<1>4. QED  BY <1>2, <1>3

LEMMA StartKeeps ==
  ASSUME IInv, NEW p \in Proc, NEW op \in {"migrate", "materialize"}, Start(p, op)
  PROVE  IInv'
<1> DEFINE j == [Idle EXCEPT !.at = "wait", !.op = op]
<1>1. j \in Job /\ j.at = "wait"  BY IdleJob DEF Job, Idle
<1>2. JobInv(j) /\ ~ Busy(j)
  BY <1>1 DEF JobInv, ReadsLive, PlacesInOrder, OutSucceeds, Busy
<1>3. ~ Busy(job[p]) /\ Go(p, j)  BY DEF Start, At, Busy
<1>4. QED  BY <1>1, <1>2, <1>3, Moves DEF Start

LEMMA LockKeeps ==
  ASSUME IInv, NEW p \in Proc, Lock(p)
  PROVE  IInv'
<1> DEFINE j == [job[p] EXCEPT !.at = IF job[p].op = "migrate" THEN "role" ELSE "merge", !.read = live]
<1> USE DEF IInv
<1>1. j \in Job /\ j.at \in {"role", "merge"} /\ j.read = live
  BY DEF TypeOK, Job
<1>2. job' \in [Proc -> Job] /\ \A q \in Proc : job'[q] = IF q = p THEN j ELSE job[q]
  BY <1>1 DEF TypeOK, Lock
<1>3. JobInv(j) /\ Busy(j)
  BY <1>1, Distinct DEF JobInv, ReadsLive, PlacesInOrder, OutSucceeds, Busy, TypeOK
<1>4. \A q \in Proc : ~ Busy(job[q])
  BY Distinct DEF Lock, TypeOK, Busy
<1>5. TypeOK'
  BY <1>2, <1>3, <1>4, Zenon DEF TypeOK, Lock, Busy
<1>6. \A q \in Proc : JobInv(job[q])'
  <2> SUFFICES ASSUME NEW q \in Proc PROVE JobInv(job[q])'  OBVIOUS
  <2>1. CASE q = p
    BY <1>1, <1>2, <1>3, <2>1 DEF Lock, JobInv, ReadsLive, PlacesInOrder, OutSucceeds, Busy
  <2>2. CASE q # p
    BY <1>2, <1>4, <2>2 DEF Lock, JobInv, ReadsLive, PlacesInOrder, OutSucceeds, Busy
  <2>3. QED  BY <2>1, <2>2
<1>7. (FilesMatch /\ StagedSucceeds /\ MarkerMeansComplete)'
  BY DEF Lock, FilesMatch, StagedSucceeds, Succeeds, MarkerMeansComplete
<1>8. (RolloutKeepsSigning /\ TokensVerify /\ RolloutKeepsEnrollments)'
  BY DEF Lock, RolloutKeepsSigning, TokensVerify, RolloutKeepsEnrollments
<1>9. QED  BY <1>5, <1>6, <1>7, <1>8

-----------------------------------------------------------------------------
LEMMA SkipKeeps == ASSUME IInv, NEW p \in Proc, Skip(p) PROVE IInv'
BY NextRoleKeeps DEF Skip, At, Busy

LEMMA CheckKeeps == ASSUME IInv, NEW p \in Proc, Check(p) PROVE IInv'
<1>1. CASE NextRole(p)  BY <1>1, NextRoleKeeps DEF Check, At, Busy
<1>2. CASE Exit(p)
  <2>1. staged' \in Staged \union {None} /\ StagedSucceeds' /\ cuts' \in 0 .. MaxCuts
    BY DEF Check, IInv, TypeOK, StagedSucceeds, Succeeds
  <2>2. QED  BY <1>2, <2>1, Exits DEF Check
<1>3. QED  BY <1>1, <1>2 DEF Check

LEMMA GiveUpKeeps == ASSUME IInv, NEW p \in Proc, GiveUp(p) PROVE IInv'
<1>1. staged' \in Staged \union {None} /\ StagedSucceeds' /\ cuts' \in 0 .. MaxCuts
  BY DEF GiveUp, IInv, TypeOK, StagedSucceeds, Succeeds
<1>2. QED  BY <1>1, Exits DEF GiveUp

LEMMA CutKeeps == ASSUME IInv, NEW p \in Proc, Cut(p) PROVE IInv'
<1>1. staged' \in Staged \union {None} /\ StagedSucceeds'
  BY DEF Cut, IInv, TypeOK, StagedSucceeds, Succeeds
<1>2. cuts' \in 0 .. MaxCuts
  BY EnrollmentKeysAssumption DEF Cut, IInv, TypeOK, EnrollmentKeysAssumption
<1>3. QED  BY <1>1, <1>2, Exits DEF Cut

LEMMA ConvertKeeps ==
  ASSUME IInv, NEW p \in Proc, NEW pw \in Pw, Convert(p, pw)
  PROVE  IInv'
<1> DEFINE j == [job[p] EXCEPT !.at = "place", !.file = 1, !.pw = pw]
<1>1. job[p] \in Job /\ JobInv(job[p]) /\ Busy(job[p])
  BY DEF IInv, TypeOK, Convert, At, Busy
<1>2. j \in Job /\ j.at = "place" /\ j.file = 1 /\ j.pw = pw
         /\ j.read = job[p].read /\ j.role = job[p].role
  BY <1>1, TheFiles DEF Job
<1>3. JobInv(j) /\ Busy(j)
  <2>1. ReadsLive(j) /\ OutSucceeds(j) /\ Busy(j)
    BY <1>1, <1>2 DEF JobInv, ReadsLive, OutSucceeds, Busy
  <2>2. files[Roles[j.role]].pw = None /\ Convertible(j.read.prov[Roles[j.role]]) /\ pw # CaPw
    BY <1>2 DEF Convert, ReadProv, AtRole
  <2>3. PlacesInOrder(j)
    BY <1>2, <2>2 DEF PlacesInOrder
  <2>4. QED  BY <2>1, <2>3 DEF JobInv
<1>4. QED  BY <1>1, <1>2, <1>3, Moves DEF Convert

LEMMA MaterializeKeeps == ASSUME IInv, NEW p \in Proc, Materialize(p) PROVE IInv'
<1> DEFINE cfg == job[p].read
           j == [job[p] EXCEPT !.at = "out", !.out = Merge(cfg)]
<1>1. job[p] \in Job /\ JobInv(job[p]) /\ Busy(job[p])
  BY DEF IInv, TypeOK, Materialize, At, Busy
<1>2. CASE Materializable(cfg)
  <2>1. cfg \in Live  BY <1>1 DEF JobInv, ReadsLive, Job
  <2>2. \A r \in Role : Expected(cfg, r) \in Key
    BY <1>2, <2>1 DEF Materializable, Expected, Signs, IInv, TypeOK, Credential, Live, Prov
  <2>3. Merge(cfg) \in Live
    BY <2>1, <2>2 DEF Merge, Live, Prov
  <2>4. Succeeds(Merge(cfg), cfg)
    <3>1. \A r \in Role : [key |-> Expected(cfg, r), enc |-> None] # None
      BY <2>2, Distinct DEF Prov
    <3>2. QED  BY <1>2, <3>1 DEF Succeeds, Merge, Materializable, Expected
  <2>5. j \in Job /\ j.at = "out" /\ j.out = Merge(cfg) /\ j.read = cfg
    BY <1>1, <2>3 DEF Job
  <2>6. JobInv(j) /\ Busy(j)
    BY <1>1, <2>3, <2>4, <2>5, Distinct DEF JobInv, ReadsLive, PlacesInOrder, OutSucceeds, Busy
  <2>7. QED  BY <1>1, <1>2, <2>5, <2>6, Moves DEF Materialize
<1>3. CASE ~ Materializable(cfg)
  <2>1. staged' \in Staged \union {None} /\ StagedSucceeds' /\ cuts' \in 0 .. MaxCuts
    BY DEF Materialize, IInv, TypeOK, StagedSucceeds, Succeeds
  <2>2. QED  BY <1>3, <2>1, Exits DEF Materialize
<1>4. QED  BY <1>2, <1>3

LEMMA WriteOutKeeps == ASSUME IInv, NEW p \in Proc, WriteOut(p) PROVE IInv'
<1>1. job[p] \in Job /\ JobInv(job[p]) /\ At(p, "out")
  BY DEF IInv, TypeOK, WriteOut
<1>2. job[p].read \in Live /\ job[p].out \in Live /\ Succeeds(job[p].out, job[p].read)
  BY <1>1 DEF JobInv, ReadsLive, OutSucceeds, Busy, At, Job
<1>3. staged' \in Staged \union {None} /\ StagedSucceeds'
  BY <1>2 DEF WriteOut, Staged, StagedSucceeds, Succeeds
<1>4. cuts' \in 0 .. MaxCuts  BY DEF WriteOut, IInv, TypeOK
<1>5. QED  BY <1>3, <1>4, Exits DEF WriteOut

-----------------------------------------------------------------------------
\* Files that sign for a key are never touched: what signs keeps signing.
LEMMA SigningStays ==
  ASSUME NEW out, NEW from, Succeeds(out, from),
         \A r \in Role : files[r].pw # None => files'[r] = files[r]
  PROVE  Succeeds(out, from)'
BY DEF Succeeds, Signs

LEMMA PlaceKeeps == ASSUME IInv, NEW p \in Proc, Place(p) PROVE IInv'
<1> DEFINE role == AtRole(p)
           c == files[role]
           prov == ReadProv(p)
           n == job[p].file
           d == With(c, PlaceOrder[n], Converted(p))
           j == IF n = 3 THEN [job[p] EXCEPT !.at = "check"] ELSE [job[p] EXCEPT !.file = @ + 1]
<1>1. job[p] \in Job /\ JobInv(job[p]) /\ Busy(job[p]) /\ job[p].at = "place"
  BY DEF IInv, TypeOK, Place, At, Busy
<1>2. role \in Role /\ n \in {1, 2, 3}
  BY <1>1, TheRoles, TheFiles DEF Job, AtRole
<1>3. /\ Convertible(prov) /\ job[p].pw \in Pw \ {CaPw} /\ c.pw = None
      /\ n \in {2, 3} => c.pub = prov.key
      /\ n = 3 => c.priv = [key |-> prov.enc, pw |-> job[p].pw]
  BY <1>1 DEF JobInv, PlacesInOrder, ReadProv, AtRole
<1>4. /\ live.prov[role] # None /\ live.prov[role].key = prov.key
      /\ prov # None /\ prov \in Prov /\ prov.enc = prov.key /\ prov.key \in Key
  BY <1>1, <1>2, <1>3, Distinct DEF JobInv, ReadsLive, ReadProv, Convertible, Job, Live, Prov
<1>5. c \in Credential  BY <1>2 DEF IInv, TypeOK
<1>6. /\ n = 1 => d.pub = prov.key /\ d.priv = c.priv /\ d.pw = None
      /\ n = 2 => d.pub = prov.key /\ d.priv = [key |-> prov.enc, pw |-> job[p].pw] /\ d.pw = None
      /\ n = 3 => d.pub = prov.key /\ d.priv = [key |-> prov.enc, pw |-> job[p].pw] /\ d.pw = job[p].pw
      /\ d \in Credential
  BY <1>2, <1>3, <1>4, <1>5, TheFiles DEF With, Converted, Credential, Sealed
<1>7. files' \in [Role -> Credential] /\ \A r \in Role : files'[r] = IF r = role THEN d ELSE files[r]
  BY <1>2, <1>6 DEF Place, IInv, TypeOK
<1>8. \A r \in Role : files[r].pw # None => files'[r] = files[r]
  BY <1>3, <1>7
<1>9. UNCHANGED <<live, staged, tokens, enrolled, cuts, holder>>
  BY DEF Place, Go
<1>10. /\ j \in Job /\ Busy(j) /\ j.read = job[p].read /\ j.role = job[p].role /\ j.pw = job[p].pw
       /\ n = 3 => j.at = "check"
       /\ n # 3 => j.at = "place" /\ j.file = n + 1
  <2>1. CASE n = 1
    <3>1. j = [job[p] EXCEPT !.file = 2]  BY <2>1
    <3>2. QED  BY <1>1, <2>1, <3>1, TheFiles DEF Job, Busy
  <2>2. CASE n = 2
    <3>1. j = [job[p] EXCEPT !.file = 3]  BY <2>2
    <3>2. QED  BY <1>1, <2>2, <3>1, TheFiles DEF Job, Busy
  <2>3. CASE n = 3  BY <1>1, <2>3, TheFiles DEF Job, Busy
  <2>4. QED  BY <1>2, <2>1, <2>2, <2>3
<1>11. job' \in [Proc -> Job] /\ \A q \in Proc : job'[q] = IF q = p THEN j ELSE job[q]
  BY <1>10, TheFiles DEF Place, Go, IInv, TypeOK
<1>12. TypeOK'
  BY <1>1, <1>7, <1>9, <1>10, <1>11, Zenon DEF IInv, TypeOK, Busy
<1>13. \A q \in Proc : JobInv(job[q])'
  <2> SUFFICES ASSUME NEW q \in Proc PROVE JobInv(job[q])'  OBVIOUS
  <2>1. CASE q = p
    <3>0. job'[q] = j  BY <1>11, <2>1
    <3> HIDE DEF j, d, n
    <3>1. ReadsLive(job[q])'
      <4>1. ReadsLive(job[p])  BY <1>1 DEF JobInv
      <4>2. live' = live /\ job'[q].read = job[p].read  BY <1>9, <1>10, <3>0
      <4>3. QED  BY <1>1, <4>1, <4>2 DEF ReadsLive
    <3>2. PlacesInOrder(job[q])'
      <4>1. j.read.prov[Roles[j.role]] = prov /\ Roles[j.role] = role
        BY <1>10 DEF ReadProv, AtRole
      <4>2. files'[role] = d  BY <1>2, <1>7
      <4>3. j.at = "place" => n \in {1, 2} /\ j.file = n + 1
        BY <1>2, <1>10
      <4>4. j.at = "place" =>
              /\ Convertible(prov) /\ j.pw \in Pw \ {CaPw} /\ d.pw = None
              /\ j.file \in {2, 3} => d.pub = prov.key
              /\ j.file = 3 => d.priv = [key |-> prov.enc, pw |-> j.pw]
        BY <1>3, <1>6, <1>10, <4>3
      <4>5. QED  BY <3>0, <4>1, <4>2, <4>4 DEF PlacesInOrder
    <3>3. OutSucceeds(job[q])'
      BY <1>2, <1>10, <1>11, <2>1 DEF OutSucceeds
    <3>4. QED  BY <3>1, <3>2, <3>3 DEF JobInv
  <2>2. CASE q # p
    <3>1. ~ Busy(job[q])  BY <1>1, <2>2 DEF IInv, TypeOK, Busy
    <3>2. QED
      BY <1>11, <2>2, <3>1 DEF JobInv, ReadsLive, PlacesInOrder, OutSucceeds, Busy
  <2>3. QED  BY <2>1, <2>2
<1>14. FilesMatch'
  BY <1>2, <1>3, <1>4, <1>6, <1>7, <1>9 DEF IInv, FilesMatch
<1>15. StagedSucceeds'
  BY <1>8, <1>9, SigningStays DEF IInv, StagedSucceeds
<1>16. MarkerMeansComplete'
  BY <1>2, <1>4, <1>6, <1>7 DEF IInv, MarkerMeansComplete
<1>17. RolloutKeepsSigning'
  BY <1>8, <1>9 DEF IInv, RolloutKeepsSigning, Signs
<1>18. (TokensVerify /\ RolloutKeepsEnrollments)'
  BY <1>9 DEF IInv, TokensVerify, RolloutKeepsEnrollments
<1>19. QED  BY <1>12, <1>13, <1>14, <1>15, <1>16, <1>17, <1>18 DEF IInv

-----------------------------------------------------------------------------
\* Approvals and revocations change the renewals of ca.json alone.
LEMMA RenewalsKeep ==
  ASSUME IInv, NEW renewals \in SUBSET Enrollment,
         live' = [live EXCEPT !.renewals = renewals], enrolled' = renewals,
         tokens' \subseteq [role : Role, key : Key],
         \A t \in tokens' : live.prov[t.role] # None /\ live.prov[t.role].key = t.key,
         UNCHANGED <<files, staged, commands, cuts>>
  PROVE  IInv'
<1>1. live' \in Live /\ live'.prov = live.prov /\ live'.renewals = renewals
  BY DEF IInv, TypeOK, Live
<1>2. UNCHANGED <<files, staged, holder, job, cuts>>  BY DEF commands
<1>3. TypeOK'  BY <1>1, <1>2, Zenon DEF IInv, TypeOK
<1>4. \A q \in Proc : JobInv(job[q])'
  <2> SUFFICES ASSUME NEW q \in Proc PROVE JobInv(job[q])'  OBVIOUS
  <2>1. JobInv(job[q])  BY DEF IInv
  <2>2. ReadsLive(job[q])'  BY <1>1, <1>2, <2>1 DEF JobInv, ReadsLive, Busy
  <2>3. PlacesInOrder(job[q])' /\ OutSucceeds(job[q])'
    BY <1>2, <2>1 DEF JobInv, PlacesInOrder, OutSucceeds, Succeeds
  <2>4. QED  BY <2>2, <2>3 DEF JobInv
<1>5. (FilesMatch /\ StagedSucceeds /\ MarkerMeansComplete)'
  BY <1>1, <1>2 DEF IInv, FilesMatch, StagedSucceeds, Succeeds, MarkerMeansComplete
<1>6. (RolloutKeepsSigning /\ TokensVerify /\ RolloutKeepsEnrollments)'
  BY <1>1, <1>2 DEF IInv, RolloutKeepsSigning, TokensVerify, RolloutKeepsEnrollments
<1>7. QED  BY <1>3, <1>4, <1>5, <1>6 DEF IInv

LEMMA ApproveKeeps == ASSUME IInv, NEW x \in Enrollment, Approve(x) PROVE IInv'
<1> DEFINE r == RoleOf[x]
           t == [role |-> r, key |-> files[r].priv.key]
<1>1. r \in Role  BY EnrollmentKeysAssumption DEF EnrollmentKeysAssumption
<1>2. files[r].priv \in Sealed /\ live.prov[r] # None /\ live.prov[r].key = files[r].priv.key
  BY <1>1, Distinct DEF Approve, Credentialed, IInv, TypeOK, FilesMatch, Credential
<1>3. t \in [role : Role, key : Key]  BY <1>1, <1>2 DEF Sealed
<1>4. live.renewals = enrolled /\ enrolled \subseteq Enrollment
  BY DEF IInv, TypeOK, RolloutKeepsEnrollments
<1>5. tokens' = tokens \union {t} /\ enrolled' = live.renewals \union {x}
  BY <1>4 DEF Approve
<1>6. tokens' \subseteq [role : Role, key : Key]
  BY <1>3, <1>5 DEF IInv, TypeOK
<1>7. \A s \in tokens' : live.prov[s.role] # None /\ live.prov[s.role].key = s.key
  BY <1>2, <1>5 DEF IInv, TokensVerify
<1>8. QED  BY <1>4, <1>5, <1>6, <1>7, RenewalsKeep DEF Approve

LEMMA RevokeKeeps == ASSUME IInv, NEW x \in Enrollment, Revoke(x) PROVE IInv'
<1>1. live.renewals = enrolled /\ enrolled \subseteq Enrollment
  BY DEF IInv, TypeOK, RolloutKeepsEnrollments
<1>2. tokens' \subseteq [role : Role, key : Key]
         /\ \A s \in tokens' : live.prov[s.role] # None /\ live.prov[s.role].key = s.key
  BY DEF Revoke, IInv, TypeOK, TokensVerify
<1>3. QED  BY <1>1, <1>2, RenewalsKeep DEF Revoke

LEMMA TokenEndsKeeps == ASSUME IInv, NEW t \in tokens, TokenEnds(t) PROVE IInv'
<1>1. live' = [live EXCEPT !.renewals = live.renewals]
  BY DEF TokenEnds, IInv, TypeOK, Live
<1>2. live.renewals = enrolled /\ enrolled \subseteq Enrollment
  BY DEF IInv, TypeOK, RolloutKeepsEnrollments
<1>3. tokens' \subseteq [role : Role, key : Key]
         /\ \A s \in tokens' : live.prov[s.role] # None /\ live.prov[s.role].key = s.key
  BY DEF TokenEnds, IInv, TypeOK, TokensVerify
<1>4. QED  BY <1>1, <1>2, <1>3, RenewalsKeep DEF TokenEnds

LEMMA BootstrapKeeps ==
  ASSUME IInv, NEW r \in Role, NEW key \in Key, NEW pw \in Pw, Bootstrap(r, key, pw)
  PROVE  IInv'
<1> DEFINE c == [pub |-> key, priv |-> [key |-> key, pw |-> pw], pw |-> pw]
<1>1. c \in Credential  BY DEF Credential, Sealed
<1>2. files' \in [Role -> Credential] /\ \A s \in Role : files'[s] = IF s = r THEN c ELSE files[s]
  BY <1>1 DEF Bootstrap, IInv, TypeOK
<1>3. UNCHANGED <<live, staged, holder, job, tokens, enrolled, cuts>>
  BY DEF Bootstrap, commands
<1>4. \A s \in Role : files[s].pw # None => files'[s] = files[s]
  BY <1>2 DEF Bootstrap, NoCredential
<1>5. TypeOK'  BY <1>2, <1>3, Zenon DEF IInv, TypeOK
<1>6. \A q \in Proc : JobInv(job[q])'
  <2> SUFFICES ASSUME NEW q \in Proc PROVE JobInv(job[q])'  OBVIOUS
  <2>1. job[q] \in Job /\ JobInv(job[q])  BY DEF IInv, TypeOK
  <2>2. ReadsLive(job[q])'  BY <1>3, <2>1 DEF JobInv, ReadsLive, Busy
  <2>3. job[q].at = "place" => Roles[job[q].role] \in Role \ {r}
    BY <2>1, TheRoles, Distinct
       DEF JobInv, ReadsLive, PlacesInOrder, Convertible, Busy, Bootstrap, Job
  <2>4. PlacesInOrder(job[q])'  BY <1>2, <1>3, <2>1, <2>3 DEF JobInv, PlacesInOrder
  <2>5. OutSucceeds(job[q])'
    BY <1>3, <1>4, <2>1, SigningStays DEF JobInv, OutSucceeds
  <2>6. QED  BY <2>2, <2>4, <2>5 DEF JobInv
<1>7. FilesMatch'  BY <1>2, <1>3 DEF Bootstrap, IInv, FilesMatch
<1>8. StagedSucceeds'  BY <1>3, <1>4, SigningStays DEF IInv, StagedSucceeds
<1>9. MarkerMeansComplete'  BY <1>2 DEF IInv, MarkerMeansComplete
<1>10. (RolloutKeepsSigning /\ TokensVerify /\ RolloutKeepsEnrollments)'
  BY <1>3, <1>4 DEF IInv, RolloutKeepsSigning, TokensVerify, RolloutKeepsEnrollments, Signs
<1>11. QED  BY <1>5, <1>6, <1>7, <1>8, <1>9, <1>10 DEF IInv

LEMMA RolloutKeeps == ASSUME IInv, Rollout PROVE IInv'
<1>1. staged \in Staged /\ Succeeds(staged.out, staged.from)
  BY DEF IInv, TypeOK, StagedSucceeds, Rollout
<1>2. UNCHANGED <<files, holder, job, tokens, enrolled, cuts>> /\ staged' = None
  BY DEF Rollout, commands
<1>3. /\ live' \in Live /\ live'.renewals = live.renewals
      /\ \A r \in Role : live.prov[r] # None => live'.prov[r] # None /\ live'.prov[r].key = live.prov[r].key
      /\ \A r \in Role : live'.prov[r] = live.prov[r] \/ Signs(files[r], live'.prov[r].key)
  BY <1>1 DEF Rollout, Succeeds, Staged, IInv, TypeOK
<1>4. TypeOK'  BY <1>2, <1>3, Zenon DEF IInv, TypeOK
<1>5. \A q \in Proc : JobInv(job[q])'
  <2> SUFFICES ASSUME NEW q \in Proc PROVE JobInv(job[q])'  OBVIOUS
  <2>1. JobInv(job[q])  BY DEF IInv
  <2>2. ReadsLive(job[q])'  BY <1>2, <1>3, <2>1 DEF JobInv, ReadsLive, Busy
  <2>3. PlacesInOrder(job[q])' /\ OutSucceeds(job[q])'
    BY <1>2, <2>1 DEF JobInv, PlacesInOrder, OutSucceeds, Succeeds
  <2>4. QED  BY <2>2, <2>3 DEF JobInv
<1>6. FilesMatch'
  <2> SUFFICES ASSUME NEW r \in Role, live'.prov[r] # None
               PROVE  /\ files[r].pub # None => files[r].pub = live'.prov[r].key
                      /\ files[r].priv # None => files[r].priv.key = live'.prov[r].key
    BY <1>2 DEF FilesMatch
  <2>1. CASE live'.prov[r] = live.prov[r]  BY <2>1 DEF IInv, FilesMatch
  <2>2. CASE Signs(files[r], live'.prov[r].key)  BY <2>2 DEF Signs
  <2>3. QED  BY <1>3, <2>1, <2>2
<1>7. (StagedSucceeds /\ MarkerMeansComplete)'
  BY <1>2 DEF IInv, StagedSucceeds, MarkerMeansComplete
<1>8. RolloutKeepsSigning'  BY <1>2, <1>3 DEF IInv, RolloutKeepsSigning, Signs
<1>9. TokensVerify'  BY <1>2, <1>3 DEF IInv, TypeOK, TokensVerify
<1>10. RolloutKeepsEnrollments'  BY <1>2, <1>3 DEF IInv, RolloutKeepsEnrollments
<1>11. QED  BY <1>4, <1>5, <1>6, <1>7, <1>8, <1>9, <1>10 DEF IInv

-----------------------------------------------------------------------------
LEMMA Initially == Init => IInv
<1> SUFFICES ASSUME Init PROVE IInv  OBVIOUS
<1>1. /\ live.prov \in FirstLive /\ live.renewals = {} /\ live \in Live
      /\ \A r \in Role : files[r] = NoCredential
      /\ \A p \in Proc : job[p] = Idle
  BY EnrollmentKeysAssumption DEF Init, Live, EnrollmentKeysAssumption
<1>2. TypeOK
  BY <1>1, IdleJob, Distinct, EnrollmentKeysAssumption
     DEF Init, TypeOK, Credential, NoCredential, Busy, EnrollmentKeysAssumption
<1>3. \A p \in Proc : JobInv(job[p])  BY <1>1, IdleJob
<1>4. FilesMatch /\ StagedSucceeds /\ MarkerMeansComplete
  BY <1>1 DEF Init, FilesMatch, StagedSucceeds, MarkerMeansComplete, NoCredential
<1>5. RolloutKeepsSigning
  BY <1>1, EnrollmentKeysAssumption DEF RolloutKeepsSigning, EnrollmentKeysAssumption
<1>6. TokensVerify /\ RolloutKeepsEnrollments
  BY <1>1 DEF Init, TokensVerify, RolloutKeepsEnrollments
<1>7. QED  BY <1>2, <1>3, <1>4, <1>5, <1>6 DEF IInv

\* The invariant is inductive: every step of every command and operator keeps it.
THEOREM Inductive == IInv /\ [Next]_vars => IInv'
<1> SUFFICES ASSUME IInv, [Next]_vars PROVE IInv'  OBVIOUS
<1>1. CASE UNCHANGED vars
  BY <1>1 DEF vars, commands, IInv, TypeOK, JobInv, ReadsLive, PlacesInOrder, OutSucceeds, Succeeds, Busy,
     FilesMatch, StagedSucceeds, MarkerMeansComplete, RolloutKeepsSigning, TokensVerify,
     RolloutKeepsEnrollments
<1>2. ASSUME NEW p \in Proc, Step(p) PROVE IInv'
  BY <1>2, SkipKeeps, PlaceKeeps, CheckKeeps, GiveUpKeeps, ConvertKeeps, MaterializeKeeps,
     WriteOutKeeps DEF Step
<1>3. QED
  BY <1>1, <1>2, LockKeeps, CutKeeps, StartKeeps, ApproveKeeps, RevokeKeeps, TokenEndsKeeps,
     BootstrapKeeps, RolloutKeeps DEF Next

THEOREM Invariance == Spec => []IInv
BY Initially, Inductive, PTL DEF Spec

\* migrate and materialize exclude each other by the CA lock, and every store keeps its form.
THEOREM TypeCorrect == Spec => []TypeOK
BY Invariance, PTL DEF IInv

\* A password never stands beside a key pair that it does not open, wherever any number of
\* migrations is cut.
THEOREM MarkerAlwaysComplete == Spec => []MarkerMeansComplete
BY Invariance, PTL DEF IInv

\* Installing a materialized ca.json never takes away the only key that can sign.
THEOREM SigningAlwaysKept == Spec => []RolloutKeepsSigning
BY Invariance, PTL DEF IInv

\* Tokens signed before, between and after migration and rollout all verify.
THEOREM TokensAlwaysVerify == Spec => []TokensVerify
BY Invariance, PTL DEF IInv

\* No rollout revives or drops a renewal provisioner.
THEOREM EnrollmentsAlwaysKept == Spec => []RolloutKeepsEnrollments
BY Invariance, PTL DEF IInv
=============================================================================
