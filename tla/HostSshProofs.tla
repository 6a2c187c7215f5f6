----------------------------- MODULE HostSshProofs -----------------------------
(***************************************************************************)
(* Proofs about OpenSSH on a managed host, for any number of overlapping   *)
(* runs, any policies and ledgers, any paths and any number of faults.     *)
(***************************************************************************)
EXTENDS HostSshProperties, TLAPS, WellFoundedInduction

KeysOf(c) == IF ValidKrl(c) THEN c.keys ELSE {}

\* What an apply of p has to bring about where before is installed.
Compiled(p, before) == [f \in Path |->
  IF f \in Krl /\ Rendered(p)[f] # Absent /\ ValidKrl(before[f])
  THEN [keys |-> before[f].keys \union Rendered(p)[f].keys]
  ELSE Rendered(p)[f]]

Applying == {"write", "validate", "restore", "rereload"}

\* A run that applies, now or after its certificate, has loaded a policy.
HasLoaded ==
  \A r \in Run : 
     \/ pc[r] \in Applying \union {"await"}
     \/ pc[r] # "idle" /\ op[r] = "enroll"
     => seen[r] \in Policies

KrlContent == KeyList \union {Absent, Damaged}

KrlsTyped == \A k \in Krl : files[k] \in KrlContent /\ previous[k] \in KrlContent

\* Keys that completed applies have distributed are in place, and would be again
\* after a rollback.
Kept ==
  \A k \in Krl :
    /\ distributed[k] \subseteq KeysOf(files[k])
    /\ applyLock # None => distributed[k] \subseteq KeysOf(previous[k])

\* How far the holder of the lock has come with its files.
Progress(r) ==
  /\ want = Compiled(seen[r], previous)
  /\ pc[r] = "write" =>
       /\ left \subseteq Changed
       /\ left # {}
       /\ \A f \in Path : files[f] = IF f \in left THEN previous[f] ELSE want[f]
  /\ pc[r] = "validate" => files = want
  /\ pc[r] = "restore" =>
       /\ left # {}
       /\ \A f \in Path : /\ files[f] \in {previous[f], want[f]}
                          /\ f \notin left => files[f] = previous[f]
  /\ pc[r] = "rereload" => files = previous

InProgress == applyLock # None => Progress(applyLock)

\* fs are the files of policy p, the KRLs with what they had before.
Matches(fs, p) ==
  /\ \A f \in Path \ Krl : fs[f] = Rendered(p)[f]
  /\ \A k \in Krl : IF Rendered(p)[k] = Absent THEN fs[k] = Absent
                    ELSE ValidKrl(fs[k]) /\ Rendered(p)[k].keys \subseteq fs[k].keys

OnePolicy == ~mixed => Matches(IF applyLock = None THEN files ELSE previous, applied)

\* What is installed is read by sshd, or a run will see to it.
ConfRead ==
  \/ sshd.conf = files["sshdConf"]
  \/ applyLock # None /\ ReloadServer(seen[applyLock], previous)

CertRead == sshd.cert = cert \/ \E r \in Run : pc[r] = "load"

SshdInv == ~stale => ConfRead /\ CertRead

IInv ==
  /\ TypeOK
  /\ HasLoaded
  /\ KrlsTyped
  /\ Kept
  /\ InProgress
  /\ OnePolicy
  /\ SshdInv

-----------------------------------------------------------------------------
LEMMA TheTypes ==
  /\ {"userKrl", "sshdConf"} \subseteq Path
  /\ "sshdConf" \in Path \ Krl /\ Krl \subseteq Path
  /\ FirstPolicies \subseteq Policies /\ Policies \subseteq Policy /\ NoRole \in Policy
  /\ KrlContent \subseteq Content /\ NoFiles \in [Path -> Content]
  /\ Absent # Damaged /\ \A c \in KeyList : c # Absent /\ c # Damaged
BY HostSshAssumption DEF HostSshAssumption, Path, Krl, Policy, NoRole, Role, KrlContent, Content, NoFiles

LEMMA RenderedType ==
  ASSUME NEW p \in Policy
  PROVE  /\ Rendered(p) \in [Path -> Content]
         /\ \A k \in Krl : Rendered(p)[k] \in KeyList \union {Absent}
         /\ "server" \notin p.role => Rendered(p)["sshdConf"] = Absent
<1>1. \A k \in Krl : p.revoked \cap KeysFor(k) \in SUBSET (UserKey \union HostKey)
  BY DEF Policy
<1>2. \A f \in Path : Rendered(p)[f] \in Content /\ (f \in Krl => Rendered(p)[f] \in KeyList \union {Absent})
  BY <1>1 DEF Rendered, Content, KeyList, Policy
<1>3. "server" \notin p.role => "sshdConf" \notin PathsOf(p.role)
  BY DEF PathsOf, ClientPaths
<1>4. QED  BY <1>2, <1>3, TheTypes DEF Rendered

LEMMA CompiledType ==
  ASSUME NEW p \in Policy, NEW before \in [Path -> Content], \A k \in Krl : before[k] \in KrlContent
  PROVE  /\ Compiled(p, before) \in [Path -> Content]
         /\ \A k \in Krl : /\ Compiled(p, before)[k] \in KeyList \union {Absent}
                           /\ Compiled(p, before)[k] # Absent =>
                                KeysOf(before[k]) \subseteq KeysOf(Compiled(p, before)[k])
         /\ Compiled(p, before)["sshdConf"] = Rendered(p)["sshdConf"]
         /\ Matches(Compiled(p, before), p)
<1> DEFINE C == Compiled(p, before)
<1>1. \A k \in Krl : before[k] \in KrlContent /\ Rendered(p)[k] \in KeyList \union {Absent}
  BY RenderedType
<1>0. \A a, b \in KeyList : LET c == [keys |-> a.keys \union b.keys] IN
         c \in KeyList /\ c.keys = a.keys \union b.keys
  BY DEF KeyList
<1>2. \A k \in Krl : Rendered(p)[k] # Absent /\ ValidKrl(before[k]) =>
         /\ before[k] \in KeyList /\ Rendered(p)[k] \in KeyList
         /\ C[k] = [keys |-> before[k].keys \union Rendered(p)[k].keys]
         /\ C[k] \in KeyList
         /\ C[k].keys = before[k].keys \union Rendered(p)[k].keys
  BY <1>0, <1>1, TheTypes DEF Compiled, ValidKrl, KrlContent
<1>3. \A f \in Path : ~ (f \in Krl /\ Rendered(p)[f] # Absent /\ ValidKrl(before[f])) => C[f] = Rendered(p)[f]
  BY DEF Compiled
<1>4. C \in [Path -> Content]
  <2>1. \A f \in Path : C[f] \in Content
    BY <1>2, <1>3, RenderedType, TheTypes DEF Content
  <2>2. QED  BY <2>1 DEF Compiled
<1>5. \A k \in Krl : C[k] \in KeyList \union {Absent}
  BY <1>1, <1>2, <1>3, TheTypes
<1>6. \A k \in Krl : C[k] # Absent => KeysOf(before[k]) \subseteq KeysOf(C[k])
  <2> SUFFICES ASSUME NEW k \in Krl, C[k] # Absent PROVE KeysOf(before[k]) \subseteq KeysOf(C[k])
    OBVIOUS
  <2>1. CASE ValidKrl(before[k]) /\ Rendered(p)[k] # Absent
    <3>1. ValidKrl(C[k])  BY <1>2, <2>1, TheTypes DEF ValidKrl
    <3>2. QED  BY <1>2, <2>1, <3>1 DEF KeysOf
  <2>2. CASE ~ ValidKrl(before[k])  BY <2>2 DEF KeysOf
  <2>3. CASE Rendered(p)[k] = Absent  BY <1>3, <2>3, TheTypes
  <2>4. QED  BY <2>1, <2>2, <2>3
<1>7. C["sshdConf"] = Rendered(p)["sshdConf"]
  BY <1>3, TheTypes
<1>8. Matches(C, p)
  <2>1. \A f \in Path \ Krl : C[f] = Rendered(p)[f]  BY <1>3
  <2>2. ASSUME NEW k \in Krl
        PROVE  IF Rendered(p)[k] = Absent THEN C[k] = Absent
               ELSE ValidKrl(C[k]) /\ Rendered(p)[k].keys \subseteq C[k].keys
    <3>1. CASE Rendered(p)[k] = Absent  BY <3>1, <1>3, TheTypes
    <3>2. CASE Rendered(p)[k] # Absent /\ ValidKrl(before[k])
      <4>1. ValidKrl(C[k])  BY <3>2, <1>2, TheTypes DEF ValidKrl
      <4>2. QED  BY <3>2, <4>1, <1>2
    <3>3. CASE Rendered(p)[k] # Absent /\ ~ ValidKrl(before[k])
      BY <3>3, <1>1, <1>3, TheTypes DEF ValidKrl
    <3>4. QED  BY <3>1, <3>2, <3>3
  <2>3. QED  BY <2>1, <2>2 DEF Matches
<1>9. QED  BY <1>4, <1>5, <1>6, <1>7, <1>8

\* Nothing that an apply without a reload does touches the fragment.
LEMMA NoReloadNoFragment ==
  ASSUME NEW p \in Policy, NEW before \in [Path -> Content], \A k \in Krl : before[k] \in KrlContent,
         ~ ReloadServer(p, before)
  PROVE  Compiled(p, before)["sshdConf"] = before["sshdConf"]
BY CompiledType, RenderedType DEF ReloadServer

-----------------------------------------------------------------------------
LEMMA Initially == Init => IInv
<1> SUFFICES ASSUME Init PROVE IInv  OBVIOUS
<1>1. policy \in Policies /\ NoFiles \in [Path -> Content]
  BY TheTypes DEF Init
<1>2. TypeOK
  <2>1. Life \in Nat /\ MaxFaults \in Nat /\ MaxChanges \in Nat
    BY HostSshAssumption DEF HostSshAssumption
  <2>2. sshd \in Sshd /\ cert \in 0 .. Life  BY <2>1 DEF Init, Sshd, Content
  <2>3. faults \in 0 .. MaxFaults /\ changes \in 0 .. MaxChanges  BY <2>1 DEF Init
  <2>4. files \in [Path -> Content] /\ want \in [Path -> Content] /\ previous \in [Path -> Content]
    BY <1>1 DEF Init
  <2>5. \A r \in Run :
          pc[r] \in {"write", "validate", "restore", "rereload"} <=> applyLock = r
    BY HostSshAssumption DEF HostSshAssumption, Init
  <2>6. QED  BY <1>1, <2>2, <2>3, <2>4, <2>5 DEF Init, TypeOK
<1>3. HasLoaded  BY DEF Init, HasLoaded, Applying
<1>4. KrlsTyped /\ Kept
  BY TheTypes DEF Init, KrlsTyped, Kept, NoFiles, KrlContent, KeysOf
<1>5. InProgress  BY DEF Init, InProgress
<1>6. OnePolicy
  <2>1. \A f \in Path : NoFiles[f] = Absent /\ Rendered(NoRole)[f] = Absent
    BY DEF NoFiles, Rendered, NoRole, PathsOf
  <2>2. QED  BY <2>1, TheTypes DEF Init, OnePolicy, Matches
<1>7. SshdInv
  BY TheTypes DEF Init, SshdInv, ConfRead, CertRead, NoFiles
<1>8. QED  BY <1>2, <1>3, <1>4, <1>5, <1>6, <1>7 DEF IInv

-----------------------------------------------------------------------------
(***************************************************************************)
(* What the holder of the lock knows, and what steps leave alone.          *)
(***************************************************************************)
Labels == {"idle", "await", "write", "validate", "restore", "rereload", "issue", "load"}
OpNames == {"apply", "enroll", "renew", "prove", None}

\* The types of what is neither of a run nor of its transaction.
RestTyped ==
  /\ policy \in Policies /\ cert \in 0 .. Life /\ sshd \in Sshd
  /\ distributed \in [Krl -> SUBSET (UserKey \union HostKey)]
  /\ applied \in Policies \union {NoRole}
  /\ mixed \in BOOLEAN /\ stale \in BOOLEAN
  /\ faults \in 0 .. MaxFaults /\ changes \in 0 .. MaxChanges

LEMMA HolderKnows ==
  ASSUME IInv, NEW r \in Run, pc[r] \in Applying
  PROVE  /\ applyLock = r /\ applyLock # None
         /\ Progress(r)
         /\ seen[r] \in Policies /\ seen[r] \in Policy
         /\ want \in [Path -> Content] /\ previous \in [Path -> Content] /\ files \in [Path -> Content]
         /\ \A k \in Krl :
              /\ previous[k] \in KrlContent /\ want[k] \in KrlContent /\ want[k] # Damaged
              /\ want[k] # Absent => KeysOf(previous[k]) \subseteq KeysOf(want[k])
              /\ distributed[k] \subseteq KeysOf(previous[k])
         /\ ~ mixed => Matches(previous, applied)
         /\ Matches(want, seen[r])
         /\ ~ ReloadServer(seen[r], previous) => want["sshdConf"] = previous["sshdConf"]
<1>1. applyLock = r /\ applyLock # None
  BY HostSshAssumption DEF HostSshAssumption, IInv, TypeOK, Applying
<1>2. Progress(r) /\ seen[r] \in Policies /\ seen[r] \in Policy
  BY <1>1, TheTypes DEF IInv, InProgress, HasLoaded, Applying
<1>3. want = Compiled(seen[r], previous)  BY <1>2 DEF Progress
<1>4. want \in [Path -> Content] /\ previous \in [Path -> Content] /\ files \in [Path -> Content]
  BY DEF IInv, TypeOK
<1>5. \A k \in Krl : previous[k] \in KrlContent  BY DEF IInv, KrlsTyped
<1>6. \A k \in Krl :
         /\ want[k] \in KeyList \union {Absent}
         /\ want[k] # Absent => KeysOf(previous[k]) \subseteq KeysOf(want[k])
  BY <1>2, <1>3, <1>4, <1>5, CompiledType
<1>7. \A k \in Krl : want[k] \in KrlContent /\ want[k] # Damaged
  <2> SUFFICES ASSUME NEW k \in Krl PROVE want[k] \in KrlContent /\ want[k] # Damaged
    OBVIOUS
  <2>1. Damaged \notin KeyList /\ Absent # Damaged  BY TheTypes
  <2>2. want[k] \in KeyList \union {Absent}  BY <1>6
  <2>3. QED  BY <2>1, <2>2 DEF KrlContent
<1>8. \A k \in Krl : distributed[k] \subseteq KeysOf(previous[k])
  BY <1>1 DEF IInv, Kept
<1>9. ~ mixed => Matches(previous, applied)  BY <1>1 DEF IInv, OnePolicy
<1>10. Matches(want, seen[r])  BY <1>2, <1>3, <1>4, <1>5, CompiledType
<1>11. ~ ReloadServer(seen[r], previous) => want["sshdConf"] = previous["sshdConf"]
  BY <1>2, <1>3, <1>4, <1>5, NoReloadNoFragment
<1>12. \A k \in Krl :
         /\ previous[k] \in KrlContent /\ want[k] \in KrlContent /\ want[k] # Damaged
         /\ want[k] # Absent => KeysOf(previous[k]) \subseteq KeysOf(want[k])
         /\ distributed[k] \subseteq KeysOf(previous[k])
  BY <1>5, <1>6, <1>7, <1>8
<1>13. QED  BY <1>1, <1>2, <1>4, <1>9, <1>10, <1>11, <1>12

\* A run that does not hold the lock goes on or ends; the transaction of the holder is left alone.
LEMMA RunKeeps ==
  ASSUME IInv, NEW r \in Run, pc[r] \notin Applying, NEW l \in Labels \ Applying,
         Goto(r, l), op' \in [Run -> OpNames], seen' \in [Run -> Policies \union {None}],
         \A q \in Run \ {r} : op'[q] = op[q] /\ seen'[q] = seen[q],
         l = "await" \/ (l # "idle" /\ op'[r] = "enroll") => seen'[r] \in Policies,
         UNCHANGED <<files, applyLock, txnVars>>, renewLock' \in Run \union {None},
         RestTyped', Kept', OnePolicy', SshdInv'
  PROVE  IInv'
<1>1. pc' \in [Run -> Labels] /\ \A q \in Run : pc'[q] = IF q = r THEN l ELSE pc[q]
  BY DEF Goto, IInv, TypeOK, Labels
<1>2. UNCHANGED <<want, previous, left>>  BY DEF txnVars
<1>3. \A q \in Run : pc'[q] \in Applying <=> applyLock' = q
  BY <1>1 DEF IInv, TypeOK, Applying
<1>4. TypeOK'
  BY <1>1, <1>2, <1>3, Zenon DEF IInv, TypeOK, RestTyped, Labels, OpNames, Applying
<1>5. HasLoaded'
  <2> SUFFICES ASSUME NEW q \in Run,
                      pc'[q] \in Applying \union {"await"} \/ (pc'[q] # "idle" /\ op'[q] = "enroll")
               PROVE  seen'[q] \in Policies
    BY DEF HasLoaded
  <2>1. CASE q = r  BY <1>1, <2>1
  <2>2. CASE q # r  BY <1>1, <2>2 DEF IInv, HasLoaded
  <2>3. QED  BY <2>1, <2>2
<1>6. KrlsTyped'  BY <1>2 DEF IInv, KrlsTyped
<1>7. InProgress'
  <2> SUFFICES ASSUME applyLock # None PROVE Progress(applyLock)'
    BY DEF InProgress
  <2>1. applyLock \in Run /\ applyLock # r
    BY DEF IInv, TypeOK, Applying
  <2>2. pc'[applyLock] = pc[applyLock] /\ seen'[applyLock] = seen[applyLock]
    BY <1>1, <2>1
  <2>3. Progress(applyLock)  BY DEF IInv, InProgress
  <2>4. QED  BY <1>2, <2>2, <2>3 DEF Progress, Changed
<1>8. QED  BY <1>4, <1>5, <1>6, <1>7 DEF IInv

\* Nothing that the two histories of applies relate to changes.
LEMMA HistoryStays ==
  ASSUME IInv, UNCHANGED <<files, applyLock, previous, distributed, applied, mixed>>
  PROVE  Kept' /\ OnePolicy'
<1>1. Kept'  BY DEF IInv, Kept, KeysOf
<1>2. OnePolicy'  BY DEF IInv, OnePolicy, Matches
<1>3. QED  BY <1>1, <1>2

\* What sshd has read of the fragment does not depend on runs without the lock.
LEMMA ConfStays ==
  ASSUME IInv, ConfRead, NEW r \in Run, pc[r] \notin Applying, sshd'.conf = sshd.conf,
         \A q \in Run \ {r} : seen'[q] = seen[q],
         UNCHANGED <<files, applyLock, previous>>
  PROVE  ConfRead'
<1>1. applyLock # r  BY DEF IInv, TypeOK, Applying
<1>2. applyLock # None => applyLock \in Run /\ seen'[applyLock] = seen[applyLock]
  BY <1>1 DEF IInv, TypeOK
<1>3. QED  BY <1>2 DEF ConfRead, ReloadServer

\* The holder goes on with its files, within what it may still reload.
LEMMA HolderKeeps ==
  ASSUME IInv, NEW r \in Run, pc[r] \in Applying, NEW l \in Applying, Goto(r, l),
         UNCHANGED <<policy, cert, sshd, lockVars, op, seen, want, previous, applied, mixed, stale>>,
         left' \subseteq Path, RestTyped',
         files' \in [Path -> Content], \A f \in Path : files'[f] \in {previous[f], want[f]},
         files[ "sshdConf"] \in {previous["sshdConf"], want["sshdConf"]},
         \A k \in Krl : distributed'[k] \subseteq distributed[k] /\ distributed'[k] \subseteq KeysOf(files'[k]),
         Progress(r)'
  PROVE  IInv'
<1>1. pc' \in [Run -> Labels] /\ \A q \in Run : pc'[q] = IF q = r THEN l ELSE pc[q]
  BY DEF Goto, IInv, TypeOK, Labels, Applying
<1>2. UNCHANGED <<applyLock, renewLock>>  BY DEF lockVars
<1>3. \A q \in Run : pc'[q] \in Applying <=> applyLock' = q
  BY <1>1, <1>2 DEF IInv, TypeOK, Applying
<1>4. TypeOK'
  BY <1>1, <1>2, <1>3, Zenon DEF IInv, TypeOK, RestTyped, Labels, Applying
<1>5. HasLoaded'
  BY <1>1 DEF IInv, HasLoaded, Applying
<1>6. KrlsTyped'
  BY HolderKnows, TheTypes DEF KrlsTyped
<1>7. Kept'
  BY <1>2, HolderKnows DEF Kept, KeysOf
<1>8. InProgress'
  BY <1>2, HolderKnows DEF InProgress
<1>9. OnePolicy'
  BY <1>2, HolderKnows DEF IInv, OnePolicy, Matches
<1>10. SshdInv'
  <2> SUFFICES ASSUME ~ stale PROVE (ConfRead /\ CertRead)'
    BY DEF SshdInv
  <2>1. ConfRead /\ CertRead  BY DEF IInv, SshdInv
  <2>2. CertRead'
    BY <1>1, <2>1 DEF CertRead, Applying
  <2>3. CASE ReloadServer(seen[r], previous)
    <3>1. applyLock' = r /\ r # None /\ seen'[r] = seen[r] /\ previous' = previous
      BY <1>2, HolderKnows
    <3>2. ReloadServer(seen[r], previous)'  BY <2>3 DEF ReloadServer
    <3>3. ConfRead'  BY <3>1, <3>2 DEF ConfRead, ReloadServer
    <3>4. QED  BY <2>2, <3>3
  <2>4. CASE ~ ReloadServer(seen[r], previous)
    <3>1. want["sshdConf"] = previous["sshdConf"] /\ applyLock = r  BY <2>4, HolderKnows
    <3>2. files'["sshdConf"] = files["sshdConf"]  BY <3>1, TheTypes
    <3>3. sshd.conf = files["sshdConf"]  BY <2>1, <2>4, <3>1 DEF ConfRead
    <3>4. QED  BY <3>2, <3>3, <2>2 DEF ConfRead
  <2>5. QED  BY <2>2, <2>3, <2>4
<1>11. QED  BY <1>4, <1>5, <1>6, <1>7, <1>8, <1>9, <1>10 DEF IInv

\* The holder releases the lock, whatever it leaves behind.
LEMMA HolderReleases ==
  ASSUME IInv, NEW r \in Run, pc[r] \in Applying, NEW l \in {"idle", "issue"}, Goto(r, l),
         op' \in [Run -> OpNames], seen' \in [Run -> Policies \union {None}],
         \A q \in Run \ {r} : op'[q] = op[q] /\ seen'[q] = seen[q],
         l = "issue" => op'[r] = "prove",
         applyLock' = None, renewLock' \in Run \union {None},
         want' = NoFiles, previous' = NoFiles, left' = {}, RestTyped',
         files' \in [Path -> Content], \A f \in Path : files'[f] \in {previous[f], want[f]},
         \A k \in Krl : distributed'[k] \subseteq KeysOf(files'[k]),
         ~ mixed' => Matches(files', applied'), SshdInv'
  PROVE  IInv'
<1>1. pc' \in [Run -> Labels] /\ \A q \in Run : pc'[q] = IF q = r THEN l ELSE pc[q]
  BY DEF Goto, IInv, TypeOK, Labels
<1>2. \A q \in Run : pc'[q] \in Applying <=> applyLock' = q
  BY <1>1, HolderKnows, HostSshAssumption DEF HostSshAssumption, IInv, TypeOK, Applying
<1>3. TypeOK'
  BY <1>1, <1>2, TheTypes, Zenon DEF TypeOK, RestTyped, Labels, OpNames, Applying
<1>4. HasLoaded'
  <2> SUFFICES ASSUME NEW q \in Run,
                      pc'[q] \in Applying \union {"await"} \/ (pc'[q] # "idle" /\ op'[q] = "enroll")
               PROVE  seen'[q] \in Policies
    BY DEF HasLoaded
  <2>1. CASE q = r  BY <1>1, <2>1 DEF Applying
  <2>2. CASE q # r  BY <1>1, <2>2 DEF IInv, HasLoaded
  <2>3. QED  BY <2>1, <2>2
<1>5. KrlsTyped'
  <2>1. \A k \in Krl : files'[k] \in KrlContent  BY HolderKnows, TheTypes
  <2>2. \A k \in Krl : previous'[k] \in KrlContent
    BY TheTypes DEF NoFiles, KrlContent
  <2>3. QED  BY <2>1, <2>2 DEF KrlsTyped
<1>6. Kept'  BY DEF Kept, KeysOf
<1>7. InProgress'  BY DEF InProgress
<1>8. OnePolicy'  BY DEF OnePolicy, Matches
<1>9. QED  BY <1>3, <1>4, <1>5, <1>6, <1>7, <1>8 DEF IInv

-----------------------------------------------------------------------------
(***************************************************************************)
(* Runs that do not hold the lock.                                         *)
(***************************************************************************)
LEMMA Outside ==
  ASSUME IInv, NEW r \in Run, pc[r] \in {"idle", "await", "issue", "load"}
  PROVE  pc[r] \notin Applying /\ applyLock # r
BY DEF IInv, TypeOK, Applying

\* A run without the lock ends and changes nothing.
LEMMA LeaveKeeps ==
  ASSUME IInv, NEW r \in Run, pc[r] \in {"idle", "await", "issue", "load"}, Leave(r),
         UNCHANGED files, RestTyped', Kept', OnePolicy', SshdInv'
  PROVE  IInv'
<1>1. pc[r] \notin Applying /\ applyLock # r  BY Outside
<1>2. UNCHANGED <<applyLock, want, previous, left>>  BY <1>1 DEF Leave
<1>3. /\ op' \in [Run -> OpNames] /\ seen' \in [Run -> Policies \union {None}]
      /\ \A q \in Run \ {r} : op'[q] = op[q] /\ seen'[q] = seen[q]
      /\ renewLock' \in Run \union {None}
  BY DEF Leave, IInv, TypeOK, OpNames
<1>4. Goto(r, "idle") /\ "idle" \in Labels \ Applying  BY DEF Leave, Labels, Applying
<1>5. QED  BY <1>1, <1>2, <1>3, <1>4, RunKeeps DEF txnVars

LEMMA StartKeeps == ASSUME IInv, NEW r \in Run, NEW o \in Ops \ {"renew"}, Start(r, o) PROVE IInv'
<1> DEFINE l == IF o = "apply" THEN "await" ELSE "issue"
<1>1. pc[r] \notin Applying  BY Outside DEF Start
<1>2. l \in Labels \ Applying /\ Goto(r, l)  BY DEF Start, Labels, Applying
<1>3. /\ op' \in [Run -> OpNames] /\ seen' \in [Run -> Policies \union {None}]
      /\ \A q \in Run \ {r} : op'[q] = op[q] /\ seen'[q] = seen[q]
      /\ seen'[r] \in Policies
  BY HostSshAssumption DEF HostSshAssumption, Start, IInv, TypeOK, OpNames
<1>4. UNCHANGED <<policy, files, cert, sshd, applyLock, renewLock, want, previous, left, distributed, applied,
                  mixed, stale, faults, changes>>
  BY DEF Start, fileVars, lockVars, txnVars, histVars, counts
<1>5. RestTyped' /\ renewLock' \in Run \union {None}
  BY <1>4, Zenon DEF IInv, TypeOK, RestTyped
<1>6. SshdInv'
  <2> SUFFICES ASSUME ~ stale PROVE (ConfRead /\ CertRead)'  BY <1>4 DEF SshdInv
  <2>1. ConfRead'  BY <1>1, <1>3, <1>4, ConfStays DEF IInv, SshdInv
  <2>2. pc[r] # "load" /\ \A q \in Run \ {r} : pc'[q] = pc[q]
    BY DEF Start, Goto, IInv, TypeOK
  <2>3. CertRead'  BY <1>4, <2>2 DEF IInv, SshdInv, CertRead
  <2>4. QED  BY <2>1, <2>3
<1>7. Kept' /\ OnePolicy'  BY <1>4, HistoryStays
<1>8. QED  BY <1>1, <1>2, <1>3, <1>4, <1>5, <1>6, <1>7, RunKeeps DEF txnVars

LEMMA StartRenewalKeeps == ASSUME IInv, NEW r \in Run, StartRenewal(r) PROVE IInv'
<1>1. pc[r] \notin Applying  BY Outside DEF StartRenewal
<1>2. "issue" \in Labels \ Applying /\ Goto(r, "issue")  BY DEF StartRenewal, Labels, Applying
<1>3. UNCHANGED <<policy, files, cert, sshd, applyLock, seen, want, previous, left, distributed, applied,
                  mixed, stale, faults, changes>>
  BY DEF StartRenewal, fileVars, txnVars, histVars, counts
<1>4. /\ op' \in [Run -> OpNames] /\ seen' \in [Run -> Policies \union {None}]
      /\ \A q \in Run \ {r} : op'[q] = op[q] /\ seen'[q] = seen[q]
      /\ op'[r] # "enroll" /\ renewLock' \in Run \union {None}
  BY <1>3 DEF StartRenewal, IInv, TypeOK, OpNames
<1>5. RestTyped'  BY <1>3, Zenon DEF IInv, TypeOK, RestTyped
<1>6. SshdInv'
  <2> SUFFICES ASSUME ~ stale PROVE (ConfRead /\ CertRead)'  BY <1>3 DEF SshdInv
  <2>1. ConfRead'  BY <1>1, <1>3, ConfStays DEF IInv, SshdInv
  <2>2. pc[r] # "load" /\ \A q \in Run \ {r} : pc'[q] = pc[q]
    BY DEF StartRenewal, Goto, IInv, TypeOK
  <2>3. CertRead'  BY <1>3, <2>2 DEF IInv, SshdInv, CertRead
  <2>4. QED  BY <2>1, <2>3
<1>7. Kept' /\ OnePolicy'  BY <1>3, HistoryStays
<1>8. QED  BY <1>1, <1>2, <1>3, <1>4, <1>5, <1>6, <1>7, RunKeeps DEF txnVars

LEMMA IssueKeeps == ASSUME IInv, NEW r \in Run, Issue(r) PROVE IInv'
<1>1. pc[r] \notin Applying  BY Outside DEF Issue
<1>2. "load" \in Labels \ Applying /\ Goto(r, "load")  BY DEF Issue, Labels, Applying
<1>3. UNCHANGED <<policy, files, sshd, applyLock, renewLock, op, seen, want, previous, left, distributed,
                  applied, mixed, stale, faults, changes>>
  BY DEF Issue, lockVars, txnVars, histVars, counts
<1>4. /\ op' \in [Run -> OpNames] /\ seen' \in [Run -> Policies \union {None}]
      /\ \A q \in Run \ {r} : op'[q] = op[q] /\ seen'[q] = seen[q]
      /\ op'[r] = "enroll" => seen'[r] \in Policies
      /\ renewLock' \in Run \union {None}
  BY <1>3 DEF Issue, IInv, TypeOK, OpNames, HasLoaded
<1>5. RestTyped'
  <2>1. cert' \in 0 .. Life  BY HostSshAssumption DEF HostSshAssumption, Issue
  <2>2. QED  BY <1>3, <2>1, Zenon DEF IInv, TypeOK, RestTyped
<1>6. SshdInv'
  <2> SUFFICES ASSUME ~ stale PROVE (ConfRead /\ CertRead)'  BY <1>3 DEF SshdInv
  <2>1. ConfRead'  BY <1>1, <1>3, ConfStays DEF IInv, SshdInv
  <2>2. CertRead'  BY DEF Issue, Goto, IInv, TypeOK, CertRead
  <2>3. QED  BY <2>1, <2>2
<1>7. Kept' /\ OnePolicy'  BY <1>3, HistoryStays
<1>8. QED  BY <1>1, <1>2, <1>3, <1>4, <1>5, <1>6, <1>7, RunKeeps DEF txnVars

\* sshd has just read what is installed.
LEMMA Reloaded ==
  ASSUME IInv, ReloadSsh, UNCHANGED <<files, cert>>
  PROVE  SshdInv' /\ sshd' \in Sshd /\ stale' \in BOOLEAN
<1>1. sshd' = [conf |-> files["sshdConf"], cert |-> cert] /\ stale' = FALSE  BY DEF ReloadSsh
<1>2. files["sshdConf"] \in Content /\ cert \in 0 .. Life  BY TheTypes DEF IInv, TypeOK
<1>3. QED  BY <1>1, <1>2 DEF SshdInv, ConfRead, CertRead, Sshd

LEMMA LoadKeeps == ASSUME IInv, NEW r \in Run, Load(r) PROVE IInv'
<1>1. pc[r] \notin Applying /\ pc[r] = "load"  BY Outside DEF Load
<1>2. UNCHANGED <<policy, files, cert, distributed, applied, mixed, faults, changes>>
  BY DEF Load, counts
<1>3. SshdInv' /\ RestTyped'
  <2>1. SshdInv' /\ sshd' \in Sshd /\ stale' \in BOOLEAN  BY <1>2, Reloaded DEF Load
  <2>2. QED  BY <1>2, <2>1, Zenon DEF IInv, TypeOK, RestTyped
<1>4. CASE op[r] = "enroll"
  <2>1. UNCHANGED <<applyLock, renewLock, op, seen, want, previous, left>> /\ Goto(r, "await")
    BY <1>4 DEF Load, lockVars, txnVars
  <2>2. "await" \in Labels \ Applying  BY DEF Labels, Applying
  <2>3. /\ op' \in [Run -> OpNames] /\ seen' \in [Run -> Policies \union {None}]
        /\ \A q \in Run \ {r} : op'[q] = op[q] /\ seen'[q] = seen[q]
        /\ seen'[r] \in Policies /\ renewLock' \in Run \union {None}
    BY <1>1, <1>4, <2>1 DEF IInv, TypeOK, OpNames, HasLoaded
  <2>4. Kept' /\ OnePolicy'  BY <1>2, <2>1, HistoryStays
  <2>5. QED  BY <1>1, <1>2, <1>3, <2>1, <2>2, <2>3, <2>4, RunKeeps DEF txnVars
<1>5. CASE op[r] # "enroll"
  <2>1. Leave(r)  BY <1>5 DEF Load
  <2>2. UNCHANGED <<applyLock, previous>>  BY <1>1, <2>1, Outside DEF Leave
  <2>3. Kept' /\ OnePolicy'  BY <1>2, <2>2, HistoryStays
  <2>4. QED  BY <1>1, <1>2, <1>3, <2>1, <2>3, LeaveKeeps
<1>6. QED  BY <1>4, <1>5

\* A run without the lock fails or dies.
LEMMA AbandonKeeps ==
  ASSUME IInv, NEW r \in Run, pc[r] \in {"idle", "await", "issue", "load"}, Leave(r),
         stale' = (stale \/ pc[r] = "load"), mixed' = mixed,
         faults' \in 0 .. MaxFaults, UNCHANGED <<policy, fileVars, distributed, applied, changes>>
  PROVE  IInv'
<1>1. pc[r] \notin Applying /\ applyLock # r  BY Outside
<1>2. UNCHANGED <<files, cert, sshd, applyLock, previous>>  BY <1>1 DEF Leave, fileVars
<1>3. RestTyped'  BY <1>2, Zenon DEF IInv, TypeOK, RestTyped
<1>4. Kept' /\ OnePolicy'  BY <1>2, HistoryStays
<1>5. SshdInv'
  <2> SUFFICES ASSUME ~ stale, pc[r] # "load" PROVE (ConfRead /\ CertRead)'  BY DEF SshdInv
  <2>1. \A q \in Run \ {r} : pc'[q] = pc[q] /\ seen'[q] = seen[q]
    BY DEF Leave, Goto, IInv, TypeOK
  <2>2. ConfRead'  BY <1>1, <1>2, <2>1, ConfStays DEF IInv, SshdInv
  <2>3. CertRead'  BY <1>2, <2>1 DEF IInv, SshdInv, CertRead
  <2>4. QED  BY <2>2, <2>3
<1>6. QED  BY <1>2, <1>3, <1>4, <1>5, LeaveKeeps

LEMMA FaultTyped == ASSUME IInv, NEW kind, Fault(kind) PROVE faults' \in 0 .. MaxFaults /\ changes' = changes
BY HostSshAssumption DEF HostSshAssumption, Fault, IInv, TypeOK

LEMMA CommandFailsKeeps == ASSUME IInv, NEW r \in Run, CommandFails(r) PROVE IInv'
<1>1. faults' \in 0 .. MaxFaults /\ changes' = changes  BY FaultTyped DEF CommandFails
<1>2. QED  BY <1>1, AbandonKeeps DEF CommandFails

-----------------------------------------------------------------------------
(***************************************************************************)
(* The holder of the lock.                                                 *)
(***************************************************************************)
\* Whatever it is doing, each file is as before or as desired.
LEMMA OldOrNew ==
  ASSUME IInv, NEW r \in Run, pc[r] \in Applying
  PROVE  /\ \A f \in Path : files[f] \in {previous[f], want[f]}
         /\ files["sshdConf"] \in {previous["sshdConf"], want["sshdConf"]}
<1>1. Progress(r)  BY HolderKnows
<1>2. \A f \in Path : files[f] \in {previous[f], want[f]}
  BY <1>1, HolderKnows DEF Progress, Applying
<1>3. QED  BY <1>2, TheTypes

LEMMA LeaveReleases ==
  ASSUME IInv, NEW r \in Run, pc[r] \in Applying, Leave(r)
  PROVE  /\ Goto(r, "idle") /\ applyLock' = None /\ renewLock' \in Run \union {None}
         /\ want' = NoFiles /\ previous' = NoFiles /\ left' = {}
         /\ op' \in [Run -> OpNames] /\ seen' \in [Run -> Policies \union {None}]
         /\ \A q \in Run \ {r} : op'[q] = op[q] /\ seen'[q] = seen[q]
<1>1. applyLock = r  BY HolderKnows
<1>2. QED  BY <1>1 DEF Leave, IInv, TypeOK, OpNames

\* The holder ends and leaves the files as they are.
LEMMA HolderLeaves ==
  ASSUME IInv, NEW r \in Run, pc[r] \in Applying, Leave(r), UNCHANGED <<files, distributed>>,
         RestTyped', ~ mixed' => Matches(files', applied'), SshdInv'
  PROVE  IInv'
<1>1. files' \in [Path -> Content] /\ \A f \in Path : files'[f] \in {previous[f], want[f]}
  BY OldOrNew DEF IInv, TypeOK
<1>2. \A k \in Krl : distributed'[k] \subseteq KeysOf(files'[k])
  BY DEF IInv, Kept
<1>3. "idle" \in {"idle", "issue"}  OBVIOUS
<1>4. QED  BY <1>1, <1>2, <1>3, LeaveReleases, HolderReleases

LEMMA WriteKeeps == ASSUME IInv, NEW r \in Run, Write(r) PROVE IInv'
<1> DEFINE f == First(left)
           l == IF left = {f} THEN "validate" ELSE "write"
<1>1. pc[r] \in Applying /\ pc[r] = "write"  BY DEF Write, Applying
<1>2. UNCHANGED <<policy, cert, sshd, applyLock, renewLock, op, seen, want, previous, applied, mixed, stale,
                  faults, changes>>
  BY DEF Write, lockVars, counts
<1>3. /\ left \subseteq Changed /\ left # {} /\ left \subseteq Path
      /\ \A g \in Path : files[g] = IF g \in left THEN previous[g] ELSE want[g]
  BY <1>1, HolderKnows DEF Progress, Changed
<1>4. l \in Applying /\ Goto(r, l) /\ left' = left \ {f}  BY DEF Write, Applying
<1>5. files' \in [Path -> Content]
         /\ \A g \in Path : files'[g] = IF g \in left' THEN previous[g] ELSE want[g]
  <2>1. files' = [files EXCEPT ![f] = want[f]]  BY DEF Write
  <2>2. \A g \in Path : files'[g] = IF g = f THEN want[g] ELSE files[g]
    BY <2>1, HolderKnows, <1>1
  <2>3. \A g \in Path : files'[g] = IF g \in left' THEN previous[g] ELSE want[g]
    BY <1>3, <1>4, <2>2
  <2>4. want \in [Path -> Content] /\ files \in [Path -> Content]  BY <1>1, HolderKnows
  <2>5. QED  BY <2>1, <2>2, <2>3, <2>4
<1>6. \A g \in Path : files'[g] \in {previous[g], want[g]}  BY <1>5
<1>7. \A k \in Krl : distributed'[k] = IF k = f /\ want[f] = Absent THEN {} ELSE distributed[k]
  BY DEF Write
<1>8. \A k \in Krl : distributed'[k] \subseteq distributed[k] /\ distributed'[k] \subseteq KeysOf(files'[k])
  <2> SUFFICES ASSUME NEW k \in Krl, ~ (k = f /\ want[f] = Absent)
               PROVE  distributed'[k] \subseteq distributed[k] /\ distributed'[k] \subseteq KeysOf(files'[k])
    BY <1>7
  <2>1. distributed'[k] = distributed[k] /\ distributed[k] \subseteq KeysOf(files[k]) /\ k \in Path
    BY <1>7, TheTypes DEF IInv, Kept
  <2>2. distributed[k] \subseteq KeysOf(previous[k])
         /\ (want[k] # Absent => KeysOf(previous[k]) \subseteq KeysOf(want[k]))
    BY <1>1, HolderKnows
  <2>3. CASE k \in left'  BY <1>5, <2>1, <2>2, <2>3
  <2>4. CASE k \notin left' /\ k # f  BY <1>3, <1>4, <1>5, <2>1, <2>4
  <2>5. CASE k = f  BY <1>4, <1>5, <2>1, <2>2, <2>5
  <2>6. QED  BY <2>3, <2>4, <2>5
<1>9. distributed' \in [Krl -> SUBSET (UserKey \union HostKey)]
  <2>1. \A k \in Krl : distributed[k] \in SUBSET (UserKey \union HostKey)  BY DEF IInv, TypeOK
  <2>2. QED  BY <2>1 DEF Write
<1>10. RestTyped'  BY <1>2, <1>9, Zenon DEF IInv, TypeOK, RestTyped
<1>11. Progress(r)'
  <2>1. pc'[r] = l  BY <1>4 DEF Goto, IInv, TypeOK
  <2>2. want = Compiled(seen[r], previous)  BY <1>1, HolderKnows DEF Progress
  <2>3. CASE left = {f}
    <3>1. left' = {} /\ pc'[r] = "validate"  BY <1>4, <2>1, <2>3
    <3>2. files' = want  BY <1>1, <1>5, <3>1, HolderKnows
    <3>3. QED  BY <1>2, <2>2, <3>1, <3>2 DEF Progress
  <2>4. CASE left # {f}
    <3>1. left' # {} /\ left' \subseteq Changed /\ pc'[r] = "write"  BY <1>3, <1>4, <2>1, <2>4
    <3>2. QED  BY <1>2, <1>5, <2>2, <3>1 DEF Progress, Changed
  <2>5. QED  BY <2>3, <2>4
<1>12. left' \subseteq Path  BY <1>3, <1>4
<1>13. QED
  BY <1>1, <1>2, <1>4, <1>5, <1>6, <1>8, <1>10, <1>11, <1>12, OldOrNew, HolderKeeps DEF lockVars

LEMMA ApplyFailsKeeps == ASSUME IInv, NEW r \in Run, ApplyFails(r) PROVE IInv'
<1>1. pc[r] \in Applying /\ pc[r] \in {"write", "validate"}  BY DEF ApplyFails, Applying
<1>2. faults' \in 0 .. MaxFaults /\ changes' = changes
  <2>1. CASE Fault("fail")  BY <2>1, FaultTyped
  <2>2. CASE UNCHANGED counts  BY <2>2 DEF counts, IInv, TypeOK
  <2>3. QED  BY <2>1, <2>2 DEF ApplyFails
<1>3. UNCHANGED <<policy, files, cert, sshd, distributed, applied, mixed>>
  BY DEF ApplyFails, fileVars
<1>4. CASE Changed = {}
  <2>1. Leave(r) /\ stale' = TRUE  BY <1>4 DEF ApplyFails
  <2>2. RestTyped'  BY <1>2, <1>3, <2>1, Zenon DEF IInv, TypeOK, RestTyped
  <2>3. files = previous
    <3>1. \A f \in Path : want[f] = previous[f]  BY <1>4 DEF Changed
    <3>2. \A f \in Path : files[f] = previous[f]  BY <1>1, <3>1, OldOrNew
    <3>3. QED  BY <3>2, <1>1, HolderKnows
  <2>4. ~ mixed' => Matches(files', applied')  BY <1>1, <1>3, <2>3, HolderKnows
  <2>5. SshdInv'  BY <2>1 DEF SshdInv
  <2>6. QED  BY <1>1, <1>3, <2>1, <2>2, <2>4, <2>5, HolderLeaves
<1>5. CASE Changed # {}
  <2>1. /\ Goto(r, "restore") /\ left' = Changed
        /\ UNCHANGED <<lockVars, op, seen, want, previous, stale>>
    BY <1>5 DEF ApplyFails
  <2>2. RestTyped'  BY <1>2, <1>3, <2>1, Zenon DEF IInv, TypeOK, RestTyped
  <2>3. left' \subseteq Path  BY <2>1 DEF Changed
  <2>4. files' \in [Path -> Content] /\ \A f \in Path : files'[f] \in {previous[f], want[f]}
    BY <1>1, <1>3, HolderKnows, OldOrNew
  <2>5. Progress(r)'
    <3>1. \A f \in Path : f \notin left' => files'[f] = previous[f]
      BY <2>1, <2>4 DEF Changed
    <3>2. pc'[r] = "restore"  BY <2>1 DEF Goto, IInv, TypeOK
    <3>3. want' = Compiled(seen'[r], previous')  BY <1>1, <2>1, HolderKnows DEF Progress
    <3>4. QED  BY <1>5, <2>1, <2>4, <3>1, <3>2, <3>3 DEF Progress
  <2>6. \A k \in Krl : distributed'[k] \subseteq distributed[k] /\ distributed'[k] \subseteq KeysOf(files'[k])
    BY <1>3 DEF IInv, Kept
  <2>7. "restore" \in Applying  BY DEF Applying
  <2>8. QED
    BY <1>1, <1>3, <2>1, <2>2, <2>3, <2>4, <2>5, <2>6, <2>7, OldOrNew, HolderKeeps
<1>6. QED  BY <1>4, <1>5

LEMMA RestoreKeeps == ASSUME IInv, NEW r \in Run, Restore(r) PROVE IInv'
<1> DEFINE f == First(left)
<1>1. pc[r] \in Applying /\ pc[r] = "restore"  BY DEF Restore, Applying
<1>2. UNCHANGED <<policy, cert, sshd, distributed, applied, mixed, stale, faults, changes>>
  BY DEF Restore, histVars, counts
<1>3. \A g \in Path :
        /\ files[g] \in {previous[g], want[g]}
        /\ g \notin left => files[g] = previous[g]
  BY <1>1, HolderKnows DEF Progress
<1>4. files \in [Path -> Content] /\ previous \in [Path -> Content]  BY <1>1, HolderKnows
<1>5. /\ files' \in [Path -> Content]
      /\ \A g \in Path : files'[g] = IF g = f THEN previous[g] ELSE files[g]
  <2>1. files' = [files EXCEPT ![f] = previous[f]]  BY DEF Restore
  <2>2. QED  BY <1>4, <2>1
<1>6. /\ \A g \in Path : files'[g] \in {previous[g], want[g]}
      /\ \A g \in Path : g \notin left \ {f} => files'[g] = previous[g]
  BY <1>3, <1>5
<1>7. RestTyped'  BY <1>2, Zenon DEF IInv, TypeOK, RestTyped
<1>8. \A k \in Krl : distributed'[k] \subseteq distributed[k] /\ distributed'[k] \subseteq KeysOf(files'[k])
  <2> SUFFICES ASSUME NEW k \in Krl PROVE distributed[k] \subseteq KeysOf(files'[k])  BY <1>2
  <2>1. /\ distributed[k] \subseteq KeysOf(files[k]) /\ k \in Path
        /\ distributed[k] \subseteq KeysOf(previous[k])
    BY <1>1, TheTypes, HolderKnows DEF IInv, Kept
  <2>2. QED  BY <1>5, <2>1
<1>9. CASE left # {f} \/ ReloadServer(seen[r], previous)
  <2> DEFINE l == IF left # {f} THEN "restore" ELSE "rereload"
  <2>1. /\ Goto(r, l) /\ l \in Applying /\ left' \in {left \ {f}, {}}
        /\ l = "restore" => left' = left \ {f} /\ left # {f}
        /\ l = "rereload" => left = {f} /\ left' = {}
        /\ UNCHANGED <<lockVars, op, seen, want, previous>>
    BY <1>1, <1>9 DEF Restore, runVars, Applying, Goto, IInv, TypeOK
  <2>2. left' \subseteq Path  BY <2>1 DEF IInv, TypeOK
  <2>3. Progress(r)'
    <3>1. pc'[r] = l  BY <2>1 DEF Goto, IInv, TypeOK
    <3>2. want' = Compiled(seen'[r], previous')  BY <1>1, <2>1, HolderKnows DEF Progress
    <3>3. CASE l = "restore"
      <4>1. left' # {}  BY <1>1, <2>1, <3>3, HolderKnows DEF Progress
      <4>2. QED  BY <1>6, <2>1, <3>1, <3>2, <3>3, <4>1 DEF Progress
    <3>4. CASE l = "rereload"
      <4>1. files' = previous  BY <1>4, <1>5, <1>6, <2>1, <3>4
      <4>2. QED  BY <2>1, <3>1, <3>2, <3>4, <4>1 DEF Progress
    <3>5. QED  BY <3>3, <3>4
  <2>4. QED
    BY <1>1, <1>2, <1>5, <1>6, <1>7, <1>8, <2>1, <2>2, <2>3, OldOrNew, HolderKeeps
<1>10. CASE left = {f} /\ ~ ReloadServer(seen[r], previous)
  <2>1. Leave(r)  BY <1>10 DEF Restore
  <2>2. files' = previous  BY <1>4, <1>5, <1>6, <1>10
  <2>3. ~ mixed' => Matches(files', applied')  BY <1>1, <1>2, <2>2, HolderKnows
  <2>4. SshdInv'
    <3> SUFFICES ASSUME ~ stale PROVE (ConfRead /\ CertRead)'  BY <1>2 DEF SshdInv
    <3>1. files'["sshdConf"] = files["sshdConf"]
      <4>1. want["sshdConf"] = previous["sshdConf"]  BY <1>1, <1>10, HolderKnows
      <4>2. QED  BY <1>1, <2>2, <4>1, OldOrNew
    <3>2. sshd.conf = files["sshdConf"]
      BY <1>1, <1>10, HolderKnows DEF IInv, SshdInv, ConfRead
    <3>3. \A q \in Run : pc[q] = "load" => pc'[q] = "load"
      BY <1>1, <2>1 DEF Leave, Goto, IInv, TypeOK
    <3>4. CertRead'  BY <1>2, <3>3 DEF IInv, SshdInv, CertRead
    <3>5. QED  BY <1>2, <3>1, <3>2, <3>4 DEF ConfRead
  <2>5. "idle" \in {"idle", "issue"}  OBVIOUS
  <2>6. QED
    BY <1>1, <1>5, <1>6, <1>7, <1>8, <2>1, <2>3, <2>4, <2>5, LeaveReleases, HolderReleases
<1>11. QED  BY <1>9, <1>10

LEMMA RestoreReloadKeeps == ASSUME IInv, NEW r \in Run, RestoreReload(r) PROVE IInv'
<1>1. pc[r] \in Applying /\ pc[r] = "rereload"  BY DEF RestoreReload, Applying
<1>2. UNCHANGED <<policy, files, cert, distributed, applied, mixed, faults, changes>>
  BY DEF RestoreReload, counts
<1>3. SshdInv' /\ sshd' \in Sshd /\ stale' \in BOOLEAN  BY <1>2, Reloaded DEF RestoreReload
<1>4. RestTyped'  BY <1>2, <1>3, Zenon DEF IInv, TypeOK, RestTyped
<1>5. ~ mixed' => Matches(files', applied')
  BY <1>1, <1>2, HolderKnows DEF Progress
<1>6. QED  BY <1>1, <1>2, <1>3, <1>4, <1>5, HolderLeaves DEF RestoreReload

LEMMA RestoreFailsKeeps == ASSUME IInv, NEW r \in Run, RestoreFails(r) PROVE IInv'
<1>1. pc[r] \in Applying /\ pc[r] \in {"restore", "rereload"}  BY DEF RestoreFails, Applying
<1>2. UNCHANGED <<policy, files, cert, sshd, distributed, applied, faults, changes>>
         /\ stale' = TRUE /\ mixed' = (mixed \/ pc[r] = "restore")
  BY DEF RestoreFails, fileVars, counts
<1>3. RestTyped'  BY <1>2, Zenon DEF IInv, TypeOK, RestTyped
<1>4. SshdInv'  BY <1>2 DEF SshdInv
<1>5. ~ mixed' => Matches(files', applied')
  BY <1>1, <1>2, HolderKnows DEF Progress
<1>6. QED  BY <1>1, <1>2, <1>3, <1>4, <1>5, HolderLeaves DEF RestoreFails

LEMMA KillKeeps == ASSUME IInv, NEW r \in Run, Kill(r) PROVE IInv'
<1>1. faults' \in 0 .. MaxFaults /\ changes' = changes  BY FaultTyped DEF Kill
<1>2. CASE pc[r] \in Applying
  <2>1. UNCHANGED <<policy, files, cert, sshd, distributed, applied, changes>> /\ stale' = TRUE /\ mixed' = TRUE
    BY <1>1, <1>2 DEF Kill, fileVars, Unsettled, Applying
  <2>2. RestTyped'  BY <1>1, <2>1, Zenon DEF IInv, TypeOK, RestTyped
  <2>3. SshdInv' /\ Leave(r)  BY <2>1 DEF SshdInv, Kill
  <2>4. QED  BY <1>2, <2>1, <2>2, <2>3, HolderLeaves
<1>3. CASE pc[r] \notin Applying
  <2>1. pc[r] \in {"idle", "await", "issue", "load"}  BY <1>3 DEF IInv, TypeOK, Applying
  <2>2. stale' = (stale \/ pc[r] = "load") /\ mixed' = mixed
    BY <2>1 DEF Kill, Unsettled, IInv, TypeOK
  <2>3. QED  BY <1>1, <2>1, <2>2, AbandonKeeps DEF Kill
<1>4. QED  BY <1>2, <1>3

-----------------------------------------------------------------------------
(***************************************************************************)
(* Taking the lock, and completing an apply.                               *)
(***************************************************************************)
LEMMA KeysTyped == ASSUME NEW c \in KrlContent PROVE KeysOf(c) \in SUBSET (UserKey \union HostKey)
<1>1. ValidKrl(c) => c \in KeyList  BY DEF KrlContent, ValidKrl
<1>2. QED  BY <1>1 DEF KeysOf, KeyList

\* What Complete writes down of the desired files.
LEMMA CompletedHistory ==
  ASSUME NEW r \in Run, NEW desired \in [Path -> Content], Complete(r, desired),
         \A k \in Krl : desired[k] \in KrlContent
  PROVE  /\ distributed' \in [Krl -> SUBSET (UserKey \union HostKey)]
         /\ \A k \in Krl : distributed'[k] = KeysOf(desired[k])
         /\ applied' = seen[r] /\ mixed' = FALSE
<1>1. distributed' = [k \in Krl |-> KeysOf(desired[k])]  BY DEF Complete, KeysOf
<1>2. \A k \in Krl : KeysOf(desired[k]) \in SUBSET (UserKey \union HostKey)  BY KeysTyped
<1>3. QED  BY <1>1, <1>2 DEF Complete

LEMMA AcquireKeeps == ASSUME IInv, NEW r \in Run, Acquire(r) PROVE IInv'
<1> DEFINE desired == CompileKrls(Rendered(seen[r]))
<1>1. pc[r] = "await" /\ applyLock = None  BY DEF Acquire
<1>2. pc[r] \notin Applying  BY <1>1, Outside
<1>3. seen[r] \in Policies /\ seen[r] \in Policy
  BY <1>1, TheTypes DEF IInv, HasLoaded, Applying
<1>4. UNCHANGED <<policy, files, cert, sshd, faults, changes>>  BY DEF Acquire, fileVars, counts
<1>5. /\ files \in [Path -> Content] /\ \A k \in Krl : files[k] \in KrlContent
      /\ desired = Compiled(seen[r], files)
  BY DEF IInv, TypeOK, KrlsTyped, CompileKrls, Compiled
<1>6. /\ desired \in [Path -> Content]
      /\ \A k \in Krl : desired[k] \in KeyList \union {Absent}
      /\ Matches(desired, seen[r])
  BY <1>3, <1>5, CompiledType
<1>7. CASE Changes(desired) = {} /\ op[r] = "apply"
  <2>1. Complete(r, desired) /\ UNCHANGED stale  BY <1>7 DEF Acquire
  <2>2. files = desired
    <3>1. \A f \in Path : files[f] = desired[f]  BY <1>7 DEF Changes
    <3>2. QED  BY <1>5, <1>6, <3>1
  <2>3. Leave(r)  BY <1>7, <2>1 DEF Complete
  <2>4. /\ distributed' \in [Krl -> SUBSET (UserKey \union HostKey)]
        /\ \A k \in Krl : distributed'[k] = KeysOf(files[k])
        /\ applied' = seen[r] /\ mixed' = FALSE
    BY <1>5, <2>1, <2>2, CompletedHistory
  <2>5. applyLock' = None  BY <1>1, <2>3 DEF Leave
  <2>6. RestTyped'  BY <1>3, <1>4, <2>1, <2>4, Zenon DEF IInv, TypeOK, RestTyped
  <2>7. Kept'  BY <1>4, <2>4, <2>5 DEF Kept, KeysOf
  <2>8. OnePolicy'  BY <1>4, <1>6, <2>2, <2>4, <2>5 DEF OnePolicy, Matches
  <2>9. SshdInv'
    <3> SUFFICES ASSUME ~ stale PROVE (ConfRead /\ CertRead)'  BY <2>1 DEF SshdInv
    <3>1. \A q \in Run \ {r} : pc'[q] = pc[q]  BY <2>3 DEF Leave, Goto, IInv, TypeOK
    <3>2. ConfRead'  BY <1>1, <1>4 DEF IInv, SshdInv, ConfRead
    <3>3. CertRead'  BY <1>1, <1>4, <3>1 DEF IInv, SshdInv, CertRead
    <3>4. QED  BY <3>2, <3>3
  <2>10. QED  BY <1>1, <1>4, <2>3, <2>6, <2>7, <2>8, <2>9, LeaveKeeps
<1>8. CASE ~ (Changes(desired) = {} /\ op[r] = "apply")
  <2> DEFINE l == IF Changes(desired) = {} THEN "validate" ELSE "write"
  <2>1. /\ applyLock' = r /\ want' = desired /\ previous' = files /\ left' = Changes(desired)
        /\ Goto(r, l)
        /\ UNCHANGED <<renewLock, op, seen, distributed, applied, mixed, stale>>
    BY <1>8 DEF Acquire, histVars
  <2>2. pc' \in [Run -> Labels] /\ l \in Applying /\ \A q \in Run : pc'[q] = IF q = r THEN l ELSE pc[q]
    BY <2>1 DEF Goto, IInv, TypeOK, Labels, Applying
  <2>3. \A q \in Run : pc'[q] \in Applying <=> applyLock' = q
    BY <1>1, <2>1, <2>2, HostSshAssumption DEF HostSshAssumption, IInv, TypeOK, Applying
  <2>4. left' \subseteq Path  BY <2>1 DEF Changes
  <2>5. TypeOK'
    BY <1>4, <1>5, <1>6, <2>1, <2>2, <2>3, <2>4, Zenon DEF IInv, TypeOK, Labels, Applying
  <2>6. HasLoaded'  BY <1>3, <2>1, <2>2 DEF IInv, HasLoaded
  <2>7. KrlsTyped'  BY <1>4, <2>1 DEF IInv, KrlsTyped
  <2>8. Kept'  BY <1>4, <2>1 DEF IInv, Kept, KeysOf
  <2>9. InProgress'
    <3>1. want' = Compiled(seen'[r], previous')  BY <1>5, <2>1
    <3>2. pc'[r] = l  BY <2>2
    <3>3. l = "write" =>
            /\ left' \subseteq Changed' /\ left' # {}
            /\ \A f \in Path : files'[f] = IF f \in left' THEN previous'[f] ELSE want'[f]
      BY <1>4, <2>1 DEF Changes, Changed
    <3>4. l = "validate" => files' = want'
      <4> SUFFICES ASSUME Changes(desired) = {} PROVE files = desired  BY <1>4, <2>1
      <4>1. \A f \in Path : files[f] = desired[f]  BY DEF Changes
      <4>2. QED  BY <1>5, <1>6, <4>1
    <3>5. Progress(r)'  BY <3>1, <3>2, <3>3, <3>4 DEF Progress
    <3>6. QED  BY <2>1, <3>5 DEF InProgress
  <2>10. OnePolicy'
    <3>1. ~ mixed => Matches(files, applied)  BY <1>1 DEF IInv, OnePolicy
    <3>2. applyLock' # None  BY <2>1, HostSshAssumption DEF HostSshAssumption
    <3>3. QED  BY <2>1, <3>1, <3>2 DEF OnePolicy, Matches
  <2>11. SshdInv'
    BY <1>1, <1>4, <2>1, <2>2 DEF IInv, SshdInv, ConfRead, CertRead
  <2>12. QED  BY <2>5, <2>6, <2>7, <2>8, <2>9, <2>10, <2>11 DEF IInv
<1>9. QED  BY <1>7, <1>8

LEMMA ValidateAndReloadKeeps == ASSUME IInv, NEW r \in Run, ValidateAndReload(r) PROVE IInv'
<1>1. pc[r] \in Applying /\ pc[r] = "validate"  BY DEF ValidateAndReload, Applying
<1>2. UNCHANGED <<policy, files, cert, faults, changes>> /\ Complete(r, want)
  BY DEF ValidateAndReload, counts
<1>3. /\ files = want /\ seen[r] \in Policies /\ applyLock = r
      /\ want \in [Path -> Content] /\ \A k \in Krl : want[k] \in KrlContent
      /\ Matches(want, seen[r])
  BY <1>1, HolderKnows DEF Progress
<1>4. /\ distributed' \in [Krl -> SUBSET (UserKey \union HostKey)]
      /\ \A k \in Krl : distributed'[k] = KeysOf(want[k])
      /\ applied' = seen[r] /\ mixed' = FALSE
  BY <1>2, <1>3, CompletedHistory
<1>5. \A k \in Krl : distributed'[k] \subseteq KeysOf(files'[k])  BY <1>2, <1>3, <1>4
<1>6. Matches(files', applied')  BY <1>2, <1>3, <1>4
<1>7. files' \in [Path -> Content] /\ \A f \in Path : files'[f] \in {previous[f], want[f]}
  BY <1>2, <1>3
<1> DEFINE l == IF op[r] = "apply" THEN "idle" ELSE "issue"
<1>8. /\ Goto(r, l) /\ l \in {"idle", "issue"} /\ applyLock' = None /\ renewLock' \in Run \union {None}
      /\ want' = NoFiles /\ previous' = NoFiles /\ left' = {}
      /\ op' \in [Run -> OpNames] /\ seen' \in [Run -> Policies \union {None}]
      /\ \A q \in Run \ {r} : op'[q] = op[q] /\ seen'[q] = seen[q]
      /\ l = "issue" => op'[r] = "prove"
  <2>1. CASE op[r] = "apply"
    <3>1. Leave(r)  BY <1>2, <2>1 DEF Complete
    <3>2. QED  BY <1>1, <2>1, <3>1, LeaveReleases
  <2>2. CASE op[r] # "apply"
    BY <1>2, <2>2 DEF Complete, IInv, TypeOK, OpNames
  <2>3. QED  BY <2>1, <2>2
<1>9. SshdInv' /\ sshd' \in Sshd /\ stale' \in BOOLEAN
  <2>1. CASE ReloadServer(seen[r], previous)
    BY <1>2, <2>1, Reloaded DEF ValidateAndReload
  <2>2. CASE ~ ReloadServer(seen[r], previous)
    <3>1. UNCHANGED <<sshd, stale>>  BY <2>2 DEF ValidateAndReload
    <3>2. \A q \in Run : pc[q] = "load" => pc'[q] = "load"
      BY <1>1, <1>8 DEF Goto, IInv, TypeOK
    <3>3. SshdInv'
      <4> SUFFICES ASSUME ~ stale PROVE (ConfRead /\ CertRead)'  BY <3>1 DEF SshdInv
      <4>1. sshd.conf = files["sshdConf"]  BY <1>3, <2>2 DEF IInv, SshdInv, ConfRead
      <4>2. CertRead'  BY <1>2, <3>1, <3>2 DEF IInv, SshdInv, CertRead
      <4>3. QED  BY <1>2, <3>1, <4>1, <4>2 DEF ConfRead
    <3>4. QED  BY <3>1, <3>3 DEF IInv, TypeOK
  <2>3. QED  BY <2>1, <2>2
<1>10. RestTyped'  BY <1>2, <1>3, <1>4, <1>9, Zenon DEF IInv, TypeOK, RestTyped
<1>11. QED  BY <1>1, <1>5, <1>6, <1>7, <1>8, <1>9, <1>10, HolderReleases

-----------------------------------------------------------------------------
(***************************************************************************)
(* Policies, time and hands.                                               *)
(***************************************************************************)
\* Steps that leave all runs and the installed files alone.
LEMMA BackgroundKeeps ==
  ASSUME IInv, UNCHANGED <<files, applyLock, renewLock, pc, op, seen, want, previous, left, distributed,
                           applied, mixed>>,
         RestTyped', SshdInv'
  PROVE  IInv'
<1>1. TypeOK'  BY Zenon DEF IInv, TypeOK, RestTyped
<1>2. HasLoaded' /\ KrlsTyped'  BY DEF IInv, HasLoaded, KrlsTyped
<1>3. Kept' /\ OnePolicy'  BY HistoryStays
<1>4. InProgress'  BY DEF IInv, InProgress, Progress, Changed
<1>5. QED  BY <1>1, <1>2, <1>3, <1>4 DEF IInv

LEMMA DistributeKeeps == ASSUME IInv, NEW p \in Policies, Distribute(p) PROVE IInv'
<1>1. UNCHANGED <<files, cert, sshd, applyLock, renewLock, pc, op, seen, want, previous, left, distributed,
                  applied, mixed, stale, faults>>
  BY DEF Distribute, fileVars, lockVars, runVars, txnVars, histVars
<1>2. policy' \in Policies /\ changes' \in 0 .. MaxChanges
  BY HostSshAssumption DEF HostSshAssumption, Distribute, IInv, TypeOK
<1>3. RestTyped'  BY <1>1, <1>2, Zenon DEF IInv, TypeOK, RestTyped
<1>4. SshdInv'  BY <1>1 DEF IInv, SshdInv, ConfRead, CertRead, ReloadServer
<1>5. QED  BY <1>1, <1>3, <1>4, BackgroundKeeps

LEMMA AgeKeeps == ASSUME IInv, Age PROVE IInv'
<1>1. UNCHANGED <<policy, files, applyLock, renewLock, pc, op, seen, want, previous, left, distributed,
                  applied, mixed, stale, faults, changes>>
  BY DEF Age, lockVars, runVars, txnVars, histVars, counts
<1>2. cert \in 0 .. Life /\ sshd \in Sshd /\ Life \in Nat
  BY HostSshAssumption DEF HostSshAssumption, IInv, TypeOK
<1>3. /\ cert' = IF cert = 0 THEN 0 ELSE cert - 1
      /\ sshd' = [sshd EXCEPT !.cert = IF @ = 0 THEN 0 ELSE @ - 1]
  BY DEF Age
<1>4. sshd'.conf = sshd.conf /\ sshd'.cert = IF sshd.cert = 0 THEN 0 ELSE sshd.cert - 1
  BY <1>2, <1>3 DEF Sshd
<1>5. cert' \in 0 .. Life /\ sshd' \in Sshd
  BY <1>2, <1>3 DEF Sshd
<1>6. RestTyped'  BY <1>1, <1>5, Zenon DEF IInv, TypeOK, RestTyped
<1>7. SshdInv'
  <2> SUFFICES ASSUME ~ stale PROVE (ConfRead /\ CertRead)'  BY <1>1 DEF SshdInv
  <2>1. ConfRead'  BY <1>1, <1>4 DEF IInv, SshdInv, ConfRead, ReloadServer
  <2>2. sshd.cert = cert  BY DEF IInv, SshdInv, CertRead, Age
  <2>3. CertRead'  BY <1>3, <1>4, <2>2 DEF CertRead
  <2>4. QED  BY <2>1, <2>3
<1>8. QED  BY <1>1, <1>6, <1>7, BackgroundKeeps

LEMMA DamageKeeps ==
  ASSUME IInv, NEW f \in Path, NEW c \in {Absent, Damaged}, Damage(f, c) PROVE IInv'
<1>1. UNCHANGED <<policy, cert, sshd, applyLock, renewLock, pc, op, seen, want, previous, left, applied, changes>>
  BY DEF Damage, lockVars, runVars, txnVars, Fault
<1>2. /\ applyLock = None /\ mixed' = TRUE /\ stale' = (stale \/ f = "sshdConf")
      /\ \A k \in Krl : distributed'[k] = IF k = f THEN {} ELSE distributed[k]
      /\ faults' \in 0 .. MaxFaults
  BY FaultTyped DEF Damage
<1>3. /\ files' \in [Path -> Content]
      /\ \A g \in Path : files'[g] = IF g = f THEN c ELSE files[g]
  <2>1. files' = [files EXCEPT ![f] = c] /\ files \in [Path -> Content]  BY DEF Damage, IInv, TypeOK
  <2>2. QED  BY <2>1 DEF Content
<1>4. distributed' \in [Krl -> SUBSET (UserKey \union HostKey)]
  <2>1. \A k \in Krl : distributed[k] \in SUBSET (UserKey \union HostKey)  BY DEF IInv, TypeOK
  <2>2. QED  BY <2>1 DEF Damage
<1>5. TypeOK'
  <2>1. RestTyped'  BY <1>1, <1>2, <1>4, Zenon DEF IInv, TypeOK, RestTyped
  <2>2. QED  BY <1>1, <1>3, <2>1, Zenon DEF IInv, TypeOK, RestTyped
<1>6. HasLoaded'  BY <1>1 DEF IInv, HasLoaded
<1>7. KrlsTyped'
  <2>1. \A k \in Krl : files'[k] \in KrlContent  BY <1>3, TheTypes DEF IInv, KrlsTyped, KrlContent
  <2>2. QED  BY <1>1, <2>1 DEF IInv, KrlsTyped
<1>8. Kept'
  <2>1. \A k \in Krl : distributed'[k] \subseteq KeysOf(files'[k])
    BY <1>2, <1>3, TheTypes DEF IInv, Kept
  <2>2. QED  BY <1>1, <1>2, <2>1 DEF Kept, KeysOf
<1>9. InProgress' /\ OnePolicy'  BY <1>1, <1>2 DEF InProgress, OnePolicy
<1>10. SshdInv'
  <2> SUFFICES ASSUME ~ stale, f # "sshdConf" PROVE (ConfRead /\ CertRead)'  BY <1>2 DEF SshdInv
  <2>1. files'["sshdConf"] = files["sshdConf"]  BY <1>3, TheTypes
  <2>2. QED  BY <1>1, <1>2, <2>1 DEF IInv, SshdInv, ConfRead, CertRead
<1>11. QED  BY <1>5, <1>6, <1>7, <1>8, <1>9, <1>10 DEF IInv

-----------------------------------------------------------------------------
\* The invariant is inductive: every step of every run, every fault, every
\* change of policy and the passing of time keep it.
THEOREM Inductive == IInv /\ [Next]_vars => IInv'
<1> SUFFICES ASSUME IInv, [Next]_vars PROVE IInv'  OBVIOUS
<1>1. CASE UNCHANGED vars
  <2>1. UNCHANGED <<policy, files, cert, sshd, applyLock, renewLock, pc, op, seen, want, previous, left,
                    distributed, applied, mixed, stale, faults, changes>>
    BY <1>1 DEF vars, fileVars, lockVars, runVars, txnVars, histVars, counts
  <2>2. RestTyped'  BY <2>1, Zenon DEF IInv, TypeOK, RestTyped
  <2>3. SshdInv'  BY <2>1 DEF IInv, SshdInv, ConfRead, CertRead, ReloadServer
  <2>4. QED  BY <2>1, <2>2, <2>3, BackgroundKeeps
<1>2. ASSUME NEW r \in Run, Step(r) PROVE IInv'
  BY <1>2, WriteKeeps, ValidateAndReloadKeeps, ApplyFailsKeeps, RestoreKeeps, RestoreReloadKeeps,
     RestoreFailsKeeps, IssueKeeps, LoadKeeps, CommandFailsKeeps DEF Step
<1>3. ASSUME NEW r \in Run, Acquire(r) \/ Kill(r) PROVE IInv'
  BY <1>3, AcquireKeeps, KillKeeps
<1>4. QED
  BY <1>1, <1>2, <1>3, StartKeeps, StartRenewalKeeps, DistributeKeeps, DamageKeeps, AgeKeeps DEF Next

\* The inductive invariant of a managed host holds in every behaviour: of the
\* holder of .apply.lock, of the files, and of what sshd has read.
THEOREM Invariance == Spec => []IInv
<1>1. Init => IInv  BY Initially
<1>2. IInv /\ [Next]_vars => IInv'  BY Inductive
<1>3. QED  BY <1>1, <1>2, PTL DEF Spec

\* Every variable keeps its type, and exactly the run that writes, validates or
\* restores holds .apply.lock.
THEOREM TypeCorrect == Spec => []TypeOK
<1>1. IInv => TypeOK  BY DEF IInv
<1>2. QED  BY <1>1, Invariance, PTL

\* Whatever ledgers the overlapping runs have loaded and wherever they fail or
\* die, a valid installed KRL keeps what completed applies have distributed.
THEOREM RevocationsAlwaysStay == Spec => []RevocationsStay
<1>1. IInv => RevocationsStay  BY DEF IInv, Kept, KeysOf, RevocationsStay
<1>2. QED  BY <1>1, Invariance, PTL

\* Between applies the managed files are those of the policy applied last,
\* after any sequence of applies and failed applies that reported no mixture.
THEOREM OnePolicyAlwaysAtRest == Spec => []OnePolicyAtRest
<1>1. IInv => OnePolicyAtRest
  BY DEF IInv, OnePolicy, Matches, OnePolicyAtRest
<1>2. QED  BY <1>1, Invariance, PTL

\* At rest sshd runs with the fragment and the certificate on disk: no apply,
\* renewal or enrollment ends well with a change that sshd has not read.
THEOREM SshdAlwaysAsInstalled == Spec => []SshdAsInstalled
<1>1. IInv => SshdAsInstalled
  <2> SUFFICES ASSUME IInv, \A r \in Run : pc[r] \notin Unsettled, ~ stale
               PROVE  sshd = [conf |-> files["sshdConf"], cert |-> cert]
    BY DEF SshdAsInstalled
  <2>1. applyLock = None  BY DEF IInv, TypeOK, Unsettled
  <2>2. sshd.conf = files["sshdConf"] /\ sshd.cert = cert
    BY <2>1 DEF IInv, SshdInv, ConfRead, CertRead, Unsettled
  <2>3. QED  BY <2>2 DEF IInv, TypeOK, Sshd
<1>2. QED  BY <1>1, Invariance, PTL

-----------------------------------------------------------------------------
(***************************************************************************)
(* The fragment and the files it names.  An apply, a kill or a rollback    *)
(* may part them, but only on the way to a state without the fragment: the *)
(* support files come before it in the order of the names, which is also   *)
(* the order of a removal and of a rollback.                               *)
(***************************************************************************)

\* FragmentSupported, of the files of any moment.
Supported(fs) == fs["sshdConf"] # Absent => fs["userKrl"] # Absent /\ fs["userCa"] # Absent

\* /etc/ssh/grafhome sorts before /etc/ssh/sshd_config.d.
SupportFirst ==
  /\ "userCa" \in Path
  /\ \A i, j \in DOMAIN PathOrder :
       PathOrder[i] \in {"userKrl", "userCa"} /\ PathOrder[j] = "sshdConf" => i < j

\* The apply that removes the fragment, or the rollback to files that had none
\* or that were already unsupported.
RemovesFragment(r) ==
  \/ pc[r] = "write" /\ want["sshdConf"] = Absent
  \/ pc[r] = "restore" /\ (previous["sshdConf"] = Absent \/ ~ Supported(previous))

\* A supported fragment loses its support only to who removes it, or by hand.
SupportLostOnlyByRemoval ==
  [][FragmentSupported /\ ~ FragmentSupported' =>
       \/ \E r \in Run : RemovesFragment(r)
       \/ \E f \in Path, c \in {Absent, Damaged} : Damage(f, c)]_vars

\* Every non-empty set of natural numbers has a least element.
LEMMA LeastNatural ==
  ASSUME NEW T, T \subseteq Nat, T # {}
  PROVE  \E m \in T : \A n \in T : m <= n
<1> DEFINE R == {ss \in Nat \X Nat : ss[1] < ss[2]}
<1>1. IsWellFoundedOn(R, Nat)  BY NatLessThanWellFounded DEF OpToRel
<1> HIDE DEF R
<1>2. PICK m \in T : \A n \in T : ~ (<<n, m>> \in R)  BY <1>1, WFMin
<1>3. \A n \in T : ~ (n < m)  BY <1>2 DEF R
<1>4. QED  BY <1>2, <1>3

\* The next path is one of those left, and none of them comes before it.
LEMMA FirstIsFirst ==
  ASSUME NEW S, S \subseteq Path, S # {}
  PROVE  /\ First(S) \in S
         /\ SupportFirst /\ First(S) = "sshdConf" => "userKrl" \notin S /\ "userCa" \notin S
<1> DEFINE T == {i \in DOMAIN PathOrder : PathOrder[i] \in S}
           IsFirst(i) == /\ PathOrder[i] \in S
                         /\ \A j \in DOMAIN PathOrder : PathOrder[j] \in S => i <= j
           i == CHOOSE k \in DOMAIN PathOrder : IsFirst(k)
<1>1. DOMAIN PathOrder \subseteq Nat  BY HostSshAssumption DEF HostSshAssumption
<1>2. \A g \in S : \E k \in DOMAIN PathOrder : PathOrder[k] = g  BY DEF Path, Range
<1>3. T \subseteq Nat /\ T # {}  BY <1>1, <1>2
<1>4. \E k \in DOMAIN PathOrder : IsFirst(k)
  <2>1. PICK m \in T : \A n \in T : m <= n  BY <1>3, LeastNatural
  <2>2. QED  BY <2>1
<1>5. i \in DOMAIN PathOrder /\ IsFirst(i)  BY <1>4
<1>6. First(S) = PathOrder[i]  BY DEF First
<1> HIDE DEF i
<1>7. ASSUME SupportFirst, First(S) = "sshdConf", NEW g \in {"userKrl", "userCa"}, g \in S
      PROVE  FALSE
  <2>1. PICK k \in DOMAIN PathOrder : PathOrder[k] = g  BY <1>2, <1>7
  <2>2. i <= k /\ k < i  BY <1>5, <1>6, <1>7, <2>1 DEF SupportFirst
  <2>3. QED  BY <1>1, <1>5, <2>2
<1>8. QED  BY <1>5, <1>6, <1>7

\* Who wants a fragment wants what it names.
LEMMA WantedIsSupported ==
  ASSUME IInv, NEW r \in Run, pc[r] \in Applying, "userCa" \in Path, want["sshdConf"] # Absent
  PROVE  want["userKrl"] # Absent /\ want["userCa"] # Absent
<1> DEFINE p == seen[r]
<1>1. p \in Policy /\ want = Compiled(p, previous) /\ Matches(want, p)
  BY HolderKnows DEF Progress
<1>2. Rendered(p)["sshdConf"] # Absent
  BY <1>1, TheTypes DEF Matches
<1>3. "server" \in p.role  BY <1>1, <1>2, RenderedType
<1>4. "userKrl" \in Krl /\ "userCa" \in Path \ Krl  BY TheTypes DEF Krl
<1>5. Rendered(p)["userCa"] = Roots /\ Roots # Absent
  BY <1>3, <1>4, HostSshAssumption DEF HostSshAssumption, Rendered, PathsOf, ServerPaths
<1>6. Rendered(p)["userKrl"] \in KeyList
  <2>1. p.revoked \cap KeysFor("userKrl") \in SUBSET (UserKey \union HostKey)  BY <1>1 DEF Policy
  <2>2. Rendered(p)["userKrl"] = [keys |-> p.revoked \cap KeysFor("userKrl")]
    BY <1>3, <1>4, TheTypes DEF Rendered, PathsOf, ServerPaths
  <2>3. QED  BY <2>1, <2>2 DEF KeyList
<1>7. Rendered(p)["userKrl"] # Absent  BY <1>6, TheTypes
<1>8. QED  BY <1>1, <1>4, <1>5, <1>7 DEF Matches, ValidKrl

LEMMA WriteSupports ==
  ASSUME IInv, SupportFirst, NEW r \in Run, Write(r), Supported(files), want["sshdConf"] # Absent
  PROVE  Supported(files')
<1> DEFINE f == First(left)
<1>1. pc[r] = "write" /\ pc[r] \in Applying  BY DEF Write, Applying
<1>2. /\ left \subseteq Path /\ left # {}
      /\ \A g \in Path : files[g] = IF g \in left THEN previous[g] ELSE want[g]
  BY <1>1, HolderKnows DEF Progress, Changed
<1>3. want["userKrl"] # Absent /\ want["userCa"] # Absent
  BY <1>1, WantedIsSupported DEF SupportFirst
<1>4. f = "sshdConf" => "userKrl" \notin left /\ "userCa" \notin left
  BY <1>2, FirstIsFirst
<1>5. \A g \in Path : files'[g] = IF g = f THEN want[g] ELSE files[g]
  BY <1>1, HolderKnows DEF Write
<1>6. {"userKrl", "userCa", "sshdConf"} \subseteq Path  BY TheTypes DEF SupportFirst
<1> HIDE DEF f
<1>7. CASE f = "sshdConf"
  BY <1>2, <1>3, <1>4, <1>5, <1>6, <1>7 DEF Supported
<1>8. CASE f # "sshdConf"
  BY <1>3, <1>5, <1>6, <1>8 DEF Supported
<1>9. QED  BY <1>7, <1>8

LEMMA RestoreSupports ==
  ASSUME IInv, SupportFirst, NEW r \in Run, Restore(r), Supported(files),
         previous["sshdConf"] # Absent, Supported(previous)
  PROVE  Supported(files')
<1> DEFINE f == First(left)
<1>1. pc[r] = "restore" /\ pc[r] \in Applying  BY DEF Restore, Applying
<1>2. /\ left \subseteq Path /\ left # {}
      /\ \A g \in Path : g \notin left => files[g] = previous[g]
  BY <1>1, HolderKnows DEF Progress, IInv, TypeOK
<1>3. previous["userKrl"] # Absent /\ previous["userCa"] # Absent
  BY DEF Supported
<1>4. f = "sshdConf" => "userKrl" \notin left /\ "userCa" \notin left
  BY <1>2, FirstIsFirst
<1>5. \A g \in Path : files'[g] = IF g = f THEN previous[g] ELSE files[g]
  BY <1>1, HolderKnows DEF Restore
<1>6. {"userKrl", "userCa", "sshdConf"} \subseteq Path  BY TheTypes DEF SupportFirst
<1> HIDE DEF f
<1>7. CASE f = "sshdConf"
  BY <1>2, <1>3, <1>4, <1>5, <1>6, <1>7 DEF Supported
<1>8. CASE f # "sshdConf"
  BY <1>3, <1>5, <1>6, <1>8 DEF Supported
<1>9. QED  BY <1>7, <1>8

\* Whatever runs overlap, fail or die, an installed fragment loses the KRL or the
\* CA keys that it names only while an apply removes the fragment, while a
\* rollback goes back to files without it or already without them, or by hand.
THEOREM SupportLostByRemovalAlone ==
  ASSUME SupportFirst
  PROVE  Spec => SupportLostOnlyByRemoval
<1>1. ASSUME IInv, [Next]_vars
      PROVE  [FragmentSupported /\ ~ FragmentSupported' =>
                \/ \E r \in Run : RemovesFragment(r)
                \/ \E f \in Path, c \in {Absent, Damaged} : Damage(f, c)]_vars
  <2> SUFFICES ASSUME FragmentSupported, ~ FragmentSupported',
                      ~ \E f \in Path, c \in {Absent, Damaged} : Damage(f, c)
               PROVE  \E r \in Run : RemovesFragment(r)
    OBVIOUS
  <2>1. Supported(files) /\ ~ Supported(files')  BY DEF FragmentSupported, Supported
  <2>2. files' # files  BY <2>1
  <2>3. PICK r \in Run : Write(r) \/ Restore(r)
    BY <1>1, <2>2 DEF Next, Step, vars, fileVars, Start, StartRenewal, Acquire, Distribute, Age, Kill,
       ValidateAndReload, ApplyFails, RestoreReload, RestoreFails, Issue, Load, CommandFails
  <2>4. CASE Write(r)
    BY <1>1, <2>1, <2>4, WriteSupports DEF Write, RemovesFragment
  <2>5. CASE Restore(r)
    BY <1>1, <2>1, <2>5, RestoreSupports DEF Restore, RemovesFragment
  <2>6. QED  BY <2>3, <2>4, <2>5
<1>2. QED  BY <1>1, Invariance, PTL DEF Spec, SupportLostOnlyByRemoval
=============================================================================
