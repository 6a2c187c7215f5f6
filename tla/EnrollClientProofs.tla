-------------------------- MODULE EnrollClientProofs --------------------------
(***************************************************************************)
(* Proofs about the enrollment client: its types and the renewal lock, the *)
(* password that opens the key it is kept for, the completion that leaves  *)
(* a renewable machine, and the certificate that is not to be replaced,    *)
(* for any number of terminals and schedules, keys, passwords and faults.  *)
(***************************************************************************)
EXTENDS EnrollClientProperties, TLAPS

RenewLabels == {"renew", "renewed"}

\* A request of what is installed, of which half may be missing.
Halves == [key : Key \union {None}, jwk : Jwk \union {None}]

(***************************************************************************)
(* What an invocation carries at a label.  TypeOK is not inductive without *)
(* it: that the credential gets a password and the request names two keys  *)
(* depends on what the invocation was started with.                        *)
(***************************************************************************)
Shape(label, l) ==
  /\ label = "idle" => l = Idle
  /\ label \in RenewLabels => l.op = "renew"
  /\ label \notin RenewLabels \union {"idle"} => l.op = "enroll"
  /\ label \in {"identity", "remove", "generate", "store"} => kind = "user"
  /\ kind = "user" /\ label \in {"identity", "remove", "generate", "jwk", "store"} => l.pw \in Pw
  /\ label = "seal" => l.pw \in Pw /\ kind = "host"
  /\ label \in {"store", "publish"} => l.req \in Halves
  /\ label = "proved" => ~ l.grant.preserve
  /\ l.save => kind = "user"

\* The part of the types that is about the files, the CA and the counters.
StateOK ==
  /\ kind \in Kinds
  /\ priv \in Key \union {None} /\ pub \in Key \union {None}
  /\ cert \in Cert \union {None}
  /\ jwkPub \in Jwk \union {None} /\ jwkPriv \in Sealed \union {None}
  /\ stored \in Pw \union {None} /\ ring \in Pw \union {None}
  /\ pending \in Pair \union {None}
  /\ trusted \in BOOLEAN
  /\ pinned \in Pair \union {None}
  /\ tombstones \subseteq Key \union Jwk /\ used \subseteq Key \union Jwk
  /\ requests \subseteq Pair /\ grants \subseteq Grant
  /\ faults \in 0 .. MaxFaults /\ upsets \in 0 .. MaxUpsets

\* The part that is about the invocations.
RunsOK ==
  /\ pc \in [Run -> Labels] /\ run \in [Run -> Local]
  /\ \A r \in Run : pc[r] \in RenewLabels <=> renewLock = r
  /\ \A r \in Run : Shape(pc[r], run[r])

ShapeInv == StateOK /\ RunsOK

LEMMA ShapeIsTyped == ShapeInv => TypeOK
  BY DEF ShapeInv, StateOK, RunsOK, RenewLabels, TypeOK

LEMMA IdleShape == Idle \in Local /\ Shape("idle", Idle)
  BY DEF Idle, Local, Shape, RenewLabels

\* A step to a label leaves the invocations well formed if its own locals fit.
LEMMA GoShape ==
  ASSUME RunsOK, kind' = kind, NEW r \in Run, NEW label \in Labels, NEW locals \in Local,
         Go(r, label, locals), label \in RenewLabels <=> pc[r] \in RenewLabels, Shape(label, locals)
  PROVE  RunsOK'
<1>1. pc' \in [Run -> Labels] /\ run' \in [Run -> Local]
  BY DEF RunsOK, Go, Goto
<1>2. \A q \in Run : /\ q = r => pc'[q] = label /\ run'[q] = locals
                     /\ q # r => pc'[q] = pc[q] /\ run'[q] = run[q]
  BY DEF RunsOK, Go, Goto
<1>3. renewLock' = renewLock
  BY DEF Go
<1>4. \A q \in Run : pc'[q] \in RenewLabels <=> renewLock' = q
  BY <1>2, <1>3 DEF RunsOK
<1>5. \A q \in Run : Shape(pc[q], run[q])'
  <2> TAKE q \in Run
  <2>1. Shape(pc'[q], run'[q])
    BY <1>2 DEF RunsOK
  <2> QED
    BY <2>1 DEF Shape
<1> QED
  BY <1>1, <1>4, <1>5 DEF RunsOK

LEMMA LeaveShape ==
  ASSUME RunsOK, kind' = kind, NEW r \in Run, Leave(r)
  PROVE  RunsOK'
<1> USE EnrollClientAssumption
<1>1. pc' \in [Run -> Labels] /\ run' \in [Run -> Local]
  BY IdleShape DEF RunsOK, Leave, Goto, Labels
<1>2. \A q \in Run : /\ q = r => pc'[q] = "idle" /\ run'[q] = Idle
                     /\ q # r => pc'[q] = pc[q] /\ run'[q] = run[q]
  BY DEF RunsOK, Leave, Goto
<1>3. \A q \in Run : pc'[q] \in RenewLabels <=> renewLock' = q
  BY <1>2 DEF RunsOK, Leave, RenewLabels
<1>4. \A q \in Run : Shape(pc[q], run[q])'
  <2> TAKE q \in Run
  <2>1. Shape(pc'[q], run'[q])
    BY <1>2, IdleShape DEF RunsOK
  <2> QED
    BY <2>1 DEF Shape
<1> QED
  BY <1>1, <1>3, <1>4 DEF RunsOK

\* Being overtaken changes nothing else of an invocation.
LEMMA OvertakeFields ==
  ASSUME RunsOK, NEW r
  PROVE  /\ Overtake(r) \in [Run -> Local]
         /\ \A q \in Run : /\ Overtake(r)[q].op = run[q].op
                           /\ Overtake(r)[q].pw = run[q].pw
                           /\ Overtake(r)[q].file = run[q].file
                           /\ Overtake(r)[q].new = run[q].new
                           /\ Overtake(r)[q].grant = run[q].grant
                           /\ Overtake(r)[q].overEndless = run[q].overEndless
                           /\ q # r /\ run[q] # Idle => Overtake(r)[q].overtaken
                           /\ ~ Overtake(r)[q].overtaken => Overtake(r)[q] = run[q]
                           /\ Shape(pc[q], Overtake(r)[q])
<1>1. ASSUME NEW q \in Run
      PROVE  /\ Overtake(r)[q] \in Local
             /\ Overtake(r)[q].op = run[q].op
             /\ Overtake(r)[q].pw = run[q].pw
             /\ Overtake(r)[q].file = run[q].file
             /\ Overtake(r)[q].new = run[q].new
             /\ Overtake(r)[q].grant = run[q].grant
             /\ Overtake(r)[q].overEndless = run[q].overEndless
             /\ q # r /\ run[q] # Idle => Overtake(r)[q].overtaken
             /\ ~ Overtake(r)[q].overtaken => Overtake(r)[q] = run[q]
             /\ Shape(pc[q], Overtake(r)[q])
  <2> DEFINE l == run[q]
             m == [l EXCEPT !.overtaken = TRUE]
  <2>1. l \in Local /\ Shape(pc[q], l)
    BY DEF RunsOK
  <2>2. /\ m \in Local /\ m.op = l.op /\ m.pw = l.pw /\ m.file = l.file /\ m.overtaken
        /\ m.save = l.save /\ m.req = l.req /\ m.grant = l.grant /\ m.new = l.new
        /\ m.overEndless = l.overEndless
    BY <2>1 DEF Local
  <2>3. l # Idle => Shape(pc[q], m)
    BY <2>1, <2>2 DEF Shape
  <2>4. Overtake(r)[q] = IF q # r /\ l # Idle THEN m ELSE l
    BY DEF Overtake
  <2> HIDE DEF m
  <2> QED
    BY <2>1, <2>2, <2>3, <2>4
<1> QED
  BY <1>1 DEF Overtake

THEOREM ShapeInit == Init => ShapeInv
<1> SUFFICES ASSUME Init PROVE ShapeInv
  OBVIOUS
<1> USE EnrollClientAssumption
<1>1. StateOK
  <2>1. (CHOOSE k \in Key : TRUE) \in Key
    OBVIOUS
  <2>2. priv \in Key \union {None} /\ pub \in Key \union {None} /\ used \subseteq Key \union Jwk
    BY <2>1 DEF Init
  <2>3. /\ kind \in Kinds /\ cert = None /\ jwkPub = None /\ jwkPriv = None
        /\ stored = None /\ ring = None /\ pending = None /\ trusted = FALSE /\ pinned = None
        /\ tombstones = {} /\ requests = {} /\ grants = {} /\ faults = 0 /\ upsets = 0
    BY DEF Init
  <2>4. faults \in 0 .. MaxFaults /\ upsets \in 0 .. MaxUpsets
    BY <2>3
  <2>5. trusted \in BOOLEAN
    BY <2>3
  <2> QED
    BY <2>2, <2>3, <2>4, <2>5 DEF StateOK
<1>2. RunsOK
  BY IdleShape DEF Init, RunsOK, RenewLabels, Labels
<1> QED
  BY <1>1, <1>2 DEF ShapeInv

LEMMA StartsShape ==
  ASSUME ShapeInv, NEW r \in Run, Start(r)
  PROVE  ShapeInv'
<1> USE EnrollClientAssumption
<1>1. StateOK'
  BY DEF Start, Resume, StartEnroll, Restart, StartRenew, ShapeInv, StateOK, keyVars, credVars, caVars, counts
<1>2. kind' = kind
  BY DEF Start, Resume, StartEnroll, Restart, StartRenew
<1>3. ASSUME NEW file \in BOOLEAN, Resume(r, file)
      PROVE  RunsOK'
  <2> DEFINE l == [Idle EXCEPT !.op = "enroll", !.file = file, !.req = pending]
  <2>1. l \in Local /\ l.op = "enroll" /\ l.save = FALSE
    <3>1. pending \in Halves
      BY <1>3 DEF Resume, ShapeInv, StateOK, Pair, Halves
    <3> QED
      BY <3>1 DEF Idle, Local, Halves
  <2>2. Shape("await", l)
    BY <2>1 DEF Shape, RenewLabels
  <2> QED
    BY <1>2, <1>3, <2>1, <2>2, GoShape DEF Resume, ShapeInv, Labels, RenewLabels
<1>4. ASSUME NEW file \in BOOLEAN, NEW pw \in Pw \union {None}, StartEnroll(r, pw, file)
      PROVE  RunsOK'
  <2>1. CASE kind = "host"
    <3> DEFINE l == [Idle EXCEPT !.op = "enroll"]
    <3>1. l \in Local /\ Shape("jwk", l)
      BY <2>1 DEF Idle, Local, Shape, RenewLabels
    <3> QED
      BY <1>2, <1>4, <2>1, <3>1, GoShape DEF StartEnroll, ShapeInv, Labels, RenewLabels
  <2>2. CASE kind # "host"
    <3> DEFINE l == [Idle EXCEPT !.op = "enroll", !.pw = pw, !.file = file,
                                 !.save = ~ file /\ Lookup = None]
    <3>1. pw \in Pw /\ kind = "user" /\ (~ file /\ Lookup = None) \in BOOLEAN
      BY <1>4, <2>2 DEF StartEnroll, ShapeInv, StateOK
    <3>2. l \in Local /\ l.op = "enroll" /\ l.pw = pw
      BY <3>1 DEF Idle, Local
    <3>3. Shape("identity", l)
      BY <3>1, <3>2 DEF Shape, RenewLabels
    <3> QED
      BY <1>2, <1>4, <2>2, <3>2, <3>3, GoShape DEF StartEnroll, ShapeInv, Labels, RenewLabels
  <2> QED
    BY <2>1, <2>2
<1>5. ASSUME Restart(r)
      PROVE  RunsOK'
  <2> DEFINE l == [Idle EXCEPT !.op = "enroll", !.req = Installed]
  <2>1. Installed \in Halves /\ Installed \in Pair
    BY <1>5 DEF Restart, Installed, Pair, ShapeInv, StateOK, Halves
  <2>2. l \in Local /\ l.op = "enroll" /\ l.save = FALSE /\ l.req = Installed
    BY <2>1 DEF Idle, Local, Halves
  <2>3. Shape("publish", l)
    BY <2>1, <2>2 DEF Shape, RenewLabels
  <2> QED
    BY <1>2, <1>5, <2>2, <2>3, GoShape DEF Restart, ShapeInv, Labels, RenewLabels
<1>6. ASSUME StartRenew(r)
      PROVE  RunsOK'
  <2> DEFINE l == [Idle EXCEPT !.op = "renew", !.pw = Lookup, !.overEndless = Endless]
  <2>1. Lookup \in Pw \union {None} /\ Endless \in BOOLEAN
    BY DEF Lookup, Endless, ShapeInv, StateOK, Cert
  <2>2. l \in Local /\ l.op = "renew" /\ l.save = FALSE
    BY <2>1 DEF Idle, Local
  <2>3. Shape("renew", l)
    BY <2>2 DEF Shape, RenewLabels
  <2>4. /\ pc' = [pc EXCEPT ![r] = "renew"] /\ run' = [run EXCEPT ![r] = l]
        /\ renewLock = None /\ renewLock' = r
    BY <1>6 DEF StartRenew, Goto
  <2>5. pc' \in [Run -> Labels] /\ run' \in [Run -> Local]
    BY <2>2, <2>4 DEF ShapeInv, RunsOK, Labels
  <2>6. \A q \in Run : /\ q = r => pc'[q] = "renew" /\ run'[q] = l
                       /\ q # r => pc'[q] = pc[q] /\ run'[q] = run[q]
    BY <2>4 DEF ShapeInv, RunsOK
  <2>7. \A q \in Run : pc'[q] \in RenewLabels <=> renewLock' = q
    BY <2>4, <2>6 DEF ShapeInv, RunsOK, RenewLabels
  <2>8. \A q \in Run : Shape(pc[q], run[q])'
    <3> TAKE q \in Run
    <3>1. Shape(pc'[q], run'[q])
      BY <2>3, <2>6 DEF ShapeInv, RunsOK
    <3> QED
      BY <1>2, <3>1 DEF Shape
  <2> QED
    BY <2>5, <2>7, <2>8 DEF RunsOK
<1> QED
  BY <1>1, <1>3, <1>4, <1>5, <1>6 DEF Start, ShapeInv

-----------------------------------------------------------------------------
(***************************************************************************)
(* The steps of an enrollment that make the key material.                  *)
(***************************************************************************)

LEMMA FreshIsNew ==
  ASSUME NEW S, S \ used # {}
  PROVE  Fresh(S) \in S /\ Fresh(S) \notin used
BY DEF Fresh

LEMMA MaterialShape ==
  ASSUME ShapeInv, NEW r \in Run, Material(r)
  PROVE  ShapeInv'
<1> USE EnrollClientAssumption
<1>1. kind' = kind
  BY DEF Material, HostPassword, UseIdentity, ReplaceIdentity, RemoveIdentity, GenerateIdentity,
         GenerateTorn, UseCredential, CreateCredential, StorePassword
<1>2. /\ RunsOK /\ StateOK /\ run[r] \in Local /\ Shape(pc[r], run[r])
      /\ run[r].req \in Halves \union {None}
  BY DEF ShapeInv, RunsOK, Local, Halves
<1>3. ASSUME HostPassword(r)
      PROVE  ShapeInv'
  <2> DEFINE pw == CHOOSE w \in Pw : w # stored
             l == [run[r] EXCEPT !.pw = pw]
  <2>1. pw \in Pw
    BY <1>2 DEF StateOK
  <2> HIDE DEF pw
  <2>2. l \in Local /\ l.op = run[r].op /\ l.pw = pw /\ l.save = run[r].save
    BY <1>2, <2>1 DEF Local
  <2> HIDE DEF l
  <2>3. pc[r] = "jwk" /\ kind = "host" /\ Go(r, "seal", l) /\ stored' = pw
    BY <1>3 DEF HostPassword, pw, l
  <2>4. Shape("seal", l)
    BY <1>2, <2>1, <2>2, <2>3 DEF Shape, RenewLabels
  <2>5. StateOK'
    BY <1>2, <1>3, <2>1, <2>3 DEF HostPassword, StateOK, keyVars, caVars, counts
  <2>6. RunsOK'
    BY <1>1, <1>2, <2>2, <2>3, <2>4, GoShape DEF Labels, RenewLabels
  <2> QED
    BY <2>5, <2>6 DEF ShapeInv
<1>4. ASSUME UseIdentity(r)
      PROVE  ShapeInv'
  <2>1. StateOK'
    BY <1>2, <1>4 DEF UseIdentity, StateOK, keyVars, credVars, caVars, counts
  <2>2. Shape("generate", run[r]) /\ Shape("jwk", run[r])
    BY <1>2, <1>4 DEF UseIdentity, Shape, RenewLabels
  <2>3. RunsOK'
    BY <1>1, <1>2, <1>4, <2>2, GoShape DEF UseIdentity, Labels, RenewLabels
  <2> QED
    BY <2>1, <2>3 DEF ShapeInv
<1>5. ASSUME ReplaceIdentity(r)
      PROVE  ShapeInv'
  <2>1. StateOK'
    BY <1>2, <1>5 DEF ReplaceIdentity, Upset, StateOK, keyVars, credVars, caVars, counts
  <2> DEFINE l == [Overtake(r)[r] EXCEPT !.left = IdentityFiles]
  <2>2. Overtake(r)[r] \in Local /\ Shape("identity", Overtake(r)[r]) /\ kind = "user"
    BY <1>2, <1>5, OvertakeFields DEF ReplaceIdentity, Shape
  <2>3. IdentityFiles \in SUBSET {"priv", "pub", "cert"}
    BY DEF IdentityFiles
  <2>4. /\ l \in Local /\ l.op = Overtake(r)[r].op /\ l.pw = Overtake(r)[r].pw
        /\ l.save = Overtake(r)[r].save
    BY <2>2, <2>3 DEF Local
  <2>5. /\ run' = [Overtake(r) EXCEPT ![r] = l] /\ pc' = [pc EXCEPT ![r] = "remove"]
        /\ renewLock' = renewLock /\ pc[r] = "identity"
    BY <1>5 DEF ReplaceIdentity, Goto
  <2> HIDE DEF l
  <2>6. Shape("remove", l)
    BY <2>2, <2>4 DEF Shape, RenewLabels
  <2>7. pc' \in [Run -> Labels] /\ run' \in [Run -> Local]
    BY <1>2, <2>4, <2>5, OvertakeFields DEF RunsOK, Labels
  <2>8. \A q \in Run : /\ q = r => pc'[q] = "remove" /\ run'[q] = l
                       /\ q # r => pc'[q] = pc[q] /\ run'[q] = Overtake(r)[q]
    BY <1>2, <2>5, OvertakeFields DEF RunsOK
  <2>9. \A q \in Run : pc'[q] \in RenewLabels <=> renewLock' = q
    BY <1>2, <2>5, <2>8 DEF RunsOK, RenewLabels
  <2>10. \A q \in Run : Shape(pc[q], run[q])'
    <3> TAKE q \in Run
    <3>1. Shape(pc'[q], run'[q])
      BY <1>2, <2>6, <2>8, OvertakeFields
    <3> QED
      BY <1>1, <3>1 DEF Shape
  <2> QED
    BY <2>1, <2>7, <2>9, <2>10 DEF RunsOK, ShapeInv
<1>6. ASSUME RemoveIdentity(r)
      PROVE  ShapeInv'
  <2> DEFINE f == IF "priv" \in run[r].left THEN "priv" ELSE IF "pub" \in run[r].left THEN "pub" ELSE "cert"
             l == [run[r] EXCEPT !.left = @ \ {f}]
  <2>1. StateOK'
    BY <1>2, <1>6 DEF RemoveIdentity, StateOK, credVars, caVars, counts
  <2>2. run[r].left \ {f} \in SUBSET {"priv", "pub", "cert"}
    BY <1>2 DEF Local
  <2>3. l \in Local /\ l.op = run[r].op /\ l.pw = run[r].pw /\ l.save = run[r].save
    BY <1>2, <2>2 DEF Local
  <2>4. pc[r] = "remove" /\ (Go(r, "generate", l) \/ Go(r, "remove", l))
    BY <1>6 DEF RemoveIdentity
  <2> HIDE DEF l
  <2>5. Shape("generate", l) /\ Shape("remove", l)
    BY <1>2, <2>3, <2>4 DEF Shape, RenewLabels
  <2>6. RunsOK'
    BY <1>1, <1>2, <2>3, <2>4, <2>5, GoShape DEF Labels, RenewLabels
  <2> QED
    BY <2>1, <2>6 DEF ShapeInv
<1>7. ASSUME GenerateIdentity(r)
      PROVE  ShapeInv'
  <2>1. StateOK'
    BY <1>2, <1>7, FreshIsNew DEF GenerateIdentity, StateOK, credVars, caVars, counts
  <2>2. Shape("jwk", run[r])
    BY <1>2, <1>7 DEF GenerateIdentity, Shape, RenewLabels
  <2>3. RunsOK'
    BY <1>1, <1>2, <1>7, <2>2, GoShape DEF GenerateIdentity, Labels, RenewLabels
  <2> QED
    BY <2>1, <2>3 DEF ShapeInv
<1>8. ASSUME GenerateTorn(r)
      PROVE  ShapeInv'
  <2>1. faults' \in 0 .. MaxFaults /\ upsets' \in 0 .. MaxUpsets
    BY <1>2, <1>8 DEF GenerateTorn, Fault, StateOK
  <2>2. StateOK'
    BY <1>2, <1>8, <2>1, FreshIsNew DEF GenerateTorn, StateOK, credVars, caVars
  <2>3. RunsOK'
    BY <1>1, <1>2, <1>8, LeaveShape DEF GenerateTorn
  <2> QED
    BY <2>2, <2>3 DEF ShapeInv
<1>9. ASSUME UseCredential(r)
      PROVE  ShapeInv'
  <2> DEFINE l == [run[r] EXCEPT !.req = Installed]
  <2>1. StateOK'
    BY <1>2, <1>9 DEF UseCredential, StateOK, keyVars, credVars, caVars, counts
  <2>2. Installed \in Halves
    BY <1>2 DEF StateOK, Installed, Halves
  <2>4. l \in Local /\ l.op = run[r].op /\ l.pw = run[r].pw /\ l.save = run[r].save /\ l.req = Installed
    BY <1>2, <2>2 DEF Local, Halves
  <2>5. pc[r] = "jwk" /\ Go(r, IF run[r].save THEN "store" ELSE "publish", l)
    BY <1>9 DEF UseCredential
  <2> HIDE DEF l
  <2>6. Shape("publish", l) /\ (run[r].save => Shape("store", l))
    BY <1>2, <2>2, <2>4, <2>5 DEF Shape, RenewLabels
  <2>7. RunsOK'
    BY <1>1, <1>2, <2>4, <2>5, <2>6, GoShape DEF Labels, RenewLabels
  <2> QED
    BY <2>1, <2>7 DEF ShapeInv
<1>10. ASSUME CreateCredential(r)
       PROVE  ShapeInv'
  <2> DEFINE q == [key |-> pub, jwk |-> Fresh(Jwk)]
             l == [run[r] EXCEPT !.req = q]
  <2>1. pc[r] \in {"seal", "jwk"} /\ run[r].pw \in Pw /\ Fresh(Jwk) \in Jwk
    BY <1>2, <1>10, FreshIsNew DEF CreateCredential, Shape
  <2>2. faults' \in 0 .. MaxFaults /\ upsets' \in 0 .. MaxUpsets
    BY <1>2, <1>10 DEF CreateCredential, Fault, StateOK, counts
  <2>3. jwkPriv' \in Sealed \union {None}
    BY <1>2, <1>10, <2>1 DEF CreateCredential, StateOK, Sealed
  <2>4. StateOK'
    BY <1>2, <1>10, <2>1, <2>2, <2>3 DEF CreateCredential, StateOK, keyVars, caVars
  <2>5. q \in Halves
    BY <1>2, <2>1 DEF StateOK, Halves
  <2>7. l \in Local /\ l.op = run[r].op /\ l.pw = run[r].pw /\ l.save = run[r].save /\ l.req = q
    BY <1>2, <2>5 DEF Local, Halves
  <2>8. \/ Go(r, IF run[r].save THEN "store" ELSE "publish", l)
        \/ Leave(r)
    BY <1>10 DEF CreateCredential
  <2> HIDE DEF l, q
  <2>9. Shape("publish", l) /\ (run[r].save => Shape("store", l))
    BY <1>2, <2>1, <2>5, <2>7 DEF Shape, RenewLabels
  <2>10. RunsOK'
    <3>1. CASE Leave(r)
      BY <1>1, <1>2, <3>1, LeaveShape
    <3>2. CASE Go(r, IF run[r].save THEN "store" ELSE "publish", l)
      BY <1>1, <1>2, <2>1, <2>7, <2>9, <3>2, GoShape DEF Labels, RenewLabels
    <3> QED
      BY <2>8, <3>1, <3>2
  <2> QED
    BY <2>4, <2>10 DEF ShapeInv
<1>11. ASSUME NEW inRing \in BOOLEAN, StorePassword(r, inRing)
       PROVE  ShapeInv'
  <2>1. run[r].pw \in Pw
    BY <1>2, <1>11 DEF StorePassword, Shape
  <2>2. StateOK'
    BY <1>2, <1>11, <2>1 DEF StorePassword, StateOK, keyVars, caVars, counts
  <2>3. Shape("publish", run[r])
    BY <1>2, <1>11 DEF StorePassword, Shape, RenewLabels
  <2>4. RunsOK'
    BY <1>1, <1>2, <1>11, <2>3, GoShape DEF StorePassword, Labels, RenewLabels
  <2> QED
    BY <2>2, <2>4 DEF ShapeInv
<1> QED
  BY <1>3, <1>4, <1>5, <1>6, <1>7, <1>8, <1>9, <1>10, <1>11 DEF Material

-----------------------------------------------------------------------------
(***************************************************************************)
(* The steps from the request to the end, and the renewal.                 *)
(***************************************************************************)

LEMMA EnrollingShape ==
  ASSUME ShapeInv, NEW r \in Run, Enrolling(r)
  PROVE  ShapeInv'
<1> USE EnrollClientAssumption
<1>1. kind' = kind
  BY DEF Enrolling, Publish, TakeGrant, Issue, WriteCert, Prove, Finish
<1>2. /\ RunsOK /\ StateOK /\ run[r] \in Local /\ Shape(pc[r], run[r])
      /\ run[r].grant \in Grant \union {None} /\ run[r].new \in Cert \union {None}
  BY DEF ShapeInv, RunsOK, Local
<1>3. ASSUME Publish(r)
      PROVE  ShapeInv'
  <2>1. run[r].req \in Pair
    BY <1>2, <1>3 DEF Publish, Shape, Halves, Pair
  <2>2. StateOK'
    BY <1>2, <1>3, <2>1 DEF Publish, StateOK, keyVars, credVars, caVars, counts
  <2>3. Shape("await", run[r])
    BY <1>2, <1>3 DEF Publish, Shape, RenewLabels
  <2>4. RunsOK'
    BY <1>1, <1>2, <1>3, <2>3, GoShape DEF Publish, Labels, RenewLabels
  <2> QED
    BY <2>2, <2>4 DEF ShapeInv
<1>4. ASSUME NEW g \in grants, TakeGrant(r, g)
      PROVE  ShapeInv'
  <2> DEFINE l == [run[r] EXCEPT !.grant = g]
  <2>1. g \in Grant
    BY <1>2 DEF StateOK
  <2>2. StateOK'
    BY <1>2, <1>4 DEF TakeGrant, StateOK, keyVars, credVars, caVars, counts
  <2>3. l \in Local /\ l.op = run[r].op /\ l.save = run[r].save
    BY <1>2, <2>1 DEF Local
  <2>4. pc[r] = "await" /\ Go(r, "issue", l)
    BY <1>4 DEF TakeGrant
  <2> HIDE DEF l
  <2>5. Shape("issue", l)
    BY <1>2, <2>3, <2>4 DEF Shape, RenewLabels
  <2>6. RunsOK'
    BY <1>1, <1>2, <2>3, <2>4, <2>5, GoShape DEF Labels, RenewLabels
  <2> QED
    BY <2>2, <2>6 DEF ShapeInv
<1>5. ASSUME Issue(r)
      PROVE  ShapeInv'
  <2> DEFINE c == [key |-> pub, endless |-> run[r].grant.preserve, due |-> FALSE]
             l == [run[r] EXCEPT !.new = c]
  <2>1. run[r].grant \in Grant /\ pub = run[r].grant.pair.key
    BY <1>2, <1>5 DEF Issue, Issuable, StateOK
  <2>2. c \in Cert
    BY <2>1 DEF Grant, Pair, Cert
  <2>3. StateOK'
    BY <1>2, <1>5 DEF Issue, StateOK, keyVars, credVars, counts
  <2>4. pc[r] = "issue" /\ Go(r, "write", l)
    BY <1>5 DEF Issue
  <2> HIDE DEF c
  <2>5. l \in Local /\ l.op = run[r].op /\ l.save = run[r].save
    BY <1>2, <2>2 DEF Local
  <2> HIDE DEF l
  <2>6. Shape("write", l)
    BY <1>2, <2>4, <2>5 DEF Shape, RenewLabels
  <2>7. RunsOK'
    BY <1>1, <1>2, <2>4, <2>5, <2>6, GoShape DEF Labels, RenewLabels
  <2> QED
    BY <2>3, <2>7 DEF ShapeInv
<1>6. ASSUME WriteCert(r)
      PROVE  ShapeInv'
  <2> DEFINE l == [run[r] EXCEPT !.new = None]
  <2>1. StateOK'
    BY <1>2, <1>6 DEF WriteCert, StateOK, credVars, caVars, counts
  <2>2. l \in Local /\ l.op = run[r].op /\ l.save = run[r].save /\ l.grant = run[r].grant
    BY <1>2 DEF Local
  <2>3. /\ pc[r] \in {"write", "proved", "renewed"}
        /\ pc[r] = "write" => Go(r, "prove", l)
        /\ pc[r] = "proved" => Go(r, "finish", l)
        /\ pc[r] = "renewed" => Leave(r)
    BY <1>6 DEF WriteCert
  <2> HIDE DEF l
  <2>4. /\ pc[r] = "write" => Shape("prove", l)
        /\ pc[r] = "proved" => Shape("finish", l)
    BY <1>2, <2>2, <2>3 DEF Shape, RenewLabels
  <2>5. ASSUME pc[r] = "write" PROVE RunsOK'
    BY <1>1, <1>2, <2>2, <2>3, <2>4, <2>5, GoShape DEF Labels, RenewLabels
  <2>6. ASSUME pc[r] = "proved" PROVE RunsOK'
    BY <1>1, <1>2, <2>2, <2>3, <2>4, <2>6, GoShape DEF Labels, RenewLabels
  <2>7. ASSUME pc[r] = "renewed" PROVE RunsOK'
    BY <1>1, <1>2, <2>3, <2>7, LeaveShape
  <2> QED
    BY <2>1, <2>3, <2>5, <2>6, <2>7 DEF ShapeInv
<1>7. ASSUME Prove(r)
      PROVE  ShapeInv'
  <2> DEFINE l == [run[r] EXCEPT !.new = RenewalOf(pub)]
  <2>1. StateOK'
    BY <1>2, <1>7 DEF Prove, StateOK, keyVars, credVars, caVars, counts
  <2>2. RenewalOf(pub) \in Cert
    BY <1>2, <1>7 DEF Prove, Provable, Renews, RenewalOf, Cert, StateOK
  <2>3. /\ pc[r] = "prove"
        /\ run[r].grant.preserve => Go(r, "finish", run[r])
        /\ ~ run[r].grant.preserve => Go(r, "proved", l)
    BY <1>7 DEF Prove
  <2>4. l \in Local /\ l.op = run[r].op /\ l.save = run[r].save /\ l.grant = run[r].grant
    BY <1>2, <2>2 DEF Local
  <2> HIDE DEF l
  <2>5. Shape("finish", run[r]) /\ (~ run[r].grant.preserve => Shape("proved", l))
    BY <1>2, <2>3, <2>4 DEF Shape, RenewLabels
  <2>6. ASSUME run[r].grant.preserve PROVE RunsOK'
    BY <1>1, <1>2, <2>3, <2>5, <2>6, GoShape DEF Labels, RenewLabels
  <2>7. ASSUME ~ run[r].grant.preserve PROVE RunsOK'
    BY <1>1, <1>2, <2>3, <2>4, <2>5, <2>7, GoShape DEF Labels, RenewLabels
  <2> QED
    BY <2>1, <2>6, <2>7 DEF ShapeInv
<1>8. ASSUME Finish(r)
      PROVE  ShapeInv'
  <2>1. StateOK'
    BY <1>2, <1>8 DEF Finish, StateOK, keyVars, credVars, caVars, counts
  <2>2. RunsOK'
    BY <1>1, <1>2, <1>8, LeaveShape DEF Finish
  <2> QED
    BY <2>1, <2>2 DEF ShapeInv
<1> QED
  BY <1>3, <1>4, <1>5, <1>6, <1>7, <1>8 DEF Enrolling

LEMMA RenewShape ==
  ASSUME ShapeInv, NEW r \in Run, Renew(r)
  PROVE  ShapeInv'
<1> USE EnrollClientAssumption
<1> DEFINE l == [run[r] EXCEPT !.new = RenewalOf(pub)]
<1>1. StateOK'
  BY DEF Renew, ShapeInv, StateOK, keyVars, credVars, caVars, counts
<1>2. RenewalOf(pub) \in Cert
  BY DEF Renew, Renews, RenewalOf, Cert, ShapeInv, StateOK
<1>3. l \in Local /\ l.op = run[r].op /\ l.save = run[r].save
  BY <1>2 DEF Local, ShapeInv, RunsOK
<1>4. pc[r] = "renew" /\ Go(r, "renewed", l) /\ kind' = kind
  BY DEF Renew
<1> HIDE DEF l
<1>5. Shape(pc[r], run[r])
  BY DEF ShapeInv, RunsOK
<1>6. Shape("renewed", l)
  BY <1>3, <1>4, <1>5 DEF Shape, RenewLabels
<1>7. RunsOK'
  BY <1>3, <1>4, <1>6, GoShape DEF ShapeInv, Labels, RenewLabels
<1> QED
  BY <1>1, <1>7 DEF ShapeInv

\* An invocation that ends early, by whatever path.
LEMMA EndsShape ==
  ASSUME ShapeInv, NEW r \in Run, Refused(r) \/ Cancel(r) \/ Cut(r)
  PROVE  ShapeInv'
<1> USE EnrollClientAssumption
<1>1. faults' \in 0 .. MaxFaults /\ upsets' \in 0 .. MaxUpsets
  BY DEF Refused, Cancel, Cut, Fault, counts, ShapeInv, StateOK
<1>2. StateOK'
  BY <1>1 DEF Refused, Cancel, Cut, ShapeInv, StateOK, keyVars, credVars, caVars
<1>3. Leave(r) /\ kind' = kind
  BY DEF Refused, Cancel, Cut
<1>4. RunsOK'
  BY <1>3, LeaveShape DEF ShapeInv
<1> QED
  BY <1>2, <1>4 DEF ShapeInv

-----------------------------------------------------------------------------
(***************************************************************************)
(* The steps of the CA, the clock and the operators.                       *)
(***************************************************************************)

\* They leave the invocations where they are, at most overtaken.
Elsewhere ==
  \/ \E q \in requests, preserve \in BOOLEAN : Approve(q, preserve)
  \/ \E g \in grants : GrantEnds(g)
  \/ Revoke \/ RemoveMaterial \/ Forget \/ Age

LEMMA ElsewhereRuns ==
  ASSUME Elsewhere
  PROVE  /\ UNCHANGED <<kind, pc, renewLock>>
         /\ run' = run \/ run' = Overtake(None)
BY DEF Elsewhere, Approve, GrantEnds, Revoke, RemoveMaterial, Forget, Age

LEMMA ElsewhereShape ==
  ASSUME ShapeInv, Elsewhere
  PROVE  ShapeInv'
<1> USE EnrollClientAssumption
<1>1. RunsOK'
  <2>1. run' \in [Run -> Local] /\ \A q \in Run : Shape(pc[q], run'[q])
    BY ElsewhereRuns, OvertakeFields DEF ShapeInv, RunsOK
  <2>2. \A q \in Run : Shape(pc[q], run[q])'
    BY <2>1, ElsewhereRuns DEF Shape
  <2> QED
    BY <2>1, <2>2, ElsewhereRuns DEF ShapeInv, RunsOK
<1>2. ASSUME NEW q \in requests, NEW preserve \in BOOLEAN, Approve(q, preserve)
      PROVE  StateOK'
  <2>1. q \in Pair /\ [pair |-> q, preserve |-> preserve] \in Grant
    BY DEF ShapeInv, StateOK, Grant
  <2> QED
    BY <1>2, <2>1 DEF Approve, ShapeInv, StateOK, keyVars, credVars, counts
<1>3. ASSUME NEW g \in grants, GrantEnds(g)
      PROVE  StateOK'
  BY <1>3 DEF GrantEnds, ShapeInv, StateOK, keyVars, credVars, counts
<1>4. ASSUME Revoke
      PROVE  StateOK'
  <2>1. pinned.key \in Key /\ pinned.jwk \in Jwk
    BY <1>4 DEF Revoke, ShapeInv, StateOK, Pair
  <2>2. faults' \in 0 .. MaxFaults /\ upsets' \in 0 .. MaxUpsets
    BY <1>4 DEF Revoke, Upset, ShapeInv, StateOK
  <2> QED
    BY <1>4, <2>1, <2>2 DEF Revoke, ShapeInv, StateOK, keyVars, credVars
<1>5. ASSUME RemoveMaterial
      PROVE  StateOK'
  <2>1. faults' \in 0 .. MaxFaults /\ upsets' \in 0 .. MaxUpsets
    BY <1>5 DEF RemoveMaterial, Upset, ShapeInv, StateOK
  <2> QED
    BY <1>5, <2>1 DEF RemoveMaterial, ShapeInv, StateOK, keyVars, caVars
<1>6. ASSUME Forget
      PROVE  StateOK'
  <2>1. faults' \in 0 .. MaxFaults /\ upsets' \in 0 .. MaxUpsets
    BY <1>6 DEF Forget, Upset, ShapeInv, StateOK
  <2> QED
    BY <1>6, <2>1 DEF Forget, ShapeInv, StateOK, keyVars, caVars
<1>7. ASSUME Age
      PROVE  StateOK'
  <2>1. cert' \in Cert
    BY <1>7 DEF Age, ShapeInv, StateOK, Cert
  <2> QED
    BY <1>7, <2>1 DEF Age, ShapeInv, StateOK, credVars, caVars, counts
<1> QED
  BY <1>1, <1>2, <1>3, <1>4, <1>5, <1>6, <1>7 DEF Elsewhere, ShapeInv

LEMMA NextCases ==
  ASSUME Next
  PROVE  \/ Elsewhere
         \/ \E r \in Run : \/ Start(r) \/ Material(r) \/ Enrolling(r) \/ Renew(r)
                           \/ Refused(r) \/ Cancel(r) \/ Cut(r)
BY DEF Next, Step, Elsewhere

THEOREM ShapeNext ==
  ASSUME ShapeInv, [Next]_vars
  PROVE  ShapeInv'
<1>1. CASE Next
  BY <1>1, NextCases, ElsewhereShape, StartsShape, MaterialShape, EnrollingShape, RenewShape, EndsShape
<1>2. CASE UNCHANGED vars
  BY <1>2 DEF vars, keyVars, credVars, caVars, counts, ShapeInv, StateOK, RunsOK, Shape
<1> QED
  BY <1>1, <1>2

THEOREM ShapeInvariant == Spec => []ShapeInv
  BY ShapeInit, ShapeNext, PTL DEF Spec

\* Files, credentials and invocations keep their types, and exactly the renewal
\* that signs or writes holds the renewal lock, for any number of schedules.
THEOREM TypeCorrect == Spec => []TypeOK
  BY ShapeInvariant, ShapeIsTyped, PTL

-----------------------------------------------------------------------------
(***************************************************************************)
(* The password kept for unattended renewal.  That it opens the key is not *)
(* inductive: while a host keeps a password for a key still to be made, or *)
(* a user has a key whose password is still to be stored, no other         *)
(* enrollment may change the two in between.                               *)
(***************************************************************************)

Enrolls(r) == pc[r] \notin RenewLabels \union {"idle"}

Exclusive == \A q, r \in Run : Enrolls(q) /\ Enrolls(r) => q = r

PasswordOK ==
  /\ StoredPasswordOpens
  /\ kind = "user" /\ stored # None => jwkPriv # None
  /\ \A r \in Run : pc[r] = "seal" => stored = run[r].pw
  /\ \A r \in Run : pc[r] = "store" => jwkPriv # None /\ jwkPriv.pw = run[r].pw

PasswordInv == ShapeInv /\ Exclusive /\ PasswordOK

LEMMA NobodyEnrolls ==
  ASSUME ShapeInv, NoEnrollment
  PROVE  \A q \in Run : ~ Enrolls(q)
BY DEF ShapeInv, RunsOK, Shape, Enrolls, NoEnrollment

\* A step of r to label moves nobody else.
LEMMA GoMoves ==
  ASSUME RunsOK, NEW r \in Run, NEW label, NEW locals, Go(r, label, locals)
  PROVE  /\ pc'[r] = label /\ run'[r] = locals
         /\ \A q \in Run \ {r} : pc'[q] = pc[q] /\ run'[q] = run[q]
BY DEF RunsOK, Go, Goto

LEMMA LeaveMoves ==
  ASSUME RunsOK, NEW r \in Run, Leave(r)
  PROVE  /\ pc'[r] = "idle" /\ run'[r] = Idle
         /\ \A q \in Run \ {r} : pc'[q] = pc[q] /\ run'[q] = run[q]
BY DEF RunsOK, Leave, Goto

\* A start, which for an enrollment is the only one.
LEMMA StartMoves ==
  ASSUME ShapeInv, NEW r \in Run, Start(r)
  PROVE  /\ pc'[r] \in {"await", "jwk", "identity", "publish", "renew"}
         /\ pc'[r] # "renew" => \A q \in Run : ~ Enrolls(q)
         /\ pc[r] = "idle"
         /\ \A q \in Run \ {r} : pc'[q] = pc[q] /\ run'[q] = run[q]
         /\ UNCHANGED <<kind, keyVars, credVars, pending, trusted, caVars>>
<1>1. CASE StartRenew(r)
  BY <1>1 DEF StartRenew, Goto, ShapeInv, RunsOK
<1>2. CASE \E file \in BOOLEAN : Resume(r, file)
  BY <1>2, GoMoves, NobodyEnrolls DEF Resume, ShapeInv
<1>3. CASE \E file \in BOOLEAN, pw \in Pw \union {None} : StartEnroll(r, pw, file)
  <2>1. PICK file \in BOOLEAN, pw \in Pw \union {None} : StartEnroll(r, pw, file)
    BY <1>3
  <2>2. \E label \in {"jwk", "identity"} : \E l : Go(r, label, l)
    BY <2>1 DEF StartEnroll
  <2>3. PICK label \in {"jwk", "identity"} : \E l : Go(r, label, l)
    BY <2>2
  <2> QED
    BY <2>1, <2>3, GoMoves, NobodyEnrolls DEF StartEnroll, ShapeInv
<1>4. CASE Restart(r)
  BY <1>4, GoMoves, NobodyEnrolls DEF Restart, ShapeInv
<1> QED
  BY <1>1, <1>2, <1>3, <1>4 DEF Start

\* A step on the way enrolls nobody who did not enroll, and moves nobody else.
LEMMA StepMoves ==
  ASSUME ShapeInv, NEW r \in Run,
         Material(r) \/ Enrolling(r) \/ Renew(r) \/ Refused(r) \/ Cancel(r) \/ Cut(r)
  PROVE  /\ Enrolls(r)' => Enrolls(r)
         /\ \A q \in Run \ {r} : pc'[q] = pc[q]
<1>1. RunsOK
  BY DEF ShapeInv
<1>2. CASE Material(r)
  <2>1. CASE ReplaceIdentity(r)
    BY <1>1, <2>1 DEF ReplaceIdentity, Goto, RunsOK, Enrolls, RenewLabels
  <2>2. CASE \/ HostPassword(r) \/ UseIdentity(r) \/ RemoveIdentity(r) \/ GenerateIdentity(r)
             \/ GenerateTorn(r) \/ UseCredential(r) \/ CreateCredential(r)
             \/ \E inRing \in BOOLEAN : StorePassword(r, inRing)
    <3>1. Enrolls(r)
      BY <2>2 DEF HostPassword, UseIdentity, RemoveIdentity, GenerateIdentity, GenerateTorn,
                  UseCredential, CreateCredential, StorePassword, Enrolls, RenewLabels
    <3>2. Leave(r) \/ \E label, l : Go(r, label, l)
      BY <2>2 DEF HostPassword, UseIdentity, RemoveIdentity, GenerateIdentity, GenerateTorn,
                  UseCredential, CreateCredential, StorePassword
    <3> QED
      BY <1>1, <3>1, <3>2, GoMoves, LeaveMoves
  <2> QED
    BY <1>2, <2>1, <2>2 DEF Material
<1>3. CASE Enrolling(r)
  <2>1. CASE WriteCert(r) /\ pc[r] = "renewed"
    BY <1>1, <2>1, LeaveMoves DEF WriteCert, Enrolls, RenewLabels
  <2>2. CASE ~ (WriteCert(r) /\ pc[r] = "renewed")
    <3>1. Enrolls(r)
      BY <1>3, <2>2 DEF Enrolling, Publish, TakeGrant, Issue, WriteCert, Prove, Finish, Enrolls, RenewLabels
    <3>2. Leave(r) \/ \E label, l : Go(r, label, l)
      BY <1>3 DEF Enrolling, Publish, TakeGrant, Issue, WriteCert, Prove, Finish
    <3> QED
      BY <1>1, <3>1, <3>2, GoMoves, LeaveMoves
  <2> QED
    BY <2>1, <2>2
<1>4. CASE Renew(r)
  BY <1>1, <1>4, GoMoves DEF Renew, Enrolls, RenewLabels
<1>5. CASE Refused(r) \/ Cancel(r) \/ Cut(r)
  BY <1>1, <1>5, LeaveMoves DEF Refused, Cancel, Cut, Enrolls, RenewLabels
<1> QED
  BY <1>2, <1>3, <1>4, <1>5

LEMMA ExclusiveNext ==
  ASSUME ShapeInv, Exclusive, [Next]_vars
  PROVE  Exclusive'
<1>1. ASSUME NEW r \in Run, Start(r)
      PROVE  Exclusive'
  BY <1>1, StartMoves DEF Exclusive, Enrolls, RenewLabels
<1>2. ASSUME NEW r \in Run,
             Material(r) \/ Enrolling(r) \/ Renew(r) \/ Refused(r) \/ Cancel(r) \/ Cut(r)
      PROVE  Exclusive'
  BY <1>2, StepMoves DEF Exclusive, Enrolls
<1>3. CASE Elsewhere
  BY <1>3, ElsewhereRuns DEF Exclusive, Enrolls
<1>4. CASE UNCHANGED vars
  BY <1>4 DEF vars, Exclusive, Enrolls
<1> QED
  BY <1>1, <1>2, <1>3, <1>4, NextCases

\* A step that changes neither the password nor the key, and brings nobody to
\* where one is made for the other.
Kept ==
  /\ UNCHANGED <<kind, stored, jwkPriv>>
  /\ \A q \in Run : pc'[q] \in {"seal", "store"} => pc[q] = pc'[q] /\ run'[q].pw = run[q].pw

LEMMA KeptPasswords ==
  ASSUME PasswordOK, Kept
  PROVE  PasswordOK'
BY DEF PasswordOK, StoredPasswordOpens, Kept

LEMMA MaterialPasswords ==
  ASSUME PasswordInv, NEW r \in Run, Material(r)
  PROVE  PasswordOK'
<1> USE EnrollClientAssumption
<1>1. RunsOK /\ Shape(pc[r], run[r]) /\ StateOK
  BY DEF PasswordInv, ShapeInv, RunsOK
<1>2. ASSUME Enrolls(r)
      PROVE  \A q \in Run \ {r} : pc[q] \notin {"seal", "store"}
  BY <1>2 DEF PasswordInv, Exclusive, Enrolls, RenewLabels
<1>3. ASSUME HostPassword(r)
      PROVE  PasswordOK'
  <2> DEFINE pw == CHOOSE w \in Pw : w # stored
             l == [run[r] EXCEPT !.pw = pw]
  <2>1. pc[r] = "jwk" /\ kind = "host" /\ jwkPriv = None /\ Go(r, "seal", l) /\ stored' = pw
    BY <1>3 DEF HostPassword
  <2>2. l.pw = pw
    BY <1>1 DEF RunsOK, Local
  <2>3. kind' = kind /\ jwkPriv' = jwkPriv
    BY <1>3 DEF HostPassword
  <2> HIDE DEF pw, l
  <2>4. pc'[r] = "seal" /\ run'[r].pw = pw /\ \A q \in Run \ {r} : pc'[q] = pc[q]
    BY <1>1, <2>1, <2>2, GoMoves
  <2>5. \A q \in Run \ {r} : pc'[q] \notin {"seal", "store"}
    BY <1>2, <2>1, <2>4 DEF Enrolls, RenewLabels
  <2> QED
    BY <2>1, <2>3, <2>4, <2>5 DEF PasswordOK, StoredPasswordOpens
<1>4. ASSUME ReplaceIdentity(r)
      PROVE  PasswordOK'
  <2>1. /\ UNCHANGED <<kind, stored, jwkPriv>>
        /\ pc' = [pc EXCEPT ![r] = "remove"] /\ run' = [Overtake(r) EXCEPT ![r].left = IdentityFiles]
    BY <1>4 DEF ReplaceIdentity, Goto, credVars
  <2>2. \A q \in Run : /\ q = r => pc'[q] = "remove"
                       /\ q # r => pc'[q] = pc[q] /\ run'[q].pw = run[q].pw
    BY <1>1, <2>1, OvertakeFields DEF RunsOK
  <2>3. Kept
    BY <2>1, <2>2 DEF Kept
  <2> QED
    BY <2>3, KeptPasswords DEF PasswordInv
<1>5. ASSUME \/ UseIdentity(r) \/ RemoveIdentity(r) \/ GenerateIdentity(r) \/ GenerateTorn(r)
      PROVE  PasswordOK'
  <2>1. UNCHANGED <<kind, stored, jwkPriv>>
    BY <1>5 DEF UseIdentity, RemoveIdentity, GenerateIdentity, GenerateTorn, credVars
  <2>2. Leave(r) \/ \E label \in {"generate", "jwk", "remove"} : \E l : Go(r, label, l)
    BY <1>5 DEF UseIdentity, RemoveIdentity, GenerateIdentity, GenerateTorn
  <2>3. Kept
    BY <1>1, <2>1, <2>2, GoMoves, LeaveMoves DEF Kept
  <2> QED
    BY <2>3, KeptPasswords DEF PasswordInv
<1>6. ASSUME UseCredential(r)
      PROVE  PasswordOK'
  <2> DEFINE l == [run[r] EXCEPT !.req = Installed]
  <2>1. /\ pc[r] = "jwk" /\ Go(r, IF run[r].save THEN "store" ELSE "publish", l)
        /\ UNCHANGED <<kind, stored, jwkPriv>> /\ Usable(r)
    BY <1>6 DEF UseCredential, credVars
  <2>2. l.pw = run[r].pw
    BY <1>1 DEF RunsOK, Local
  <2> HIDE DEF l
  <2>3. run[r].save => jwkPriv # None /\ jwkPriv.pw = run[r].pw
    BY <1>1, <2>1 DEF Usable, Shape
  <2>4. /\ pc'[r] \in {"store", "publish"} /\ (pc'[r] = "store" => run[r].save)
        /\ run'[r].pw = run[r].pw /\ \A q \in Run \ {r} : pc'[q] = pc[q] /\ run'[q] = run[q]
    BY <1>1, <2>1, <2>2, GoMoves
  <2> QED
    BY <2>1, <2>3, <2>4 DEF PasswordInv, PasswordOK, StoredPasswordOpens
<1>7. ASSUME CreateCredential(r)
      PROVE  PasswordOK'
  <2>1. /\ jwkPriv = None /\ kind' = kind /\ stored' = stored
        /\ \/ pc[r] = "seal"
           \/ pc[r] = "jwk" /\ kind = "user"
    BY <1>7 DEF CreateCredential
  <2> DEFINE l == [run[r] EXCEPT !.req = [key |-> pub, jwk |-> Fresh(Jwk)]]
             made == /\ jwkPriv' = [jwk |-> Fresh(Jwk), pw |-> run[r].pw]
                     /\ Go(r, IF run[r].save THEN "store" ELSE "publish", l)
  <2>2. CASE jwkPriv' = jwkPriv /\ Leave(r)
    <3>1. UNCHANGED <<kind, stored, jwkPriv>>
      BY <2>1, <2>2
    <3>2. Kept
      BY <1>1, <2>2, <3>1, LeaveMoves DEF Kept
    <3> QED
      BY <3>2, KeptPasswords DEF PasswordInv
  <2>3. CASE made
    <3>1. l.pw = run[r].pw
      BY <1>1 DEF RunsOK, Local
    <3>2. /\ pc'[r] \in {"store", "publish"} /\ run'[r].pw = run[r].pw
          /\ \A q \in Run \ {r} : pc'[q] = pc[q] /\ run'[q] = run[q]
      BY <1>1, <2>3, <3>1, GoMoves
    <3>3. \A q \in Run \ {r} : pc'[q] \notin {"seal", "store"}
      BY <1>2, <2>1, <3>2 DEF Enrolls, RenewLabels
    <3>4. stored \in {run[r].pw, None}
      BY <2>1 DEF PasswordInv, PasswordOK
    <3>5. run[r].pw \in Pw /\ Fresh(Jwk) \in Jwk
      BY <1>1, <1>7, <2>1, FreshIsNew DEF Shape, CreateCredential
    <3>6. jwkPriv' # None /\ jwkPriv'.pw = run[r].pw
      BY <2>3, <3>5 DEF Sealed
    <3> QED
      BY <2>1, <3>2, <3>3, <3>4, <3>6 DEF PasswordOK, StoredPasswordOpens
  <2>4. \/ jwkPriv' = jwkPriv /\ Leave(r)
        \/ made
    BY <1>7 DEF CreateCredential
  <2> QED
    BY <2>2, <2>3, <2>4
<1>8. ASSUME NEW inRing \in BOOLEAN, StorePassword(r, inRing)
      PROVE  PasswordOK'
  <2>1. /\ pc[r] = "store" /\ stored' = run[r].pw /\ Go(r, "publish", run[r])
        /\ UNCHANGED <<kind, jwkPriv>>
    BY <1>8 DEF StorePassword
  <2>2. jwkPriv # None /\ jwkPriv.pw = run[r].pw
    BY <2>1 DEF PasswordInv, PasswordOK
  <2>3. pc'[r] = "publish" /\ \A q \in Run \ {r} : pc'[q] \notin {"seal", "store"}
    BY <1>1, <1>2, <2>1, GoMoves DEF Enrolls, RenewLabels
  <2> QED
    BY <2>1, <2>2, <2>3 DEF PasswordOK, StoredPasswordOpens
<1> QED
  BY <1>3, <1>4, <1>5, <1>6, <1>7, <1>8 DEF Material

LEMMA OtherPasswords ==
  ASSUME PasswordInv, NEW r \in Run,
         Start(r) \/ Enrolling(r) \/ Renew(r) \/ Refused(r) \/ Cancel(r) \/ Cut(r)
  PROVE  PasswordOK'
<1>1. RunsOK /\ ShapeInv
  BY DEF PasswordInv, ShapeInv
<1>2. CASE Start(r)
  <2>1. Kept
    BY <1>1, <1>2, StartMoves DEF Kept, credVars
  <2> QED
    BY <2>1, KeptPasswords DEF PasswordInv
<1>3. CASE Enrolling(r)
  <2>1. UNCHANGED <<kind, stored, jwkPriv>>
    BY <1>3 DEF Enrolling, Publish, TakeGrant, Issue, WriteCert, Prove, Finish, credVars
  <2>2. Leave(r) \/ \E label \in {"await", "issue", "write", "prove", "proved", "finish"} : \E l : Go(r, label, l)
    BY <1>3 DEF Enrolling, Publish, TakeGrant, Issue, WriteCert, Prove, Finish
  <2>3. Kept
    BY <1>1, <2>1, <2>2, GoMoves, LeaveMoves DEF Kept
  <2> QED
    BY <2>3, KeptPasswords DEF PasswordInv
<1>4. CASE Renew(r) \/ Refused(r) \/ Cancel(r) \/ Cut(r)
  <2>1. UNCHANGED <<kind, stored, jwkPriv>>
    BY <1>4 DEF Renew, Refused, Cancel, Cut, credVars
  <2>2. Leave(r) \/ \E l : Go(r, "renewed", l)
    BY <1>4 DEF Renew, Refused, Cancel, Cut
  <2>3. Kept
    BY <1>1, <2>1, <2>2, GoMoves, LeaveMoves DEF Kept
  <2> QED
    BY <2>3, KeptPasswords DEF PasswordInv
<1> QED
  BY <1>2, <1>3, <1>4

LEMMA ElsewherePasswords ==
  ASSUME PasswordInv, Elsewhere
  PROVE  PasswordOK'
<1>1. RunsOK /\ ShapeInv
  BY DEF PasswordInv, ShapeInv
<1>2. \A q \in Run : pc'[q] = pc[q] /\ run'[q].pw = run[q].pw
  BY <1>1, ElsewhereRuns, OvertakeFields
<1>3. CASE RemoveMaterial
  <2>1. \A q \in Run : pc'[q] \notin {"seal", "store"}
    BY <1>1, <1>2, <1>3, NobodyEnrolls DEF RemoveMaterial, Enrolls, RenewLabels
  <2> QED
    BY <1>3, <2>1 DEF RemoveMaterial, PasswordOK, StoredPasswordOpens
<1>4. CASE Forget
  <2>1. \A q \in Run : pc'[q] # "seal"
    BY <1>1, <1>2, <1>4 DEF Forget, RunsOK, Shape
  <2> QED
    BY <1>2, <1>4, <2>1 DEF Forget, PasswordInv, PasswordOK, StoredPasswordOpens
<1>5. CASE ~ RemoveMaterial /\ ~ Forget
  <2>1. UNCHANGED <<kind, stored, jwkPriv>>
    BY <1>5 DEF Elsewhere, Approve, GrantEnds, Revoke, Age, credVars
  <2>2. Kept
    BY <1>2, <2>1 DEF Kept
  <2> QED
    BY <2>2, KeptPasswords DEF PasswordInv
<1> QED
  BY <1>3, <1>4, <1>5

THEOREM PasswordInit == Init => PasswordInv
<1> SUFFICES ASSUME Init PROVE PasswordInv
  OBVIOUS
<1>1. Exclusive
  BY DEF Init, Exclusive, Enrolls
<1>2. PasswordOK
  BY DEF Init, PasswordOK, StoredPasswordOpens
<1> QED
  BY <1>1, <1>2, ShapeInit DEF PasswordInv

THEOREM PasswordNext ==
  ASSUME PasswordInv, [Next]_vars
  PROVE  PasswordInv'
<1>1. ShapeInv' /\ Exclusive'
  BY ShapeNext, ExclusiveNext DEF PasswordInv
<1>2. PasswordOK'
  <2>1. CASE UNCHANGED vars
    BY <2>1 DEF vars, credVars, PasswordInv, PasswordOK, StoredPasswordOpens
  <2>2. CASE Next
    BY <2>2, NextCases, MaterialPasswords, OtherPasswords, ElsewherePasswords
  <2> QED
    BY <2>1, <2>2
<1> QED
  BY <1>1, <1>2 DEF PasswordInv

\* Wherever an enrollment of the identity is cut, and whatever password the next
\* attempt brings, the password kept for unattended renewal opens the private JWK.
THEOREM StoredPasswordAlwaysOpens == Spec => []StoredPasswordOpens
<1>1. PasswordInv => StoredPasswordOpens
  BY DEF PasswordInv, PasswordOK
<1> QED
  BY <1>1, PasswordInit, PasswordNext, PTL DEF Spec

-----------------------------------------------------------------------------
(***************************************************************************)
(* A completed enrollment renews.  Between the proof of renewal and the    *)
(* end nobody but who overtakes the invocation changes the public key, the *)
(* private JWK, the password that is found or the pair the CA pins.        *)
(***************************************************************************)

Renewable(r) == \E pw \in Pw : Renews(pw) /\ (run[r].file \/ pw = Lookup)

HasProved(r) == pc[r] \in {"proved", "finish"} /\ ~ run[r].overtaken

ProofOK == \A r \in Run : HasProved(r) => Renewable(r)

ProofInv == ShapeInv /\ Exclusive /\ ProofOK

\* A step that leaves what renews, and by which nobody gets past the proof.
Steady ==
  /\ UNCHANGED <<pub, jwkPriv, stored, ring>>
  /\ pinned # None => pinned' = pinned
  /\ \A q \in Run : HasProved(q)' => HasProved(q) /\ run'[q].file = run[q].file

LEMMA SteadyProofs ==
  ASSUME ProofOK, Steady
  PROVE  ProofOK'
BY DEF ProofOK, Steady, Renewable, Renews, Lookup

LEMMA MaterialProofs ==
  ASSUME ProofInv, NEW r \in Run, Material(r)
  PROVE  ProofOK'
<1>1. ShapeInv /\ RunsOK
  BY DEF ProofInv, ShapeInv
<1>2. pc[r] \in {"identity", "remove", "generate", "jwk", "seal", "store"}
  BY DEF Material, HostPassword, UseIdentity, ReplaceIdentity, RemoveIdentity, GenerateIdentity,
         GenerateTorn, UseCredential, CreateCredential, StorePassword
<1>3. \A q \in Run \ {r} : pc'[q] \notin {"proved", "finish"}
  BY <1>1, <1>2, StepMoves DEF ProofInv, Exclusive, Enrolls, RenewLabels
<1>4. pc'[r] \notin {"proved", "finish"}
  <2>1. CASE ReplaceIdentity(r)
    BY <1>1, <2>1 DEF ReplaceIdentity, Goto, RunsOK
  <2>2. CASE ~ ReplaceIdentity(r)
    <3>1. \/ Leave(r)
          \/ \E label \in {"generate", "jwk", "remove", "seal", "store", "publish"} :
               \E l : Go(r, label, l)
      BY <2>2 DEF Material, HostPassword, UseIdentity, RemoveIdentity, GenerateIdentity,
                  GenerateTorn, UseCredential, CreateCredential, StorePassword
    <3> QED
      BY <1>1, <3>1, GoMoves, LeaveMoves
  <2> QED
    BY <2>1, <2>2
<1> QED
  BY <1>3, <1>4 DEF ProofOK, HasProved

LEMMA EnrollingProofs ==
  ASSUME ProofInv, NEW r \in Run, Enrolling(r)
  PROVE  ProofOK'
<1> USE EnrollClientAssumption
<1>1. ShapeInv /\ RunsOK /\ StateOK /\ ProofOK /\ run[r] \in Local
  BY DEF ProofInv, ShapeInv, RunsOK
<1>2. /\ UNCHANGED <<pub, jwkPriv, stored, ring>>
      /\ pinned' = pinned
  BY DEF Enrolling, Publish, TakeGrant, Issue, WriteCert, Prove, Finish, keyVars, credVars, caVars
<1>3. CASE Publish(r) \/ (\E g \in grants : TakeGrant(r, g)) \/ Issue(r) \/ Finish(r)
  <2>1. Leave(r) \/ \E label \in {"await", "issue", "write"} : \E l : Go(r, label, l)
    BY <1>3 DEF Publish, TakeGrant, Issue, Finish
  <2>2. Steady
    BY <1>1, <1>2, <2>1, GoMoves, LeaveMoves DEF Steady, HasProved
  <2> QED
    BY <1>1, <2>2, SteadyProofs
<1>4. CASE WriteCert(r)
  <2> DEFINE l == [run[r] EXCEPT !.new = None]
  <2>1. l.file = run[r].file /\ l.overtaken = run[r].overtaken
    BY <1>1 DEF Local
  <2>2. \/ Leave(r)
        \/ Go(r, "prove", l)
        \/ pc[r] = "proved" /\ Go(r, "finish", l)
    BY <1>4 DEF WriteCert
  <2> HIDE DEF l
  <2>3. Steady
    BY <1>1, <1>2, <2>1, <2>2, GoMoves, LeaveMoves DEF Steady, HasProved
  <2> QED
    BY <1>1, <2>3, SteadyProofs
<1>5. CASE Prove(r)
  <2>1. Renewable(r)
    <3>1. Provable(r)
      BY <1>5 DEF Prove
    <3>2. Renews(Lookup) => Lookup \in Pw
      BY <1>1 DEF Renews, StateOK, Sealed
    <3> QED
      BY <3>1, <3>2 DEF Provable, Renewable
  <2> DEFINE l == [run[r] EXCEPT !.new = RenewalOf(pub)]
  <2>2. l.file = run[r].file
    BY <1>1 DEF Local
  <2>3. Go(r, "finish", run[r]) \/ Go(r, "proved", l)
    BY <1>5 DEF Prove
  <2> HIDE DEF l
  <2>4. run'[r].file = run[r].file /\ \A q \in Run \ {r} : pc'[q] = pc[q] /\ run'[q] = run[q]
    BY <1>1, <2>2, <2>3, GoMoves
  <2>5. \A q \in Run : Renewable(q) => Renewable(q)'
    BY <1>2, <2>4 DEF Renewable, Renews, Lookup
  <2> QED
    BY <1>1, <2>1, <2>4, <2>5 DEF ProofOK, HasProved
<1> QED
  BY <1>3, <1>4, <1>5 DEF Enrolling

LEMMA OtherProofs ==
  ASSUME ProofInv, NEW r \in Run,
         Start(r) \/ Renew(r) \/ Refused(r) \/ Cancel(r) \/ Cut(r)
  PROVE  ProofOK'
<1>1. ShapeInv /\ RunsOK /\ ProofOK
  BY DEF ProofInv, ShapeInv
<1>2. CASE Start(r)
  <2>1. Steady
    BY <1>1, <1>2, StartMoves DEF Steady, HasProved, keyVars, credVars, caVars
  <2> QED
    BY <1>1, <2>1, SteadyProofs
<1>3. CASE Renew(r) \/ Refused(r) \/ Cancel(r) \/ Cut(r)
  <2>1. UNCHANGED <<pub, jwkPriv, stored, ring, pinned>>
    BY <1>3 DEF Renew, Refused, Cancel, Cut, keyVars, credVars, caVars
  <2>2. Leave(r) \/ \E l : Go(r, "renewed", l)
    BY <1>3 DEF Renew, Refused, Cancel, Cut
  <2>3. Steady
    BY <1>1, <2>1, <2>2, GoMoves, LeaveMoves DEF Steady, HasProved
  <2> QED
    BY <1>1, <2>3, SteadyProofs
<1> QED
  BY <1>2, <1>3

LEMMA ElsewhereProofs ==
  ASSUME ProofInv, Elsewhere
  PROVE  ProofOK'
<1> USE EnrollClientAssumption
<1>1. ShapeInv /\ RunsOK /\ StateOK /\ ProofOK
  BY DEF ProofInv, ShapeInv
<1>2. pc' = pc
  BY ElsewhereRuns
<1>3. CASE RemoveMaterial
  BY <1>1, <1>2, <1>3, NobodyEnrolls DEF RemoveMaterial, ProofOK, HasProved, Enrolls, RenewLabels
<1>4. CASE Revoke \/ Forget
  <2>1. run' = Overtake(None)
    BY <1>4 DEF Revoke, Forget
  <2>2. \A q \in Run : pc[q] \in {"proved", "finish"} => run[q].op = "enroll"
    BY <1>1 DEF RunsOK, Shape, RenewLabels
  <2>3. \A q \in Run : pc[q] \in {"proved", "finish"} => run[q] # Idle
    BY <2>2 DEF Idle
  <2>4. \A q \in Run : pc'[q] \in {"proved", "finish"} => run'[q].overtaken
    BY <1>1, <1>2, <2>1, <2>3, OvertakeFields
  <2> QED
    BY <2>4 DEF ProofOK, HasProved
<1>5. CASE ~ RemoveMaterial /\ ~ Revoke /\ ~ Forget
  <2>1. UNCHANGED <<pub, jwkPriv, stored, ring, run>> /\ (pinned # None => pinned' = pinned)
    BY <1>5 DEF Elsewhere, Approve, GrantEnds, Age, keyVars, credVars, caVars
  <2>2. Steady
    BY <1>2, <2>1 DEF Steady, HasProved
  <2> QED
    BY <1>1, <2>2, SteadyProofs
<1> QED
  BY <1>3, <1>4, <1>5

THEOREM ProofInit == Init => ProofInv
  BY PasswordInit DEF Init, PasswordInv, ProofInv, ProofOK, HasProved

THEOREM ProofNext ==
  ASSUME ProofInv, [Next]_vars
  PROVE  ProofInv'
<1>1. ShapeInv' /\ Exclusive'
  BY ShapeNext, ExclusiveNext DEF ProofInv
<1>2. ProofOK'
  <2>1. CASE UNCHANGED vars
    BY <2>1 DEF vars, keyVars, credVars, caVars, ProofInv, ProofOK, HasProved, Renewable, Renews, Lookup
  <2>2. CASE Next
    BY <2>2, NextCases, MaterialProofs, EnrollingProofs, OtherProofs, ElsewhereProofs
  <2> QED
    BY <2>1, <2>2
<1> QED
  BY <1>1, <1>2 DEF ProofInv

\* An enrollment that reports completion leaves a machine that renews with the
\* password of the same file or the one it finds, unless keys were revoked,
\* replaced or forgotten while it ran.
THEOREM CompletedEnrollmentRenews == Spec => CompletionIsRenewable
<1>1. ASSUME ProofInv, [Next]_vars
      PROVE  [\A r \in Run :
                pc[r] = "finish" /\ pc'[r] = "idle" /\ pending' # pending /\ ~ run[r].overtaken =>
                  \E pw \in Pw : Renews(pw) /\ (run[r].file \/ pw = Lookup)]_vars
  BY <1>1 DEF ProofInv, ProofOK, HasProved, Renewable
<1> QED
  BY <1>1, ProofInit, ProofNext, PTL DEF Spec, CompletionIsRenewable

-----------------------------------------------------------------------------
(***************************************************************************)
(* The certificate that is not to be replaced.  A renewal begins under one *)
(* that is due, and an infinite one never is; the certificate with which   *)
(* an enrollment proves renewal in place follows a finite one of its own   *)
(* grant, and no other enrollment runs beside it.                          *)
(***************************************************************************)
EndlessOf(r) ==
  /\ pc[r] \in RenewLabels => ~ run[r].overEndless
  /\ pc[r] \in {"write", "proved", "renewed"} =>
       /\ ~ run[r].new.due
       /\ run[r].new.endless => pc[r] = "write" /\ run[r].grant.preserve
  /\ pc[r] \in {"prove", "proved"} /\ ~ run[r].grant.preserve => ~ Endless

EndlessOK == (Endless => ~ cert.due) /\ \A r \in Run : EndlessOf(r)

EndlessInv == ShapeInv /\ Exclusive /\ EndlessOK

\* What an invocation knows of certificates, its own and the one on disk.
Knows(q) == /\ pc'[q] = pc[q] /\ run'[q].overEndless = run[q].overEndless
            /\ run'[q].new = run[q].new /\ run'[q].grant = run[q].grant

\* While no infinite certificate comes, what the others know stays true.
LEMMA EndlessKept ==
  ASSUME EndlessOK, Endless' => Endless /\ ~ cert'.due,
         NEW S \in SUBSET Run, \A q \in S : Knows(q), \A q \in Run \ S : EndlessOf(q)'
  PROVE  EndlessOK'
<1>1. ASSUME NEW q \in S PROVE EndlessOf(q)'
  BY <1>1 DEF EndlessOK, EndlessOf, Knows
<1> QED
  BY <1>1 DEF EndlessOK

\* An invocation at any other label knows nothing.
LEMMA EndlessIdle ==
  ASSUME NEW r \in Run, pc'[r] \notin {"renew", "renewed", "write", "prove", "proved"}
  PROVE  EndlessOf(r)'
BY DEF EndlessOf, RenewLabels

LEMMA StartEndless ==
  ASSUME EndlessInv, NEW r \in Run, Start(r)
  PROVE  EndlessOK'
<1>1. ShapeInv /\ RunsOK /\ EndlessOK
  BY DEF EndlessInv, ShapeInv
<1>2. cert' = cert /\ \A q \in Run \ {r} : Knows(q)
  BY <1>1, StartMoves DEF Knows, keyVars
<1>3. EndlessOf(r)'
  <2>1. CASE StartRenew(r)
    <3> DEFINE l == [Idle EXCEPT !.op = "renew", !.pw = Lookup, !.overEndless = Endless]
    <3>1. l.overEndless = Endless
      BY DEF Idle
    <3> HIDE DEF l
    <3>2. pc'[r] = "renew" /\ run'[r] = l
      BY <1>1, <2>1 DEF StartRenew, Goto, RunsOK, l
    <3>3. ~ Endless
      BY <1>1, <2>1 DEF StartRenew, NeedsRenewal, EndlessOK, Endless
    <3>4. ~ run'[r].overEndless
      BY <3>1, <3>2, <3>3, Zenon
    <3> QED
      BY <3>2, <3>4 DEF EndlessOf
  <2>2. CASE ~ StartRenew(r)
    <3>1. \E label \in {"await", "jwk", "identity", "publish"} : \E l : Go(r, label, l)
      BY <2>2 DEF Start, Resume, StartEnroll, Restart
    <3> QED
      BY <1>1, <3>1, GoMoves, EndlessIdle
  <2> QED
    BY <2>1, <2>2
<1> QED
  BY <1>1, <1>2, <1>3, EndlessKept DEF EndlessOK, Endless

LEMMA MaterialEndless ==
  ASSUME EndlessInv, NEW r \in Run, Material(r)
  PROVE  EndlessOK'
<1>1. ShapeInv /\ RunsOK /\ EndlessOK
  BY DEF EndlessInv, ShapeInv
<1>2. cert' \in {cert, None}
  BY DEF Material, HostPassword, UseIdentity, ReplaceIdentity, RemoveIdentity, GenerateIdentity,
         GenerateTorn, UseCredential, CreateCredential, StorePassword, keyVars
<1>3. EndlessOf(r)' /\ \A q \in Run \ {r} : Knows(q)
  <2>1. CASE ReplaceIdentity(r)
    <3>1. pc' = [pc EXCEPT ![r] = "remove"] /\ run' = [Overtake(r) EXCEPT ![r].left = IdentityFiles]
      BY <2>1 DEF ReplaceIdentity, Goto
    <3>2. /\ pc'[r] = "remove"
          /\ \A q \in Run \ {r} : pc'[q] = pc[q] /\ run'[q] = Overtake(r)[q]
      BY <1>1, <3>1, OvertakeFields DEF RunsOK
    <3> QED
      BY <1>1, <3>2, OvertakeFields, EndlessIdle DEF Knows
  <2>2. CASE ~ ReplaceIdentity(r)
    <3>1. \/ Leave(r)
          \/ \E label \in {"generate", "jwk", "remove", "seal", "store", "publish"} :
               \E l : Go(r, label, l)
      BY <2>2 DEF Material, HostPassword, UseIdentity, RemoveIdentity, GenerateIdentity,
                  GenerateTorn, UseCredential, CreateCredential, StorePassword
    <3> QED
      BY <1>1, <3>1, GoMoves, LeaveMoves, EndlessIdle DEF Knows
  <2> QED
    BY <2>1, <2>2
<1> QED
  BY <1>1, <1>2, <1>3, EndlessKept DEF EndlessOK, Endless

LEMMA EnrollingEndless ==
  ASSUME EndlessInv, NEW r \in Run, Enrolling(r)
  PROVE  EndlessOK'
<1>1. ShapeInv /\ RunsOK /\ EndlessOK /\ run[r] \in Local
  BY DEF EndlessInv, ShapeInv, RunsOK
<1>2. ASSUME cert' = cert, EndlessOf(r)', \A q \in Run \ {r} : Knows(q) PROVE EndlessOK'
  BY <1>1, <1>2, EndlessKept DEF EndlessOK, Endless
<1>3. CASE Publish(r) \/ (\E g \in grants : TakeGrant(r, g)) \/ Finish(r)
  <2>1. cert' = cert
    BY <1>3 DEF Publish, TakeGrant, Finish, keyVars
  <2>2. Leave(r) \/ \E label \in {"await", "issue"} : \E l : Go(r, label, l)
    BY <1>3 DEF Publish, TakeGrant, Finish
  <2> QED
    BY <1>1, <1>2, <2>1, <2>2, GoMoves, LeaveMoves, EndlessIdle DEF Knows
<1>4. CASE Issue(r)
  <2> DEFINE c == [key |-> pub, endless |-> run[r].grant.preserve, due |-> FALSE]
             l == [run[r] EXCEPT !.new = c]
  <2>1. l.new = c /\ l.grant = run[r].grant /\ c.endless = run[r].grant.preserve /\ ~ c.due
    BY <1>1 DEF Local
  <2>2. Go(r, "write", l) /\ cert' = cert
    BY <1>4 DEF Issue, keyVars
  <2> HIDE DEF c, l
  <2>3. pc'[r] = "write" /\ run'[r] = l /\ \A q \in Run \ {r} : Knows(q)
    BY <1>1, <2>2, GoMoves DEF Knows
  <2>4. EndlessOf(r)'
    BY <2>1, <2>3 DEF EndlessOf, RenewLabels
  <2> QED
    BY <1>2, <2>2, <2>3, <2>4
<1>5. CASE WriteCert(r)
  <2> DEFINE l == [run[r] EXCEPT !.new = None]
  <2>1. l.grant = run[r].grant
    BY <1>1 DEF Local
  <2>2. /\ cert' = run[r].new
        /\ \/ pc[r] = "write" /\ Go(r, "prove", l)
           \/ pc[r] = "proved" /\ Go(r, "finish", l)
           \/ pc[r] = "renewed" /\ Leave(r)
    BY <1>5 DEF WriteCert
  <2> HIDE DEF l
  <2>3. \A q \in Run \ {r} : Knows(q)
    BY <1>1, <2>2, GoMoves, LeaveMoves DEF Knows
  <2>4. EndlessOf(r)
    BY <1>1 DEF EndlessOK
  <2>5. CASE pc[r] = "write" /\ Go(r, "prove", l)
    <3>1. pc'[r] = "prove" /\ run'[r] = l
      BY <1>1, <2>5, GoMoves
    <3>2. Endless' => run[r].grant.preserve /\ ~ cert'.due
      BY <2>2, <2>4, <2>5 DEF EndlessOf, Endless
    <3>3. EndlessOf(r)'
      BY <2>1, <3>1, <3>2 DEF EndlessOf, RenewLabels
    <3>4. \A q \in Run \ {r} : pc[q] \notin {"prove", "proved"}
      BY <2>5 DEF EndlessInv, Exclusive, Enrolls, RenewLabels
    <3>5. \A q \in Run \ {r} : EndlessOf(q)'
      BY <1>1, <2>3, <3>4 DEF EndlessOK, EndlessOf, Knows
    <3> QED
      BY <3>2, <3>3, <3>5 DEF EndlessOK
  <2>6. CASE pc[r] # "write"
    <3>1. ~ Endless'
      BY <2>2, <2>4, <2>6 DEF EndlessOf, Endless
    <3>2. pc'[r] \in {"finish", "idle"}
      BY <1>1, <2>2, <2>6, GoMoves, LeaveMoves
    <3> QED
      BY <1>1, <2>3, <3>1, <3>2, EndlessIdle, EndlessKept
  <2> QED
    BY <2>2, <2>5, <2>6
<1>6. CASE Prove(r)
  <2> DEFINE l == [run[r] EXCEPT !.new = RenewalOf(pub)]
  <2>1. l.new = RenewalOf(pub) /\ l.grant = run[r].grant
    BY <1>1 DEF Local
  <2>2. /\ pc[r] = "prove" /\ cert' = cert
        /\ IF run[r].grant.preserve THEN Go(r, "finish", run[r]) ELSE Go(r, "proved", l)
    BY <1>6 DEF Prove, keyVars
  <2> HIDE DEF l
  <2>3. \A q \in Run \ {r} : Knows(q)
    BY <1>1, <2>2, GoMoves DEF Knows
  <2>4. CASE run[r].grant.preserve
    BY <1>1, <1>2, <2>2, <2>3, <2>4, GoMoves, EndlessIdle
  <2>5. CASE ~ run[r].grant.preserve
    <3>1. pc'[r] = "proved" /\ run'[r] = l
      BY <1>1, <2>2, <2>5, GoMoves
    <3>2. ~ Endless
      BY <1>1, <2>2, <2>5 DEF EndlessOK, EndlessOf
    <3>3. ~ Endless'
      BY <2>2, <3>2 DEF Endless
    <3>4. ~ l.new.due /\ ~ l.new.endless
      BY <2>1 DEF RenewalOf
    <3>5. EndlessOf(r)'
      BY <3>1, <3>3, <3>4 DEF EndlessOf, RenewLabels
    <3> QED
      BY <1>2, <2>2, <2>3, <3>5
  <2> QED
    BY <2>4, <2>5
<1> QED
  BY <1>3, <1>4, <1>5, <1>6 DEF Enrolling

LEMMA OtherEndless ==
  ASSUME EndlessInv, NEW r \in Run, Renew(r) \/ Refused(r) \/ Cancel(r) \/ Cut(r)
  PROVE  EndlessOK'
<1>1. ShapeInv /\ RunsOK /\ EndlessOK /\ run[r] \in Local
  BY DEF EndlessInv, ShapeInv, RunsOK
<1>2. cert' = cert
  BY DEF Renew, Refused, Cancel, Cut, keyVars
<1>3. EndlessOf(r)' /\ \A q \in Run \ {r} : Knows(q)
  <2>1. CASE Renew(r)
    <3> DEFINE l == [run[r] EXCEPT !.new = RenewalOf(pub)]
    <3>1. l.new = RenewalOf(pub) /\ l.overEndless = run[r].overEndless
      BY <1>1 DEF Local
    <3>2. pc[r] = "renew" /\ Go(r, "renewed", l)
      BY <2>1 DEF Renew
    <3> HIDE DEF l
    <3>3. pc'[r] = "renewed" /\ run'[r] = l /\ \A q \in Run \ {r} : Knows(q)
      BY <1>1, <3>2, GoMoves DEF Knows
    <3>4. ~ run[r].overEndless
      BY <1>1, <3>2 DEF EndlessOK, EndlessOf, RenewLabels
    <3>5. ~ l.new.due /\ ~ l.new.endless
      BY <3>1 DEF RenewalOf
    <3> QED
      BY <3>1, <3>3, <3>4, <3>5 DEF EndlessOf
  <2>2. CASE Refused(r) \/ Cancel(r) \/ Cut(r)
    BY <1>1, <2>2, LeaveMoves, EndlessIdle DEF Refused, Cancel, Cut, Knows
  <2> QED
    BY <2>1, <2>2
<1> QED
  BY <1>1, <1>2, <1>3, EndlessKept DEF EndlessOK, Endless

LEMMA ElsewhereEndless ==
  ASSUME EndlessInv, Elsewhere
  PROVE  EndlessOK'
<1>1. ShapeInv /\ RunsOK /\ StateOK /\ EndlessOK
  BY DEF EndlessInv, ShapeInv
<1>2. \A q \in Run : Knows(q)
  BY <1>1, ElsewhereRuns, OvertakeFields DEF Knows
<1>3. Endless' => Endless /\ ~ cert'.due
  <2>1. CASE Age
    <3>1. ~ cert'.endless
      BY <1>1, <2>1 DEF Age, StateOK, Cert
    <3> QED
      BY <3>1 DEF Endless
  <2>2. CASE ~ Age
    BY <1>1, <2>2
       DEF Elsewhere, Approve, GrantEnds, Revoke, RemoveMaterial, Forget, keyVars, EndlessOK, Endless
  <2> QED
    BY <2>1, <2>2
<1> QED
  BY <1>1, <1>2, <1>3, EndlessKept

THEOREM EndlessNext ==
  ASSUME EndlessInv, [Next]_vars
  PROVE  EndlessInv'
<1>1. ShapeInv' /\ Exclusive'
  BY ShapeNext, ExclusiveNext DEF EndlessInv
<1>2. EndlessOK'
  <2>1. CASE UNCHANGED vars
    BY <2>1 DEF vars, keyVars, EndlessInv, EndlessOK, EndlessOf, Endless
  <2>2. CASE Next
    BY <2>2, NextCases, StartEndless, MaterialEndless, EnrollingEndless, OtherEndless, ElsewhereEndless
  <2> QED
    BY <2>1, <2>2
<1> QED
  BY <1>1, <1>2 DEF EndlessInv

THEOREM EndlessInit == Init => EndlessInv
<1>1. Init => EndlessOK
  BY DEF Init, EndlessOK, EndlessOf, Endless, RenewLabels
<1> QED
  BY <1>1, PasswordInit DEF PasswordInv, EndlessInv

\* An effectively infinite certificate is replaced only by the first certificate of
\* a later grant, or by a renewal that itself began before it was there: a renewal
\* that began under it, or the proof of renewal of any enrollment, never does.
THEOREM InfiniteCertificateSurvives == Spec => InitialCertificateSurvives
<1>1. ASSUME EndlessInv, [Next]_vars
      PROVE  [Endless /\ cert' \notin {cert, None} =>
                \E r \in Run : FirstCertificate(r) \/ RenewalFromBefore(r)]_vars
  <2> SUFFICES ASSUME Endless, cert' \notin {cert, None}
               PROVE  \E r \in Run : FirstCertificate(r) \/ RenewalFromBefore(r)
    OBVIOUS
  <2>1. Next
    BY <1>1 DEF vars, keyVars
  <2>2. ShapeInv /\ RunsOK /\ EndlessOK
    BY <1>1 DEF EndlessInv, ShapeInv
  <2>3. ~ Elsewhere
    BY DEF Elsewhere, Approve, GrantEnds, Revoke, RemoveMaterial, Forget, Age, keyVars, Endless
  <2>4. PICK r \in Run : WriteCert(r)
    <3>1. \A r \in Run : ~ Start(r)
      BY StartMoves, <2>2 DEF keyVars
    <3>2. \A r \in Run : ~ Material(r)
      BY DEF Material, HostPassword, UseIdentity, ReplaceIdentity, RemoveIdentity, GenerateIdentity,
             GenerateTorn, UseCredential, CreateCredential, StorePassword, keyVars
    <3>3. \A r \in Run : ~ (Renew(r) \/ Refused(r) \/ Cancel(r) \/ Cut(r))
      BY DEF Renew, Refused, Cancel, Cut, keyVars
    <3>4. \A r \in Run : Enrolling(r) => WriteCert(r)
      BY DEF Enrolling, Publish, TakeGrant, Issue, Prove, Finish, keyVars
    <3> QED
      BY <2>1, <2>3, <3>1, <3>2, <3>3, <3>4, NextCases
  <2>5. EndlessOf(r) /\ Shape(pc[r], run[r])
    BY <2>2 DEF EndlessOK, RunsOK
  <2>6. CASE pc[r] = "write"
    BY <2>2, <2>4, <2>6, GoMoves DEF WriteCert, FirstCertificate
  <2>7. CASE pc[r] = "proved"
    BY <2>5, <2>7 DEF EndlessOf, Shape
  <2>8. CASE pc[r] = "renewed"
    BY <2>2, <2>4, <2>5, <2>8, LeaveMoves DEF WriteCert, EndlessOf, RenewLabels, RenewalFromBefore
  <2> QED
    BY <2>4, <2>6, <2>7, <2>8 DEF WriteCert
<1> QED
  BY <1>1, EndlessInit, EndlessNext, PTL DEF Spec, InitialCertificateSurvives
=============================================================================
