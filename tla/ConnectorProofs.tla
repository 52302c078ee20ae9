--------------------------- MODULE ConnectorProofs ---------------------------
(***************************************************************************)
(* Proofs about ConnectorFlow, for any number of runs, any lifespans that  *)
(* its assumption admits, and any bounds.                                  *)
(***************************************************************************)
EXTENDS ConnectorFlow, TLAPS

(* The stages in their order. *)
Ord == [s \in Stages |->
           CASE s = "registration-token" -> 1 [] s = "registration" -> 2
             [] s = "token" -> 3 [] s = "protected-call" -> 4]

Requests == network \cup handling \cup accepted

At(m, r, s) == m.proof.run = r /\ m.proof.stage = s

(* A request that can take effect: where nonces are required, it has one.  *)
Capable(p) == nonceRequired => p.nonce # None

-----------------------------------------------------------------------------
(* The inductive invariant. *)

(* A run waits for the answer to the request it made last. *)
RunWaits(r) ==
    LET p == run[r].proof
    IN  /\ Waiting(r) <=> p # None
        /\ p # None => /\ p.run = r /\ run[r].adapter \in Runs
                       /\ p.stage # "registration-token" =>
                             run[r].cred # None /\ run[r].cred.boot <= boot
                       /\ p.nonce # None => p.nonce.boot <= boot

RunsWait == \A r \in Runs : RunWaits(r)

(* A proof is its run's last one, or was made at an earlier stage, or      *)
(* could not take effect and was challenged.                               *)
Made(p) ==
    LET u == run[p.run]
    IN  /\ u.state # "idle"
        /\ u.proof # None =>
              /\ Ord[p.stage] <= Ord[u.proof.stage]
              /\ p.stage = u.proof.stage /\ Capable(p) => p = u.proof

MadeByRun(m) ==
    LET p == m.proof
        u == run[p.run]
    IN  /\ Made(p)
        /\ p.stage # "registration-token" => m.cred # None /\ m.cred.boot <= boot
        /\ p = u.proof => m.cred = u.cred

RequestsMade == \A m \in Requests : MadeByRun(m)

(* What can take effect at one stage of a run is one request, and its      *)
(* copies.                                                                 *)
Same(m, o) ==
    /\ m.proof = o.proof => m.cred = o.cred
    /\ m.proof.run = o.proof.run /\ m.proof.stage = o.proof.stage
       /\ Capable(m.proof) /\ Capable(o.proof) => m.proof = o.proof

OneRequest == \A m, o \in Requests : Same(m, o)

(* The stores, and what adapters keep of them. *)
StoresAgree ==
    /\ \A m \in handling \cup accepted : Capable(m.proof)
    /\ \A c \in issued : c.boot = boot
    /\ \A a \in Runs : registered[a] # None =>
          /\ registered[a].boot <= boot
          /\ registered[a].boot = boot => registered[a] \in issued
    /\ \A u \in used : u.exp = KeptUntil(u.proof) /\ Made(u.proof)

(* An original is at one place, and if its proof was used before it is     *)
(* marked, then by a copy.                                                 *)
AtOnePlace(m) ==
    /\ m \in network => m \notin handling /\ m \notin accepted
    /\ m \in handling => m \notin accepted

CopiesKnown ==
    /\ \A m \in Requests : IF m.copy THEN m.proof \in doubled ELSE AtOnePlace(m)
    /\ \A u \in used : \A m \in network \cup handling :
          ~m.copy /\ m.proof = u.proof => m.proof \in doubled

(* A stage that took effect, or is about to, is not one that its run has   *)
(* still to come to, or to be challenged at.                               *)
Taken(r, s) == acted[r][s] > 0 \/ \E m \in accepted : At(m, r, s)

Past(r, s) ==
    Taken(r, s) =>
        /\ run[r].state # "idle"
        /\ run[r].proof # None =>
              \/ Ord[s] < Ord[run[r].proof.stage]
              \/ s = run[r].proof.stage /\ Capable(run[r].proof)

TakenIsPast == \A r \in Runs : \A s \in Stages : Past(r, s)

(* A request that cannot take effect any more: its use is remembered, its  *)
(* time is over, or it presents what a restart forgot.                     *)
Spent(m) ==
    \/ \E u \in used : u.proof = m.proof
    \/ ~Fresh(m.proof)
    \/ m \notin handling /\ m.cred # None /\ m.cred.boot < boot

Once(r, s) ==
    /\ acted[r][s] <= 1
    /\ \A m \in accepted : At(m, r, s) =>
          acted[r][s] = 0 /\ \A o \in accepted : At(o, r, s) => o = m

AllSpent(r, s) ==
    \A m \in network \cup handling : At(m, r, s) /\ Capable(m.proof) => Spent(m)

OnceAndSpent(r, s) ==
    s # "registration-token" /\ <<r, s>> \notin overtaken =>
        Once(r, s) /\ (Taken(r, s) => AllSpent(r, s))

TakenOnceIsSpent == \A r \in Runs : \A s \in Stages : OnceAndSpent(r, s)

(* What a run presents is known to the Connector that made it. *)
Served(r) ==
    LET p == run[r].proof
    IN  Waiting(r) =>
            /\ p.stage # "registration-token" /\ run[r].cred.boot = boot =>
                  run[r].cred \in issued
            /\ p.nonce # None /\ p.nonce.boot = boot => p.nonce \in nonces \/ p.nonce.exp <= now

WillBeServed == \A r \in Runs : Served(r)

ConnectorInv ==
    /\ TypeOK
    /\ RunsWait
    /\ RequestsMade
    /\ OneRequest
    /\ StoresAgree
    /\ CopiesKnown
    /\ TakenIsPast
    /\ TakenOnceIsSpent
    /\ WillBeServed

-----------------------------------------------------------------------------
LEMMA StageOrder ==
    /\ \A s \in Stages : Ord[s] \in 1..4
    /\ \A s \in Stages \ {"protected-call"} :
          /\ After[s] \in Stages \ {"registration-token"}
          /\ Ord[After[s]] = Ord[s] + 1
    /\ \A s, t \in Stages : Ord[s] = Ord[t] => s = t
    /\ Ord["registration-token"] = 1
BY DEF Ord, Stages, After

(* What is known of the parts of a proof, of a request and of a run. *)
LEMMA Parts ==
    ASSUME TypeOK
    PROVE  /\ \A p \in DPoP : /\ p # None /\ p.run \in Runs /\ p.stage \in Stages /\ p.iat \in Nat
                              /\ p.nonce \in Nonce \cup {None}
           /\ \A m \in Requests : m \in Request
           /\ \A m \in Request : /\ m.proof \in DPoP /\ m.cred \in Credential \cup {None}
                                 /\ m.copy \in BOOLEAN
           /\ \A u \in used : u.proof \in DPoP /\ u.exp \in Nat
           /\ \A r \in Runs : /\ run[r] \in Execution
                              /\ run[r].proof \in DPoP \cup {None}
                              /\ run[r].cred \in Credential \cup {None}
           /\ \A c \in Credential : c.boot \in Nat
           /\ \A n \in Nonce : n.boot \in Nat /\ n.exp \in Nat
           /\ now \in Nat /\ boot \in Nat
<1>1. \A p \in DPoP : /\ p # None /\ p.run \in Runs /\ p.stage \in Stages /\ p.iat \in Nat
                      /\ p.nonce \in Nonce \cup {None}
  BY ConnectorAssumption DEF DPoP
<1>2. /\ \A m \in Requests : m \in Request
      /\ \A m \in Request : /\ m.proof \in DPoP /\ m.cred \in Credential \cup {None}
                            /\ m.copy \in BOOLEAN
  BY DEF TypeOK, Requests, Request
<1>3. \A u \in used : u.proof \in DPoP /\ u.exp \in Nat
  BY DEF TypeOK
<1>4. \A r \in Runs : /\ run[r] \in Execution
                      /\ run[r].proof \in DPoP \cup {None}
                      /\ run[r].cred \in Credential \cup {None}
  BY DEF TypeOK, Execution
<1>5. /\ \A c \in Credential : c.boot \in Nat
      /\ \A n \in Nonce : n.boot \in Nat /\ n.exp \in Nat
  BY DEF Credential, Nonce
<1>6. now \in Nat /\ boot \in Nat
  BY ConnectorAssumption DEF TypeOK
<1>7. QED
  BY <1>1, <1>2, <1>3, <1>4, <1>5, <1>6

(* What a step makes of the run r: its request is none any more, is the    *)
(* same, is of a stage that none of its requests was at, or is the second  *)
(* attempt.                                                                *)
Moves(r) ==
    LET p == run'[r].proof
        q == run[r].proof
    IN  \/ p = None
        \/ run'[r] = run[r]
        \/ /\ run[r].state = "idle" \/ (q # None /\ Ord[q.stage] < Ord[p.stage])
           /\ p.run = r
        \/ /\ nonceRequired /\ q # None /\ q.nonce = None /\ p.nonce # None
           /\ p.run = r /\ p.stage = q.stage /\ run'[r].cred = run[r].cred

(* Where the requests of the next state come from. *)
Old(m) == \E o \in Requests : o.proof = m.proof /\ o.cred = m.cred

New(r, m) ==
    /\ run'[r] # run[r] /\ run'[r].proof # None
    /\ m.proof = run'[r].proof /\ m.cred = run'[r].cred /\ ~m.copy

(* What the adapter does in a step, whatever the Connector does with it.   *)
OneMoves(r) ==
    /\ run' \in [Runs -> Execution]
    /\ \A q \in Runs \ {r} : run'[q] = run[q]
    /\ run'[r].state # "idle" \/ run'[r] = run[r]
    /\ Moves(r) /\ RunWaits(r)'

(* A proof that was made before remains one, and is not made again. *)
LEMMA MadeStep ==
    ASSUME ConnectorInv, NEW r \in Runs, OneMoves(r), nonceRequired' = nonceRequired,
           NEW p \in DPoP, Made(p)
    PROVE  Made(p)' /\ (run'[r] # run[r] => p # run'[r].proof)
<1> USE StageOrder
<1>0. p # None /\ p.run \in Runs /\ p.stage \in Stages
  BY Parts DEF ConnectorInv
<1>1. CASE p.run # r \/ run'[r] = run[r]
  <2>1. run'[p.run] = run[p.run]
    BY <1>0, <1>1 DEF OneMoves
  <2>2. Made(p)'
    BY <2>1 DEF Made, Capable
  <2>3. p.run # r => p # run'[r].proof
    BY <1>0 DEF OneMoves, RunWaits
  <2>4. QED
    BY <1>1, <2>2, <2>3
<1>2. CASE p.run = r /\ run'[r] # run[r]
  <2> DEFINE v == run'[r].proof
             w == run[r].proof
  <2>1. run[r].state # "idle" /\ run'[r].state # "idle"
    BY <1>2 DEF Made, OneMoves
  <2>2. CASE v = None
    BY <1>0, <1>2, <2>1, <2>2 DEF Made
  <2>3. CASE v # None
    <3>1. w # None
      BY <1>2, <2>1, <2>3 DEF OneMoves, Moves
    <3>2. v.stage \in Stages /\ w.stage \in Stages
      <4>1. v \in DPoP
        BY <2>3 DEF OneMoves, Execution
      <4>2. QED
        BY <3>1, <4>1, Parts DEF ConnectorInv
    <3>3. /\ Ord[p.stage] <= Ord[w.stage]
          /\ p.stage = w.stage /\ Capable(p) => p = w
      BY <1>2, <3>1 DEF Made
    <3>4. Ord[p.stage] \in 1..4 /\ Ord[v.stage] \in 1..4 /\ Ord[w.stage] \in 1..4
      BY <1>0, <3>2
    <3>5. CASE Ord[w.stage] < Ord[v.stage]
      <4>1. Ord[p.stage] < Ord[v.stage]
        BY <3>3, <3>4, <3>5
      <4>2. QED
        BY <1>2, <2>1, <2>3, <3>4, <4>1 DEF Made
    <3>6. CASE nonceRequired /\ w.nonce = None /\ v.nonce # None /\ v.stage = w.stage
      <4>1. p.stage = v.stage => ~Capable(p)
        BY <3>3, <3>6 DEF Capable
      <4>2. p # v
        BY <3>6, <4>1 DEF Capable
      <4>3. QED
        BY <1>2, <2>1, <2>3, <3>3, <3>6, <4>1, <4>2 DEF Made, Capable
    <3>7. QED
      BY <1>2, <2>1, <2>3, <3>1, <3>5, <3>6 DEF OneMoves, Moves
  <2>4. QED
    BY <2>2, <2>3
<1>3. QED
  BY <1>1, <1>2

LEMMA RequestsStep ==
    ASSUME ConnectorInv, TypeOK', NEW r \in Runs, OneMoves(r),
           boot' = boot, nonceRequired' = nonceRequired,
           \A m \in Requests' : Old(m) \/ New(r, m)
    PROVE  RequestsMade' /\ OneRequest'
<1> USE StageOrder
<1>1. \A m \in Requests : m.proof \in DPoP /\ m.proof.run \in Runs /\ MadeByRun(m)
  BY Parts DEF ConnectorInv, RequestsMade
<1>2. \A m \in Requests' : m.proof \in DPoP /\ m.proof.run \in Runs /\ m.proof.stage \in Stages
  <2>1. \A m \in Requests' : m.proof \in DPoP
    BY DEF TypeOK, Requests, Request
  <2>2. QED
    BY <2>1, Parts DEF ConnectorInv
<1>3. run'[r].proof # None => run'[r].proof.run = r
  BY DEF OneMoves, RunWaits
<1>4. \A p : Capable(p)' <=> Capable(p)
  BY DEF Capable
<1>5. ASSUME NEW o \in Requests
      PROVE  Made(o.proof)' /\ (run'[r] # run[r] => o.proof # run'[r].proof)
  BY <1>1, MadeStep DEF MadeByRun
<1>6. ASSUME NEW m \in Requests' PROVE MadeByRun(m)'
  <2>1. CASE New(r, m)
    <3>1. /\ m.proof.run = r /\ m.proof = run'[r].proof /\ m.cred = run'[r].cred
          /\ run'[r].state # "idle" /\ m.proof # None
      BY <1>3, <2>1 DEF New, OneMoves
    <3>2. Ord[m.proof.stage] <= Ord[m.proof.stage]
      <4>1. Ord[m.proof.stage] \in 1..4
        BY <1>2
      <4>2. QED
        BY <4>1
    <3>3. Made(m.proof)'
      BY <3>1, <3>2 DEF Made
    <3>4. QED
      BY <3>1, <3>3 DEF MadeByRun, OneMoves, RunWaits
  <2>2. CASE Old(m)
    <3>1. PICK o \in Requests : o.proof = m.proof /\ o.cred = m.cred
      BY <2>2 DEF Old
    <3>2. MadeByRun(o)
      BY <1>1
    <3>3. Made(m.proof)'
      BY <1>5, <3>1
    <3>4. m.proof = run'[m.proof.run].proof => m.cred = run'[m.proof.run].cred
      <4>1. CASE m.proof.run # r \/ run'[r] = run[r]
        <5>1. run'[m.proof.run] = run[m.proof.run]
          BY <1>2, <4>1 DEF OneMoves
        <5>2. QED
          BY <3>1, <3>2, <5>1 DEF MadeByRun
      <4>2. CASE m.proof.run = r /\ run'[r] # run[r]
        BY <1>5, <3>1, <4>2
      <4>3. QED
        BY <4>1, <4>2
    <3>5. QED
      BY <3>1, <3>2, <3>3, <3>4 DEF MadeByRun
  <2>3. QED
    BY <2>1, <2>2
<1>7. ASSUME NEW m \in Requests', NEW o \in Requests' PROVE Same(m, o)'
  <2>1. CASE Old(m) /\ Old(o)
    BY <1>4, <2>1 DEF Old, ConnectorInv, OneRequest, Same
  <2>2. CASE New(r, m) \/ New(r, o)
    <3>1. MadeByRun(m)' /\ MadeByRun(o)'
      BY <1>6
    <3>2. QED
      BY <1>3, <2>2, <3>1 DEF New, MadeByRun, Made, Same
  <2>3. QED
    BY <2>1, <2>2
<1>8. QED
  BY <1>6, <1>7 DEF RequestsMade, OneRequest

(* What a step that marks nothing does to copies and originals. *)
LEMMA CopiesStep ==
    ASSUME ConnectorInv, NEW r \in Runs, OneMoves(r), nonceRequired' = nonceRequired,
           NEW net \in SUBSET network,
           \A m \in network' : m \in net \/ New(r, m),
           handling' \subseteq handling \cup (network \ net),
           accepted' \subseteq accepted, used' \subseteq used, doubled \subseteq doubled'
    PROVE  CopiesKnown'
<1>1. \A m \in Requests : m.proof \in DPoP /\ Made(m.proof)
  BY Parts DEF ConnectorInv, RequestsMade, MadeByRun
<1>2. \A u \in used : u.proof \in DPoP /\ Made(u.proof)
  BY Parts DEF ConnectorInv, StoresAgree
<1>3. \A m, o : New(r, m) /\ o \in Requests => o.proof # m.proof
  BY <1>1, MadeStep DEF New
<1>4. \A m, u : New(r, m) /\ u \in used => u.proof # m.proof
  BY <1>2, MadeStep DEF New
<1>5. \A m \in Requests' : m \in Requests \/ New(r, m)
  BY DEF Requests
<1>6. ASSUME NEW m \in Requests', m.copy PROVE m.proof \in doubled'
  BY <1>5, <1>6 DEF New, ConnectorInv, CopiesKnown
<1>7. ASSUME NEW m \in Requests', ~m.copy PROVE AtOnePlace(m)'
  <2>1. CASE New(r, m)
    <3>1. m \notin Requests
      BY <1>3, <2>1
    <3>2. QED
      BY <3>1 DEF Requests, AtOnePlace
  <2>2. CASE ~New(r, m)
    <3>1. m \in Requests /\ AtOnePlace(m)
      BY <1>5, <1>7, <2>2 DEF ConnectorInv, CopiesKnown
    <3>2. QED
      BY <2>2, <3>1 DEF AtOnePlace
  <2>3. QED
    BY <2>1, <2>2
<1>8. ASSUME NEW u \in used', NEW m \in network' \cup handling', ~m.copy, m.proof = u.proof
      PROVE  m.proof \in doubled'
  <2>1. ~New(r, m)
    BY <1>4, <1>8
  <2>2. m \in network \cup handling
    BY <2>1
  <2>3. QED
    BY <1>8, <2>2 DEF ConnectorInv, CopiesKnown
<1>9. QED
  BY <1>6, <1>7, <1>8 DEF CopiesKnown

(* Nothing of the run q takes effect, or is about to, at stage s in a step. *)
Kept(q, s) ==
    /\ acted'[q][s] = acted[q][s]
    /\ \A m : At(m, q, s) => (m \in accepted' <=> m \in accepted)

(* What any step does to a run other than r, and to what has taken effect  *)
(* before, unless the step is another effect of it.                        *)
LEMMA FlowStep ==
    ASSUME ConnectorInv, TypeOK', NEW r \in Runs, OneMoves(r), Served(r)',
           boot' = boot, nonceRequired' = nonceRequired, now' = now,
           issued \subseteq issued', nonces \subseteq nonces', used \subseteq used',
           overtaken \subseteq overtaken',
           \A m \in Requests' : Old(m) \/ New(r, m),
           \A m \in network' : m \in network \/ m \in handling \/ New(r, m),
           \A m \in handling' : m \in handling \/ (m \in network /\ Known(m))
    PROVE  /\ RunsWait' /\ RequestsMade' /\ OneRequest' /\ WillBeServed'
           /\ \A q \in Runs : \A s \in Stages : Kept(q, s) => Past(q, s)' /\ OnceAndSpent(q, s)'
<1>1. RequestsMade' /\ OneRequest'
  BY RequestsStep
<1>2. ASSUME NEW q \in Runs \ {r} PROVE RunWaits(q)' /\ Served(q)'
  <2>1. run'[q] = run[q]
    BY DEF OneMoves
  <2>2. RunWaits(q)'
    BY <2>1 DEF ConnectorInv, RunsWait, RunWaits, Waiting
  <2>3. Served(q)'
    BY <2>1 DEF ConnectorInv, WillBeServed, Served, Waiting
  <2>4. QED
    BY <2>2, <2>3
<1>3. ASSUME NEW q \in Runs, NEW s \in Stages, Kept(q, s)
      PROVE  /\ Taken(q, s)' <=> Taken(q, s)
             /\ Once(q, s)' <=> Once(q, s)
  <2>1. acted'[q][s] = acted[q][s]
    BY <1>3 DEF Kept
  <2>2. \A m : m \in accepted' /\ At(m, q, s) <=> m \in accepted /\ At(m, q, s)
    BY <1>3 DEF Kept
  <2>3. \A m : At(m, q, s)' <=> At(m, q, s)
    BY DEF At
  <2>4. Taken(q, s)' <=> Taken(q, s)
    BY <2>1, <2>2, <2>3 DEF Taken
  <2>5. Once(q, s)' <=> Once(q, s)
    BY <2>1, <2>2, <2>3 DEF Once
  <2>6. QED
    BY <2>4, <2>5
<1>4. ASSUME NEW q \in Runs, NEW s \in Stages, Taken(q, s)
      PROVE  /\ run'[q].state # "idle"
             /\ run'[q].proof # None => \/ Ord[s] < Ord[run'[q].proof.stage]
                                        \/ s = run'[q].proof.stage /\ Capable(run'[q].proof)
             /\ q = r /\ run'[r] # run[r] /\ run'[r].proof # None => s # run'[r].proof.stage
  <2>1. Past(q, s)
    BY DEF ConnectorInv, TakenIsPast
  <2>2. CASE q # r \/ run'[r] = run[r]
    BY <1>4, <2>1, <2>2 DEF Past, OneMoves
  <2>3. CASE q = r /\ run'[r] # run[r] /\ run'[r].proof = None
    BY <1>4, <2>1, <2>3 DEF Past, OneMoves
  <2>4. CASE q = r /\ run'[r] # run[r] /\ run'[r].proof # None
    <3> DEFINE v == run'[r].proof
               w == run[r].proof
    <3>1. run[r].state # "idle"
      BY <1>4, <2>1, <2>4 DEF Past
    <3>2. w # None
      BY <2>4, <3>1 DEF OneMoves, Moves
    <3>3. v.stage \in Stages /\ w.stage \in Stages
      <4>1. v \in DPoP
        BY <2>4 DEF OneMoves, Execution
      <4>2. QED
        BY <3>2, <4>1, Parts DEF ConnectorInv
    <3>4. Ord[s] \in 1..4 /\ Ord[v.stage] \in 1..4 /\ Ord[w.stage] \in 1..4
      BY <3>3, StageOrder
    <3>5. Ord[s] < Ord[w.stage] \/ (s = w.stage /\ Capable(w))
      BY <1>4, <2>1, <2>4, <3>2 DEF Past
    <3>6. Ord[s] < Ord[v.stage]
      <4>1. CASE Ord[w.stage] < Ord[v.stage]
        BY <3>4, <3>5, <4>1
      <4>2. CASE nonceRequired /\ w.nonce = None /\ v.stage = w.stage
        BY <3>5, <4>2 DEF Capable
      <4>3. QED
        BY <2>4, <3>1, <3>2, <4>1, <4>2 DEF OneMoves, Moves
    <3>7. s # v.stage
      BY <3>4, <3>6
    <3>8. run'[r].state # "idle"
      BY <2>4 DEF OneMoves
    <3>9. QED
      BY <2>4, <3>6, <3>7, <3>8
  <2>5. QED
    BY <2>2, <2>3, <2>4
<1>5. ASSUME NEW q \in Runs, NEW s \in Stages, Kept(q, s) PROVE Past(q, s)'
  BY <1>3, <1>4, <1>5 DEF Past, Capable
<1>6. ASSUME NEW q \in Runs, NEW s \in Stages, Kept(q, s) PROVE OnceAndSpent(q, s)'
  <2> SUFFICES ASSUME s # "registration-token", <<q, s>> \notin overtaken'
               PROVE  Once(q, s)' /\ (Taken(q, s)' => AllSpent(q, s)')
    BY DEF OnceAndSpent
  <2>1. Once(q, s) /\ (Taken(q, s) => AllSpent(q, s))
    BY DEF ConnectorInv, TakenOnceIsSpent, OnceAndSpent
  <2>2. ASSUME Taken(q, s), NEW m \in network' \cup handling', At(m, q, s), Capable(m.proof)
        PROVE  Spent(m)'
    <3>1. ~New(r, m)
      BY <1>4, <2>2 DEF New, At, OneMoves, RunWaits
    <3>2. m \in network \cup handling
      BY <3>1
    <3>3. Spent(m)
      BY <2>1, <2>2, <3>2 DEF AllSpent
    <3>4. CASE (\E u \in used : u.proof = m.proof) \/ ~Fresh(m.proof)
      BY <3>4 DEF Spent, Fresh
    <3>5. CASE m \notin handling /\ m.cred # None /\ m.cred.boot < boot
      <4>1. CASE m \notin handling'
        BY <3>5, <4>1 DEF Spent
      <4>2. CASE m \in handling'
        <5>1. m.cred \in issued
          BY <2>2, <3>5, <4>2 DEF Known, At
        <5>2. m.cred.boot = boot /\ boot \in Nat
          BY <5>1, Parts DEF ConnectorInv, StoresAgree
        <5>3. QED
          BY <3>5, <5>2
      <4>3. QED
        BY <4>1, <4>2
    <3>6. QED
      BY <3>3, <3>4, <3>5 DEF Spent
  <2>3. AllSpent(q, s)' <=>
           \A m \in network' \cup handling' : At(m, q, s) /\ Capable(m.proof) => Spent(m)'
    BY DEF AllSpent, At, Capable
  <2>4. QED
    BY <1>3, <1>6, <2>1, <2>2, <2>3
<1>7. QED
  BY <1>1, <1>2, <1>5, <1>6 DEF RunsWait, WillBeServed, OneMoves
-----------------------------------------------------------------------------
(* What the adapter does with the network. *)
Settled(r, net) ==
    /\ OneMoves(r)
    /\ network' \subseteq Request
    /\ \A m \in network' : m \in net \/ New(r, m)

LEMMA StaysSettled ==
    ASSUME ConnectorInv, NEW r \in Runs, NEW net \in SUBSET Request,
           run' = run, network' = net, boot' = boot
    PROVE  Settled(r, net)
BY DEF Settled, OneMoves, ConnectorInv, TypeOK, RunsWait, RunWaits, Waiting, Moves

LEMMA EndFacts ==
    ASSUME ConnectorInv, NEW r \in Runs, NEW state \in {"ok", "refused"},
           NEW reason \in Reason \cup {None}, NEW net \in SUBSET Request,
           End(r, state, reason, net)
    PROVE  /\ Settled(r, net) /\ Served(r)'
           /\ run'[r].state = state /\ run'[r].reason = reason /\ run'[r].proof = None
<1> DEFINE w == [Idle EXCEPT !.state = state, !.reason = reason]
<1>1. run' = [run EXCEPT ![r] = w] /\ network' = net
  BY DEF End
<1>2. w \in Execution /\ w.state = state /\ w.reason = reason /\ w.proof = None
  BY DEF Idle, Execution
<1> HIDE DEF w
<1>3. run' \in [Runs -> Execution] /\ run'[r] = w /\ \A q \in Runs \ {r} : run'[q] = run[q]
  BY <1>1, <1>2 DEF ConnectorInv, TypeOK
<1>4. Moves(r) /\ RunWaits(r)' /\ Served(r)'
  BY <1>2, <1>3 DEF Moves, RunWaits, Served, Waiting
<1>5. QED
  BY <1>1, <1>2, <1>3, <1>4 DEF Settled, OneMoves

LEMMA SendFacts ==
    ASSUME ConnectorInv, NEW r \in Runs, NEW u \in Execution, u.state = "waiting",
           u.adapter \in Runs, boot' = boot,
           NEW stage \in Stages, NEW nonce \in Nonce \cup {None},
           NEW cred \in Credential \cup {None}, NEW net \in SUBSET Request,
           Send(r, u, stage, nonce, cred, net),
           stage # "registration-token" => cred # None /\ cred.boot <= boot,
           nonce # None => nonce.boot <= boot,
           \/ run[r].state = "idle"
           \/ run[r].proof # None /\ Ord[run[r].proof.stage] < Ord[stage]
           \/ /\ nonceRequired /\ run[r].proof # None /\ run[r].proof.nonce = None
              /\ nonce # None /\ stage = run[r].proof.stage /\ cred = run[r].cred
    PROVE  /\ Settled(r, net)
           /\ run'[r].state = "waiting" /\ run'[r].cred = cred
           /\ run'[r].proof.stage = stage /\ run'[r].proof.nonce = nonce
<1> DEFINE p == Proof(r, stage, nonce)
           w == [u EXCEPT !.proof = p, !.cred = cred]
           m == [proof |-> p, cred |-> cred, copy |-> FALSE]
<1>1. run' = [run EXCEPT ![r] = w] /\ network' = net \cup {m}
  BY DEF Send
<1>2. p \in DPoP /\ p # None /\ p.run = r /\ p.stage = stage /\ p.nonce = nonce
  BY Parts, ConnectorAssumption DEF Proof, DPoP, ConnectorInv
<1> HIDE DEF p
<1>3. /\ w \in Execution /\ w.state = "waiting" /\ w.proof = p /\ w.cred = cred
      /\ w.adapter = u.adapter
  BY <1>2 DEF Execution
<1>4. m \in Request /\ m.proof = p /\ m.cred = cred /\ ~m.copy
  BY <1>2 DEF Request
<1> HIDE DEF w, m
<1>5. run' \in [Runs -> Execution] /\ run'[r] = w /\ \A q \in Runs \ {r} : run'[q] = run[q]
  BY <1>1, <1>3 DEF ConnectorInv, TypeOK
<1>6. Moves(r)
  BY <1>2, <1>3, <1>5 DEF Moves
<1>7. RunWaits(r)'
  BY <1>2, <1>3, <1>5 DEF RunWaits, Waiting
<1>8. run'[r] # run[r]
  <2>1. CASE run[r].state = "idle"
    BY <1>3, <1>5, <2>1
  <2>2. CASE run[r].proof # None /\ Ord[run[r].proof.stage] < Ord[stage]
    <3>1. run'[r].proof.stage = stage /\ Ord[stage] \in 1..4
      BY <1>2, <1>3, <1>5, StageOrder
    <3>2. QED
      BY <2>2, <3>1
  <2>3. CASE run[r].proof.nonce = None /\ nonce # None
    BY <1>2, <1>3, <1>5, <2>3
  <2>4. QED
    BY <2>1, <2>2, <2>3
<1>9. \A o \in network' : o \in net \/ New(r, o)
  BY <1>1, <1>2, <1>3, <1>4, <1>5, <1>8 DEF New
<1>10. network' \subseteq Request
  BY <1>1, <1>4
<1>11. QED
  BY <1>2, <1>3, <1>5, <1>6, <1>7, <1>9, <1>10 DEF Settled, OneMoves

(* The invariant of a step that marks nothing and lets nothing act. *)
LEMMA QuietStep ==
    ASSUME ConnectorInv, TypeOK', NEW r \in Runs, NEW net \in SUBSET network,
           Settled(r, net), Served(r)',
           boot' = boot, nonceRequired' = nonceRequired, now' = now, acted' = acted,
           overtaken' = overtaken, doubled' = doubled, accepted' = accepted,
           issued' = issued, nonces \subseteq nonces', used' = used, registered' = registered,
           handling' \subseteq handling \cup (network \ net),
           \A m \in handling' : m \in handling \/ (Known(m) /\ Capable(m.proof))
    PROVE  ConnectorInv'
<1>1. OneMoves(r)
  BY DEF Settled
<1>2. /\ \A m \in Requests' : Old(m) \/ New(r, m)
      /\ \A m \in network' : m \in network \/ m \in handling \/ New(r, m)
      /\ \A m \in handling' : m \in handling \/ (m \in network /\ Known(m))
  BY DEF Requests, Settled, Old
<1>3. \A q \in Runs : \A s \in Stages : Kept(q, s)
  BY DEF Kept
<1>4. /\ RunsWait' /\ RequestsMade' /\ OneRequest' /\ WillBeServed'
      /\ TakenIsPast' /\ TakenOnceIsSpent'
  BY <1>1, <1>2, <1>3, FlowStep DEF TakenIsPast, TakenOnceIsSpent
<1>5. CopiesKnown'
  BY <1>1, CopiesStep DEF Settled
<1>6. \A u \in used : Made(u.proof)'
  BY <1>1, Parts, MadeStep DEF ConnectorInv, StoresAgree
<1>7. StoresAgree'
  BY <1>6 DEF ConnectorInv, StoresAgree, Capable, KeptUntil
<1>8. QED
  BY <1>4, <1>5, <1>7 DEF ConnectorInv

LEMMA BeginKeeps ==
    ASSUME ConnectorInv, NEW r \in Runs, NEW a \in 1..r, Begin(r, a)
    PROVE  ConnectorInv' /\ run'[r].state = "waiting" /\ \A q \in Runs \ {r} : run'[q] = run[q]
<1> DEFINE u == [Idle EXCEPT !.state = "waiting", !.adapter = a, !.deadline = now + Timeout]
           c == registered[a]
<1>1. /\ run[r].state = "idle" /\ a \in Runs
      /\ boot' = boot /\ nonceRequired' = nonceRequired /\ now' = now /\ acted' = acted
      /\ overtaken' = overtaken /\ doubled' = doubled /\ issued' = issued /\ nonces' = nonces
      /\ used' = used /\ registered' = registered /\ handling' = handling
      /\ accepted' = accepted
  BY ConnectorAssumption DEF Begin, IsNext, stores, history, Runs
<1>2. events' \in 0..MaxEvents
  <2>1. PICK cost \in {1, 2} : Event(cost)
    BY DEF Begin
  <2>2. QED
    BY <2>1, ConnectorAssumption DEF Event, ConnectorInv, TypeOK
<1>3. now + Timeout \in Nat
  BY Parts, ConnectorAssumption DEF ConnectorInv
<1>4. u \in Execution /\ u.state = "waiting" /\ u.adapter \in Runs
  BY <1>1, <1>3 DEF Idle, Execution
<1>5. network \in SUBSET Request
  BY DEF ConnectorInv, TypeOK
<1> HIDE DEF u
<1>6. Settled(r, network) /\ Served(r)' /\ run'[r].state = "waiting"
  <2>1. CASE c = None
    <3>1. Send(r, u, "registration-token", None, None, network)
      BY <2>1 DEF Begin, u
    <3>2. /\ Settled(r, network) /\ run'[r].state = "waiting"
          /\ run'[r].proof.stage = "registration-token" /\ run'[r].proof.nonce = None
      BY <1>1, <1>4, <1>5, <3>1, SendFacts DEF Stages
    <3>3. QED
      BY <3>2 DEF Served
  <2>2. CASE c # None
    <3>1. Send(r, u, "token", None, c, network)
      BY <2>2 DEF Begin, u
    <3>2. c \in Credential /\ c.boot <= boot /\ (c.boot = boot => c \in issued)
      BY <1>1, <2>2 DEF ConnectorInv, StoresAgree, TypeOK
    <3> HIDE DEF c
    <3>3. "token" \in Stages
      BY DEF Stages
    <3>4. /\ Settled(r, network) /\ run'[r].state = "waiting"
          /\ run'[r].cred = c /\ run'[r].proof.nonce = None
      <4>1. boot' = boot /\ run[r].state = "idle" /\ c # None
        BY <1>1, <2>2 DEF c
      <4>2. c \in Credential \cup {None} /\ c.boot <= boot
        BY <3>2
      <4>3. QED
        BY <1>4, <1>5, <3>1, <3>3, <4>1, <4>2, SendFacts
    <3>5. Served(r)'
      BY <1>1, <3>2, <3>4 DEF Served
    <3>6. QED
      BY <3>4, <3>5
  <2>3. QED
    BY <2>1, <2>2
<1>7. TypeOK'
  BY <1>1, <1>2, <1>6 DEF Settled, OneMoves, ConnectorInv, TypeOK
<1>8. ConnectorInv'
  BY <1>1, <1>6, <1>7, QuietStep
<1>9. QED
  BY <1>6, <1>8 DEF Settled, OneMoves

LEMMA EndsKeep ==
    ASSUME ConnectorInv, NEW r \in Runs, NotEnabled(r) \/ Abort(r) \/ Fail(r)
    PROVE  /\ ConnectorInv'
           /\ \A q \in Runs \ {r} : run'[q] = run[q]
           /\ run'[r].state = "disabled"
              \/ run'[r].reason \in {"CONNECTOR_TIMEOUT", "CONNECTOR_UNAVAILABLE"}
<1>1. /\ boot' = boot /\ nonceRequired' = nonceRequired /\ now' = now /\ acted' = acted
      /\ overtaken' = overtaken /\ doubled' = doubled /\ issued' = issued /\ nonces' = nonces
      /\ used' = used /\ registered' = registered /\ handling' = handling
      /\ accepted' = accepted
  BY DEF NotEnabled, Abort, Fail, Refuse, stores, history
<1>2. events' \in 0..MaxEvents
  BY ConnectorAssumption DEF NotEnabled, Abort, Fail, Event, ConnectorInv, TypeOK
<1>3. network \in SUBSET Request
  BY DEF ConnectorInv, TypeOK
<1>4. /\ Settled(r, network) /\ Served(r)'
      /\ run'[r].state = "disabled"
         \/ run'[r].reason \in {"CONNECTOR_TIMEOUT", "CONNECTOR_UNAVAILABLE"}
  <2>1. CASE NotEnabled(r)
    <3>1. run[r] \in Execution /\ run[r].proof = None
      BY <2>1 DEF NotEnabled, IsNext, ConnectorInv, TypeOK, RunsWait, RunWaits, Waiting
    <3> DEFINE w == [run[r] EXCEPT !.state = "disabled"]
    <3>2. w \in Execution /\ w.state = "disabled" /\ w.proof = None
      BY <3>1 DEF Execution
    <3>3. run' = [run EXCEPT ![r] = w] /\ network' = network
      BY <2>1, <3>1 DEF NotEnabled, ConnectorInv, TypeOK
    <3> HIDE DEF w
    <3>4. run' \in [Runs -> Execution] /\ run'[r] = w /\ \A q \in Runs \ {r} : run'[q] = run[q]
      BY <3>2, <3>3 DEF ConnectorInv, TypeOK
    <3>5. QED
      BY <1>3, <3>2, <3>3, <3>4 DEF Settled, OneMoves, Moves, RunWaits, Served, Waiting
  <2>2. CASE Abort(r) \/ Fail(r)
    <3>1. PICK reason \in {"CONNECTOR_TIMEOUT", "CONNECTOR_UNAVAILABLE"} :
             End(r, "refused", reason, network)
      BY <2>2 DEF Abort, Fail, Refuse
    <3>2. reason \in Reason
      BY DEF Reason
    <3>3. Settled(r, network) /\ Served(r)' /\ run'[r].reason = reason
      BY <1>3, <3>1, <3>2, EndFacts
    <3>4. QED
      BY <3>3
  <2>3. QED
    BY <2>1, <2>2
<1>5. TypeOK'
  BY <1>1, <1>2, <1>4 DEF Settled, OneMoves, ConnectorInv, TypeOK
<1>6. ConnectorInv'
  BY <1>1, <1>4, <1>5, QuietStep
<1>7. QED
  BY <1>4, <1>6 DEF Settled, OneMoves

LEMMA DuplicateKeeps ==
    ASSUME ConnectorInv, NEW m \in network, Duplicate(m)
    PROVE  ConnectorInv' /\ run' = run
<1> DEFINE r == m.proof.run
           copy == [m EXCEPT !.copy = TRUE]
<1>1. /\ boot' = boot /\ nonceRequired' = nonceRequired /\ now' = now /\ acted' = acted
      /\ overtaken' = overtaken /\ issued' = issued /\ nonces' = nonces /\ used' = used
      /\ registered' = registered /\ handling' = handling /\ accepted' = accepted
      /\ run' = run /\ network' = network \cup {copy} /\ doubled' = doubled \cup {m.proof}
  BY DEF Duplicate, flow, stores
<1>2. events' \in 0..MaxEvents
  BY ConnectorAssumption DEF Duplicate, Event, ConnectorInv, TypeOK
<1>3. m \in Request /\ m.proof \in DPoP /\ r \in Runs /\ m \in Requests
  BY Parts DEF ConnectorInv, TypeOK, Requests
<1>4. copy \in Request /\ copy.proof = m.proof /\ copy.cred = m.cred /\ copy.copy
  BY <1>3 DEF Request
<1> HIDE DEF copy, r
<1>5. TypeOK'
  BY <1>1, <1>2, <1>3, <1>4 DEF ConnectorInv, TypeOK
<1>6. OneMoves(r) /\ Served(r)'
  BY <1>1, <1>3 DEF ConnectorInv, TypeOK, OneMoves, Moves, RunsWait, RunWaits, WillBeServed,
                   Served, Waiting
<1>7. RequestsMade' /\ OneRequest'
  <2>1. \A o \in Requests' : Old(o) \/ New(r, o)
    BY <1>1, <1>3, <1>4 DEF Requests, Old
  <2>2. QED
    BY <1>1, <1>3, <1>5, <1>6, <2>1, RequestsStep
<1>8. RunsWait' /\ WillBeServed' /\ StoresAgree'
  BY <1>1 DEF ConnectorInv, RunsWait, RunWaits, WillBeServed, Served, StoresAgree, Made, Waiting,
              Capable, KeptUntil
<1>9. TakenIsPast'
  BY <1>1 DEF ConnectorInv, TakenIsPast, Past, Taken, At, Capable
<1>10. TakenOnceIsSpent'
  <2> SUFFICES ASSUME NEW q \in Runs, NEW s \in Stages, s # "registration-token",
                      <<q, s>> \notin overtaken
               PROVE  Once(q, s)' /\ (Taken(q, s)' => AllSpent(q, s)')
    BY <1>1 DEF TakenOnceIsSpent, OnceAndSpent
  <2>1. Once(q, s) /\ (Taken(q, s) => AllSpent(q, s))
    BY DEF ConnectorInv, TakenOnceIsSpent, OnceAndSpent
  <2>2. Once(q, s)' /\ (Taken(q, s)' <=> Taken(q, s))
    BY <1>1, <2>1 DEF Once, Taken, At
  <2>3. \A o : Spent(o) => Spent(o)'
    BY <1>1 DEF Spent, Fresh
  <2>4. copy \notin handling => (Spent(m) => Spent(copy)')
    <3>1. m \notin handling \/ m.copy
      BY <1>3 DEF ConnectorInv, CopiesKnown, AtOnePlace
    <3>2. ~m.copy
      BY DEF Duplicate
    <3>3. QED
      BY <1>1, <1>4 DEF Spent, Fresh
  <2>5. AllSpent(q, s) => AllSpent(q, s)'
    BY <1>1, <1>3, <1>4, <2>3, <2>4 DEF AllSpent, At, Capable
  <2>6. QED
    BY <2>1, <2>2, <2>5
<1>11. CopiesKnown'
  <2>1. \A o \in Requests' : o = copy \/ (o \in Requests /\ (o.copy \/ o # copy))
    BY <1>1, <1>4 DEF Requests
  <2>2. ASSUME NEW o \in Requests' PROVE IF o.copy THEN o.proof \in doubled' ELSE AtOnePlace(o)'
    BY <1>1, <1>4, <2>1 DEF ConnectorInv, CopiesKnown, AtOnePlace
  <2>3. ASSUME NEW u \in used, NEW o \in network' \cup handling', ~o.copy, o.proof = u.proof
        PROVE  o.proof \in doubled'
    BY <1>1, <1>4, <2>3 DEF ConnectorInv, CopiesKnown
  <2>4. QED
    BY <1>1, <2>2, <2>3 DEF CopiesKnown
<1>12. QED
  BY <1>1, <1>5, <1>7, <1>8, <1>9, <1>10, <1>11 DEF ConnectorInv
(* What expires with the clock is of no use any more. *)
LEMMA TickKeeps == ASSUME ConnectorInv, Tick PROVE ConnectorInv' /\ run' = run
<1>1. /\ boot' = boot /\ nonceRequired' = nonceRequired /\ acted' = acted
      /\ overtaken' = overtaken /\ doubled' = doubled /\ issued' = issued /\ events' = events
      /\ registered' = registered /\ handling' = handling /\ accepted' = accepted
      /\ run' = run /\ network' = network /\ now < MaxTime /\ now' = now + 1
      /\ nonces' = {n \in nonces : now' < n.exp} /\ used' = {u \in used : now' < u.exp}
  BY DEF Tick, flow, history
<1>2. now \in Nat /\ now' \in Nat /\ TypeOK'
  BY <1>1, ConnectorAssumption DEF ConnectorInv, TypeOK
<1>3. RunsWait' /\ RequestsMade' /\ OneRequest' /\ StoresAgree'
  BY <1>1 DEF ConnectorInv, RunsWait, RunWaits, Waiting, RequestsMade, Requests, MadeByRun, Made,
              OneRequest, Same, Capable, StoresAgree, KeptUntil
<1>4. CopiesKnown' /\ TakenIsPast'
  BY <1>1 DEF ConnectorInv, CopiesKnown, AtOnePlace, Requests, TakenIsPast, Past, Taken, At, Capable
<1>5. WillBeServed'
  <2> SUFFICES ASSUME NEW r \in Runs, Served(r) PROVE Served(r)'
    BY DEF ConnectorInv, WillBeServed
  <2>1. ASSUME Waiting(r), run[r].proof.nonce # None PROVE run[r].proof.nonce.exp \in Nat
    <3>1. run[r].proof \in DPoP
      BY <2>1, Parts DEF ConnectorInv, RunsWait, RunWaits
    <3>2. QED
      BY <2>1, <3>1, Parts DEF ConnectorInv
  <2>2. QED
    BY <1>1, <1>2, <2>1 DEF Served, Waiting
<1>6. ASSUME NEW m \in Requests, Spent(m) PROVE Spent(m)'
  <2>1. m.proof.iat \in Nat
    BY Parts DEF ConnectorInv
  <2>2. CASE ~Fresh(m.proof)
    BY <1>1, <1>2, <2>1, <2>2, ConnectorAssumption DEF Spent, Fresh
  <2>3. CASE \E u \in used : u.proof = m.proof
    <3>1. PICK u \in used : u.proof = m.proof
      BY <2>3
    <3>2. u.exp = m.proof.iat + ProofLifespan + ClockSkew
      BY <3>1 DEF ConnectorInv, StoresAgree, KeptUntil
    <3>3. QED
      BY <1>1, <3>1, <3>2 DEF Spent, Fresh
  <2>4. QED
    BY <1>1, <1>6, <2>2, <2>3 DEF Spent
<1>7. TakenOnceIsSpent'
  <2>1. \A r \in Runs : \A s \in Stages : /\ Once(r, s)' <=> Once(r, s)
                                          /\ Taken(r, s)' <=> Taken(r, s)
    BY <1>1 DEF Once, Taken, At
  <2>2. \A r \in Runs : \A s \in Stages : AllSpent(r, s) => AllSpent(r, s)'
    BY <1>1, <1>6 DEF AllSpent, At, Capable, Requests
  <2>3. QED
    BY <1>1, <2>1, <2>2 DEF ConnectorInv, TakenOnceIsSpent, OnceAndSpent
<1>8. QED
  BY <1>1, <1>2, <1>3, <1>4, <1>5, <1>7 DEF ConnectorInv

(* A restart forgets which proofs were used, and whose credentials they    *)
(* came with.                                                              *)
LEMMA RestartKeeps == ASSUME ConnectorInv, Restart PROVE ConnectorInv' /\ run' = run
<1>1. /\ boot' = boot + 1 /\ nonceRequired' = nonceRequired /\ acted' = acted /\ now' = now
      /\ overtaken' = overtaken /\ doubled' = doubled /\ issued' = {} /\ nonces' = {}
      /\ used' = {} /\ handling' = {} /\ accepted' = {}
      /\ registered' = registered /\ network' = network /\ run' = run
  BY DEF Restart, history, flow
<1>2. events' \in 0..MaxEvents
  BY ConnectorAssumption DEF Restart, Event, ConnectorInv, TypeOK
<1>3. boot \in Nat /\ boot' \in Nat
  BY <1>1 DEF ConnectorInv, TypeOK
<1>4. TypeOK'
  BY <1>1, <1>2, <1>3 DEF ConnectorInv, TypeOK
<1>5. /\ \A c \in Credential : c.boot <= boot => c.boot < boot' /\ c.boot <= boot' /\ c.boot # boot'
      /\ \A n \in Nonce : n.boot <= boot => n.boot <= boot' /\ n.boot # boot'
  BY <1>1, <1>3, Parts DEF ConnectorInv
<1>6. RunsWait' /\ WillBeServed'
  <2> SUFFICES ASSUME NEW r \in Runs PROVE RunWaits(r)' /\ Served(r)'
    BY DEF RunsWait, WillBeServed
  <2>1. /\ RunWaits(r) /\ run[r].cred \in Credential \cup {None}
        /\ run[r].proof # None => run[r].proof.nonce \in Nonce \cup {None}
    BY Parts DEF ConnectorInv, RunsWait
  <2>2. QED
    BY <1>1, <1>5, <2>1 DEF RunWaits, Served, Waiting
<1>7. \A m \in Requests' : m \in network /\ m \in Requests /\ m \notin handling'
  BY <1>1 DEF Requests
<1>8. RequestsMade'
  <2> SUFFICES ASSUME NEW m \in Requests' PROVE MadeByRun(m)'
    BY DEF RequestsMade
  <2>1. MadeByRun(m) /\ m.cred \in Credential \cup {None}
    BY <1>7, Parts DEF ConnectorInv, RequestsMade
  <2>2. QED
    BY <1>1, <1>5, <2>1 DEF MadeByRun, Made, Capable
<1>9. OneRequest' /\ CopiesKnown'
  BY <1>1, <1>7 DEF ConnectorInv, OneRequest, Same, Capable, CopiesKnown, AtOnePlace
<1>10. StoresAgree'
  BY <1>1, <1>5 DEF ConnectorInv, StoresAgree, TypeOK
<1>11. TakenIsPast'
  BY <1>1 DEF ConnectorInv, TakenIsPast, Past, Taken, Capable
<1>12. TakenOnceIsSpent'
  <2> SUFFICES ASSUME NEW r \in Runs, NEW s \in Stages, s # "registration-token",
                      <<r, s>> \notin overtaken
               PROVE  Once(r, s)' /\ AllSpent(r, s)'
    BY <1>1 DEF TakenOnceIsSpent, OnceAndSpent
  <2>1. Once(r, s)'
    BY <1>1 DEF ConnectorInv, TakenOnceIsSpent, OnceAndSpent, Once
  <2>2. ASSUME NEW m \in Requests', At(m, r, s) PROVE Spent(m)'
    <3>1. m.cred # None /\ m.cred.boot <= boot /\ m.cred \in Credential \cup {None}
      BY <1>7, <2>2, Parts DEF ConnectorInv, RequestsMade, MadeByRun, At
    <3>2. QED
      BY <1>5, <1>7, <3>1 DEF Spent
  <2>3. QED
    BY <2>1, <2>2 DEF AllSpent, At, Requests
<1>13. QED
  BY <1>1, <1>4, <1>6, <1>8, <1>9, <1>10, <1>11, <1>12 DEF ConnectorInv

Causes == \A r \in Runs : Waiting(r) /\ run'[r].state = "refused" => Cause(r)

(* What is refused in a step is a request that its run awaits. *)
LEMMA CausesOf ==
    ASSUME ConnectorInv, NEW r \in Runs, OneMoves(r),
           run'[r] = run[r] \/ run'[r].state # "refused" \/ Cause(r)
    PROVE  Causes
BY DEF Causes, Waiting, OneMoves

LEMMA DeliverKeeps ==
    ASSUME ConnectorInv, NEW m \in network, Deliver(m)
    PROVE  ConnectorInv' /\ Causes
<1> DEFINE p == m.proof
           r == m.proof.run
           net == network \ {m}
<1>1. /\ boot' = boot /\ nonceRequired' = nonceRequired /\ now' = now /\ acted' = acted
      /\ overtaken' = overtaken /\ doubled' = doubled /\ accepted' = accepted
      /\ issued' = issued /\ used' = used /\ events' = events
  BY DEF Deliver, history
<1>2. /\ m \in Request /\ r \in Runs /\ p \in DPoP /\ p # None /\ p.stage \in Stages
      /\ p.nonce \in Nonce \cup {None} /\ m \in Requests
      /\ net \in SUBSET Request /\ net \in SUBSET network
  BY Parts DEF ConnectorInv, TypeOK, Requests
<1>3. now \in Nat /\ boot \in Nat
  BY Parts DEF ConnectorInv
<1>4. ASSUME run' = run, network' = net, nonces \subseteq nonces'
      PROVE  Settled(r, net) /\ Served(r)'
  <2>1. Settled(r, net)
    BY <1>1, <1>2, <1>4, StaysSettled
  <2>2. Served(r)'
    BY <1>1, <1>2, <1>4 DEF ConnectorInv, WillBeServed, Served, Waiting
  <2>3. QED
    BY <2>1, <2>2
<1>5. /\ RunWaits(r) /\ Served(r)
      /\ run[r].proof = p => m.cred = run[r].cred /\ Waiting(r)
  BY <1>2 DEF ConnectorInv, RunsWait, RunWaits, WillBeServed, RequestsMade, MadeByRun
<1>6. CASE ~(Known(m) /\ Fresh(p)) /\ Answer(m, Refuse(r, ReasonFor(m), net), net)
           /\ UNCHANGED <<handling, nonces>>
  <2>1. registered' = registered
    BY <1>6 DEF Answer, Refuse, flow
  <2>2. Settled(r, net) /\ Served(r)' /\ (run'[r] = run[r] \/ Cause(r))
    <3>1. CASE ~m.copy /\ run[r].proof = p
      <4>1. End(r, "refused", ReasonFor(m), net)
        BY <1>6, <3>1 DEF Answer, Refuse
      <4>2. ReasonFor(m) \in {"invalid_client", "invalid_token", "dpop_invalid_proof"}
            /\ (Known(m) => ReasonFor(m) = "dpop_invalid_proof")
        BY DEF ReasonFor
      <4>3. ReasonFor(m) \in Reason
        BY <4>2 DEF Reason
      <4>4. Settled(r, net) /\ Served(r)' /\ run'[r].reason = ReasonFor(m)
        BY <1>2, <4>1, <4>3, EndFacts
      <4>5. ~Known(m) => run[r].cred # None /\ run[r].cred.boot < boot
        <5> SUFFICES ASSUME ~Known(m) PROVE run[r].cred # None /\ run[r].cred.boot < boot
          OBVIOUS
        <5>1. p.stage # "registration-token" /\ run[r].cred \notin issued
          BY <1>5, <3>1 DEF Known
        <5>2. run[r].cred # None /\ run[r].cred.boot <= boot /\ run[r].cred.boot # boot
          BY <1>2, <1>5, <3>1, <5>1 DEF RunWaits, Served
        <5>3. run[r].cred.boot \in Nat
          BY <1>2, <5>2, Parts DEF ConnectorInv
        <5>4. QED
          BY <1>3, <5>2, <5>3
      <4>6. Cause(r)
        BY <4>2, <4>4, <4>5 DEF Cause
      <4>7. QED
        BY <4>4, <4>6
    <3>2. CASE ~(~m.copy /\ run[r].proof = p)
      BY <1>4, <1>6, <3>2 DEF Answer, flow
    <3>3. QED
      BY <3>1, <3>2
  <2>3. TypeOK'
    BY <1>1, <1>6, <2>1, <2>2 DEF Settled, OneMoves, ConnectorInv, TypeOK
  <2>4. ConnectorInv'
    BY <1>1, <1>2, <1>6, <2>1, <2>2, <2>3, QuietStep
  <2>5. Causes
    BY <1>2, <2>2, CausesOf DEF Settled
  <2>6. QED
    BY <2>4, <2>5
<1>7. CASE /\ Known(m) /\ Fresh(p) /\ nonceRequired /\ ~IsNonceValid(p.nonce)
           /\ nonces' = nonces \cup {Challenge(p)}
           /\ Answer(m, Challenged(r, Challenge(p), net), net)
           /\ UNCHANGED handling
  <2> DEFINE c == Challenge(p)
  <2>1. c \in Nonce /\ c # None /\ c.boot = boot /\ c \in nonces'
    BY <1>2, <1>3, <1>7, ConnectorAssumption, Parts DEF Challenge, Nonce, ConnectorInv
  <2>2. registered' = registered
    BY <1>7 DEF Answer, Challenged, Refuse, flow
  <2>3. /\ Settled(r, net) /\ Served(r)'
        /\ run'[r] = run[r] \/ run'[r].state # "refused" \/ Cause(r)
    <3>1. CASE ~(~m.copy /\ run[r].proof = p)
      BY <1>4, <1>7, <3>1 DEF Answer, flow
    <3>2. CASE ~m.copy /\ run[r].proof = p /\ p.nonce # None
      <4>1. End(r, "refused", "dpop_use_nonce", net)
        BY <1>7, <3>2 DEF Answer, Challenged, Refuse
      <4>2. "dpop_use_nonce" \in Reason
        BY DEF Reason
      <4>3. Settled(r, net) /\ Served(r)' /\ run'[r].reason = "dpop_use_nonce"
        BY <1>2, <4>1, <4>2, EndFacts
      <4>4. p.nonce.exp <= now \/ p.nonce.boot < boot
        <5>1. p.nonce.exp \in Nat /\ p.nonce.boot \in Nat
          BY <1>2, <3>2, Parts DEF ConnectorInv
        <5>2. p.nonce \notin nonces \/ p.nonce.exp <= now
          BY <1>3, <1>7, <5>1 DEF IsNonceValid
        <5>3. p.nonce.boot <= boot
          BY <1>2, <1>5, <3>2 DEF RunWaits
        <5>4. p.nonce.boot = boot => p.nonce \in nonces \/ p.nonce.exp <= now
          BY <1>5, <3>2 DEF Served
        <5>5. QED
          BY <1>3, <5>1, <5>2, <5>3, <5>4
      <4>5. Cause(r)
        BY <3>2, <4>3, <4>4 DEF Cause
      <4>6. QED
        BY <4>3, <4>5
    <3>3. CASE ~m.copy /\ run[r].proof = p /\ p.nonce = None
      <4>1. Send(r, run[r], p.stage, c, run[r].cred, net)
        BY <1>7, <3>3 DEF Answer, Challenged, Retry
      <4>2. /\ run[r] \in Execution /\ run[r].adapter \in Runs /\ run[r].state = "waiting"
            /\ run[r].cred \in Credential \cup {None}
            /\ p.stage # "registration-token" => run[r].cred # None /\ run[r].cred.boot <= boot
        BY <1>2, <1>5, <3>3, Parts DEF ConnectorInv, RunWaits, Waiting
      <4>3. nonceRequired /\ run[r].proof # None /\ run[r].proof.nonce = None
        BY <1>2, <1>7, <3>3
      <4>4. c.boot <= boot /\ p.stage = run[r].proof.stage
        BY <1>3, <2>1, <3>3
      <4> HIDE DEF c, p, r, net
      <4>5. /\ Settled(r, net)
            /\ run'[r].state = "waiting" /\ run'[r].cred = run[r].cred
            /\ run'[r].proof.stage = p.stage /\ run'[r].proof.nonce = c
        BY <1>1, <1>2, <2>1, <4>1, <4>2, <4>3, <4>4, SendFacts
      <4>6. Served(r)'
        BY <1>1, <1>5, <2>1, <3>3, <4>2, <4>5 DEF Served, Waiting
      <4>7. QED
        BY <4>5, <4>6
    <3>4. QED
      BY <3>1, <3>2, <3>3
  <2>4. TypeOK'
    BY <1>1, <1>7, <2>1, <2>2, <2>3 DEF Settled, OneMoves, ConnectorInv, TypeOK
  <2>5. ConnectorInv'
    BY <1>1, <1>2, <1>7, <2>2, <2>3, <2>4, QuietStep
  <2>6. Causes
    BY <1>2, <2>3, CausesOf DEF Settled
  <2>7. QED
    BY <2>5, <2>6
<1>8. CASE /\ Known(m) /\ Fresh(p)
           /\ nonceRequired => IsNonceValid(p.nonce)
           /\ handling' = handling \cup {m} /\ network' = net
           /\ UNCHANGED <<flow, nonces>>
  <2>1. registered' = registered /\ run' = run /\ nonces' = nonces
    BY <1>8 DEF flow
  <2>2. Settled(r, net) /\ Served(r)'
    BY <1>4, <1>8, <2>1
  <2>3. Capable(p)
    BY <1>8, ConnectorAssumption DEF Capable, IsNonceValid, ConnectorInv, TypeOK
  <2>4. TypeOK'
    BY <1>1, <1>2, <1>8, <2>1, <2>2 DEF Settled, OneMoves, ConnectorInv, TypeOK
  <2>5. ConnectorInv'
    BY <1>1, <1>2, <1>8, <2>1, <2>2, <2>3, <2>4, QuietStep
  <2>6. Causes
    BY <1>2, <2>1, <2>2, CausesOf DEF Settled
  <2>7. QED
    BY <2>5, <2>6
<1>9. QED
  BY <1>6, <1>7, <1>8 DEF Deliver
(* A proof that is marked: what could take effect at its stage is spent. *)
LEMMA MarkKeeps ==
    ASSUME ConnectorInv, NEW m \in handling, Mark(m)
    PROVE  ConnectorInv' /\ Causes
<1> DEFINE p == m.proof
           r == m.proof.run
           stage == m.proof.stage
           record == [proof |-> p, exp |-> KeptUntil(p)]
<1>1. /\ boot' = boot /\ nonceRequired' = nonceRequired /\ now' = now /\ nonces' = nonces
      /\ issued' = issued /\ events' = events /\ handling' = handling \ {m}
  BY DEF Mark
<1>2. /\ m \in Request /\ r \in Runs /\ p \in DPoP /\ p # None /\ stage \in Stages
      /\ m \in Requests /\ network \in SUBSET Request /\ Capable(p) /\ MadeByRun(m)
  BY Parts DEF ConnectorInv, TypeOK, Requests, StoresAgree, RequestsMade
<1>3. ASSUME run' = run, network' = network PROVE Settled(r, network) /\ Served(r)'
  <2>1. Settled(r, network)
    BY <1>1, <1>2, <1>3, StaysSettled
  <2>2. Served(r)'
    BY <1>1, <1>2, <1>3 DEF ConnectorInv, WillBeServed, Served, Waiting
  <2>3. QED
    BY <2>1, <2>2
<1>4. CASE AlreadyUsed(p) /\ Answer(m, Refuse(r, "dpop_replayed", network), network)
           /\ UNCHANGED <<accepted, used, history>>
  <2>1. /\ registered' = registered /\ accepted' = accepted /\ used' = used
        /\ acted' = acted /\ overtaken' = overtaken /\ doubled' = doubled
    BY <1>4 DEF Answer, Refuse, flow, history
  <2>2. Settled(r, network) /\ Served(r)' /\ (run'[r] = run[r] \/ Cause(r))
    <3>1. CASE ~m.copy /\ run[r].proof = p
      <4>1. End(r, "refused", "dpop_replayed", network) /\ "dpop_replayed" \in Reason
        BY <1>4, <3>1 DEF Answer, Refuse, Reason
      <4>2. Settled(r, network) /\ Served(r)' /\ run'[r].reason = "dpop_replayed"
        BY <1>2, <4>1, EndFacts
      <4>3. p \in doubled
        BY <1>4, <3>1 DEF AlreadyUsed, ConnectorInv, CopiesKnown
      <4>4. Cause(r)
        BY <3>1, <4>2, <4>3 DEF Cause
      <4>5. QED
        BY <4>2, <4>4
    <3>2. CASE ~(~m.copy /\ run[r].proof = p)
      BY <1>3, <1>4, <3>2 DEF Answer, flow
    <3>3. QED
      BY <3>1, <3>2
  <2>3. TypeOK'
    BY <1>1, <2>1, <2>2 DEF Settled, OneMoves, ConnectorInv, TypeOK
  <2>4. ConnectorInv'
    BY <1>1, <1>2, <2>1, <2>2, <2>3, QuietStep
  <2>5. Causes
    BY <1>2, <2>2, CausesOf DEF Settled
  <2>6. QED
    BY <2>4, <2>5
<1>5. CASE /\ ~AlreadyUsed(p)
           /\ used' = used \cup {record}
           /\ accepted' = accepted \cup {m}
           /\ overtaken' = IF Fresh(p) THEN overtaken ELSE overtaken \cup {<<r, stage>>}
           /\ UNCHANGED <<flow, network, acted, doubled>>
  <2>1. /\ run' = run /\ registered' = registered /\ network' = network /\ acted' = acted
        /\ doubled' = doubled
    BY <1>5 DEF flow
  <2>2. Settled(r, network) /\ Served(r)' /\ OneMoves(r)
    BY <1>3, <2>1 DEF Settled
  <2>3. KeptUntil(p) \in Nat
    BY <1>2, Parts, ConnectorAssumption DEF KeptUntil, ConnectorInv
  <2>4. TypeOK'
    <3>1. /\ used' \subseteq [proof : DPoP, exp : Nat] /\ accepted' \subseteq Request
          /\ overtaken' \subseteq Runs \X Stages
      BY <1>2, <1>5, <2>3 DEF ConnectorInv, TypeOK
    <3>2. QED
      BY <1>1, <2>1, <3>1 DEF ConnectorInv, TypeOK
  <2>5. /\ RunsWait' /\ RequestsMade' /\ OneRequest' /\ WillBeServed'
        /\ \A q \in Runs : \A s \in Stages : Kept(q, s) => Past(q, s)' /\ OnceAndSpent(q, s)'
    <3>1. \A o \in Requests' : Old(o) \/ New(r, o)
      BY <1>1, <1>2, <1>5, <2>1 DEF Requests, Old
    <3>2. overtaken \subseteq overtaken' /\ used \subseteq used'
      BY <1>5
    <3>3. QED
      BY <1>1, <1>2, <2>1, <2>2, <2>4, <3>1, <3>2, FlowStep
  <2>6. \A q \in Runs : \A s \in Stages : <<q, s>> # <<r, stage>> => Kept(q, s)
    BY <1>5, <2>1 DEF Kept, At
  <2>7. Past(r, stage)'
    <3>1. /\ run[r].state # "idle"
          /\ run[r].proof # None => /\ Ord[stage] <= Ord[run[r].proof.stage]
                                    /\ stage = run[r].proof.stage => p = run[r].proof
      BY <1>2 DEF MadeByRun, Made
    <3>2. run[r].proof # None => run[r].proof.stage \in Stages
      BY <1>2, Parts DEF ConnectorInv
    <3>3. run[r].proof # None =>
             Ord[stage] < Ord[run[r].proof.stage] \/ (stage = run[r].proof.stage /\ Capable(run[r].proof))
      <4>1. run[r].proof # None => Ord[stage] < Ord[run[r].proof.stage] \/ stage = run[r].proof.stage
        <5>1. Ord[stage] \in 1..4
          BY <1>2, StageOrder
        <5>2. run[r].proof # None => /\ Ord[run[r].proof.stage] \in 1..4
                                     /\ Ord[stage] = Ord[run[r].proof.stage] => stage = run[r].proof.stage
          BY <1>2, <3>2, StageOrder
        <5>3. QED
          BY <3>1, <5>1, <5>2
      <4>2. QED
        BY <1>2, <3>1, <4>1
    <3>4. QED
      BY <1>1, <2>1, <3>1, <3>3 DEF Past, Capable
  <2>8. OnceAndSpent(r, stage)'
    <3> SUFFICES ASSUME stage # "registration-token", <<r, stage>> \notin overtaken'
                 PROVE  Once(r, stage)' /\ AllSpent(r, stage)'
      BY DEF OnceAndSpent
    <3>1. Fresh(p) /\ <<r, stage>> \notin overtaken
      BY <1>5
    <3>2. ~Spent(m)
      <4>1. ASSUME NEW u \in used, u.proof = p PROVE FALSE
        <5>1. u.exp = KeptUntil(p)
          BY <4>1 DEF ConnectorInv, StoresAgree
        <5>2. now < u.exp
          BY <3>1, <5>1 DEF Fresh, KeptUntil
        <5>3. QED
          BY <1>5, <4>1, <5>2 DEF AlreadyUsed
      <4>2. QED
        BY <3>1, <4>1 DEF Spent
    <3>3. ~AllSpent(r, stage)
      BY <1>2, <3>2 DEF AllSpent, At
    <3>4. ~Taken(r, stage) /\ Once(r, stage)
      BY <1>2, <3>1, <3>3 DEF ConnectorInv, TakenOnceIsSpent, OnceAndSpent
    <3>5. acted[r][stage] = 0
      <4>1. acted[r][stage] \in Nat
        BY <1>2 DEF ConnectorInv, TypeOK
      <4>2. QED
        BY <3>4, <4>1 DEF Taken
    <3>6. Once(r, stage)'
      BY <1>5, <2>1, <3>4, <3>5 DEF Once, Taken, At
    <3>7. ASSUME NEW o \in network' \cup handling', At(o, r, stage), Capable(o.proof)
          PROVE  o.proof = p
      <4>1. o \in Requests
        BY <1>1, <2>1 DEF Requests
      <4>2. Same(o, m)
        BY <1>2, <4>1 DEF ConnectorInv, OneRequest
      <4>3. QED
        BY <1>2, <3>7, <4>2 DEF Same, At
    <3>8. AllSpent(r, stage)'
      BY <1>1, <1>5, <3>7 DEF AllSpent, At, Capable, Spent
    <3>9. QED
      BY <3>6, <3>8
  <2>9. TakenIsPast' /\ TakenOnceIsSpent'
    <3> SUFFICES ASSUME NEW q \in Runs, NEW s \in Stages PROVE Past(q, s)' /\ OnceAndSpent(q, s)'
      BY DEF TakenIsPast, TakenOnceIsSpent
    <3>1. CASE q = r /\ s = stage
      BY <2>7, <2>8, <3>1
    <3>2. CASE ~(q = r /\ s = stage)
      BY <2>5, <2>6, <3>2
    <3>3. QED
      BY <3>1, <3>2
  <2>10. StoresAgree'
    <3>1. \A u \in used' : u.exp = KeptUntil(u.proof) /\ Made(u.proof)
      BY <1>2, <1>5 DEF ConnectorInv, StoresAgree, MadeByRun
    <3>2. \A n : Made(n)' <=> Made(n)
      BY <1>1, <2>1 DEF Made, Capable
    <3>3. \A n \in handling' \cup accepted' : Capable(n.proof)'
      BY <1>1, <1>2, <1>5 DEF ConnectorInv, StoresAgree, Capable
    <3>4. QED
      BY <1>1, <2>1, <3>1, <3>2, <3>3 DEF ConnectorInv, StoresAgree, KeptUntil
  <2>11. CopiesKnown'
    <3>1. \A o \in Requests' : o \in Requests
      BY <1>1, <1>2, <1>5, <2>1 DEF Requests
    <3>2. ASSUME NEW o \in Requests' PROVE IF o.copy THEN o.proof \in doubled' ELSE AtOnePlace(o)'
      <4>1. IF o.copy THEN o.proof \in doubled ELSE AtOnePlace(o)
        BY <3>1 DEF ConnectorInv, CopiesKnown
      <4>2. CASE o.copy
        BY <2>1, <4>1, <4>2
      <4>3. CASE ~o.copy
        BY <1>1, <1>5, <2>1, <4>1, <4>3 DEF AtOnePlace
      <4>4. QED
        BY <4>2, <4>3
    <3>3. ASSUME NEW o \in network' \cup handling', ~o.copy, o.proof = p
          PROVE  o.proof \in doubled
      <4>1. CASE m.copy
        BY <1>2, <3>3, <4>1 DEF ConnectorInv, CopiesKnown
      <4>2. CASE ~m.copy
        <5>1. o \in Requests
          BY <1>1, <2>1 DEF Requests
        <5>2. o.cred = m.cred /\ o \in Request
          BY <1>2, <3>3, <5>1, Parts DEF ConnectorInv, OneRequest, Same
        <5>3. o.copy = FALSE /\ m.copy = FALSE
          BY <1>2, <3>3, <4>2, <5>2, Parts DEF ConnectorInv
        <5>4. o = m
          BY <1>2, <3>3, <5>2, <5>3 DEF Request
        <5>5. m \notin network
          BY <1>2, <4>2 DEF ConnectorInv, CopiesKnown, AtOnePlace
        <5>6. QED
          BY <1>1, <2>1, <3>3, <5>4, <5>5
      <4>3. QED
        BY <4>1, <4>2
    <3>4. ASSUME NEW u \in used', NEW o \in network' \cup handling', ~o.copy, o.proof = u.proof
          PROVE  o.proof \in doubled'
      <4>1. CASE u \in used
        BY <1>1, <2>1, <3>4, <4>1 DEF ConnectorInv, CopiesKnown
      <4>2. CASE u = record
        BY <2>1, <3>3, <3>4, <4>2
      <4>3. QED
        BY <1>5, <4>1, <4>2
    <3>5. QED
      BY <3>2, <3>4 DEF CopiesKnown
  <2>12. ConnectorInv'
    BY <2>4, <2>5, <2>9, <2>10, <2>11 DEF ConnectorInv
  <2>13. Causes
    BY <1>2, <2>1, <2>2, CausesOf
  <2>14. QED
    BY <2>12, <2>13
<1>6. QED
  BY <1>4, <1>5 DEF Mark

(* A request that takes effect: what its run goes on with, if it was the   *)
(* original and the run has waited.                                        *)
LEMMA ActAnswers ==
    ASSUME ConnectorInv, NEW m \in accepted, Act(m)
    PROVE  LET r == m.proof.run
               stage == m.proof.stage
               made == [run |-> r, stage |-> stage, boot |-> boot]
           IN  /\ Settled(r, network) /\ Served(r)'
               /\ registered' = registered
                  \/ (registered' = [registered EXCEPT ![run[r].adapter] = made] /\ made \in issued')
               /\ run'[r] = run[r] \/ run'[r].proof = None
                  \/ Ord[stage] < Ord[run'[r].proof.stage]
               /\ run'[r] = run[r] \/ run'[r].state # "refused"
<1> DEFINE p == m.proof
           r == m.proof.run
           stage == m.proof.stage
           made == [run |-> r, stage |-> stage, boot |-> boot]
<1>1. /\ boot' = boot /\ nonceRequired' = nonceRequired /\ now' = now /\ nonces' = nonces
      /\ issued' = IF stage = "protected-call" THEN issued ELSE issued \cup {made}
      /\ Answer(m, Proceed(r, made, network), network)
  BY DEF Act
<1>2. /\ m \in Request /\ r \in Runs /\ p \in DPoP /\ p # None /\ stage \in Stages
      /\ network \in SUBSET Request
  BY Parts DEF ConnectorInv, TypeOK, Requests
<1>3. boot \in Nat
  BY Parts DEF ConnectorInv
<1>4. made \in Credential /\ made # None /\ made.boot = boot
  BY <1>2, <1>3, ConnectorAssumption DEF Credential
<1>5. CASE ~(~m.copy /\ run[r].proof = p)
  <2>1. run' = run /\ registered' = registered /\ network' = network
    BY <1>1, <1>5 DEF Answer, flow
  <2>2. Settled(r, network)
    BY <1>1, <1>2, <2>1, StaysSettled
  <2>3. Served(r)'
    BY <1>1, <1>2, <2>1 DEF ConnectorInv, WillBeServed, Served, Waiting
  <2>4. QED
    BY <2>1, <2>2, <2>3
<1>6. CASE ~m.copy /\ run[r].proof = p /\ stage = "protected-call"
  <2>1. End(r, "ok", None, network) /\ registered' = registered
    BY <1>1, <1>6 DEF Answer, Proceed
  <2>2. Settled(r, network) /\ Served(r)' /\ run'[r].state = "ok" /\ run'[r].proof = None
    BY <1>2, <2>1, EndFacts
  <2>3. QED
    BY <2>1, <2>2
<1>7. CASE ~m.copy /\ run[r].proof = p /\ stage # "protected-call"
  <2>1. /\ Send(r, run[r], After[stage], None, made, network)
        /\ registered' = IF stage = "registration"
                         THEN [registered EXCEPT ![run[r].adapter] = made] ELSE registered
    BY <1>1, <1>7 DEF Answer, Proceed
  <2>2. made \in issued'
    BY <1>1, <1>7
  <2>3. After[stage] \in Stages /\ Ord[stage] < Ord[After[stage]]
    BY <1>2, <1>7, StageOrder
  <2>4. run[r] \in Execution /\ run[r].state = "waiting" /\ run[r].adapter \in Runs
    BY <1>2, <1>7, Parts DEF ConnectorInv, RunsWait, RunWaits, Waiting
  <2>5. run[r].proof # None /\ Ord[run[r].proof.stage] < Ord[After[stage]]
    BY <1>2, <1>7, <2>3
  <2>6. made \in Credential \cup {None} /\ made.boot <= boot
    BY <1>3, <1>4
  <2> HIDE DEF made, stage, r
  <2>7. /\ Settled(r, network)
        /\ run'[r].state = "waiting" /\ run'[r].cred = made
        /\ run'[r].proof.stage = After[stage] /\ run'[r].proof.nonce = None
    <3>1. boot' = boot /\ made # None
      BY <1>1, <1>4 DEF made
    <3>2. Send(r, run[r], After[stage], None, made, network)
      BY <2>1
    <3>3. r \in Runs /\ network \in SUBSET Request
      BY <1>2 DEF r
    <3>4. QED
      BY <2>3, <2>4, <2>5, <2>6, <3>1, <3>2, <3>3, SendFacts
  <2>8. Served(r)'
    BY <2>2, <2>7 DEF Served
  <2>9. QED
    BY <2>1, <2>2, <2>3, <2>7, <2>8 DEF made, stage, r
<1>8. QED
  BY <1>5, <1>6, <1>7

LEMMA ActKeeps ==
    ASSUME ConnectorInv, NEW m \in accepted, Act(m)
    PROVE  ConnectorInv' /\ Causes
<1> DEFINE p == m.proof
           r == m.proof.run
           stage == m.proof.stage
           made == [run |-> r, stage |-> stage, boot |-> boot]
<1>1. /\ boot' = boot /\ nonceRequired' = nonceRequired /\ now' = now /\ nonces' = nonces
      /\ used' = used /\ overtaken' = overtaken /\ doubled' = doubled /\ events' = events
      /\ handling' = handling /\ accepted' = accepted \ {m}
      /\ issued' = IF stage = "protected-call" THEN issued ELSE issued \cup {made}
      /\ acted' = [acted EXCEPT ![r][stage] = @ + 1]
  BY DEF Act
<1>2. m \in Request /\ r \in Runs /\ stage \in Stages /\ network \in SUBSET Request
  BY Parts DEF ConnectorInv, TypeOK, Requests
<1>3. made \in Credential /\ made # None /\ made.boot = boot /\ boot \in Nat
  BY <1>2, Parts, ConnectorAssumption DEF Credential, ConnectorInv
<1>4. /\ Settled(r, network) /\ Served(r)'
      /\ registered' = registered
         \/ (registered' = [registered EXCEPT ![run[r].adapter] = made] /\ made \in issued')
      /\ run'[r] = run[r] \/ run'[r].proof = None
         \/ Ord[stage] < Ord[run'[r].proof.stage]
      /\ run'[r] = run[r] \/ run'[r].state # "refused"
  BY ActAnswers
<1> HIDE DEF made
<1>5. OneMoves(r)
  BY <1>4 DEF Settled
<1>6. /\ acted' \in [Runs -> [Stages -> Nat]]
      /\ acted'[r][stage] = acted[r][stage] + 1 /\ acted[r][stage] \in Nat
      /\ \A q \in Runs : \A s \in Stages : <<q, s>> # <<r, stage>> => acted'[q][s] = acted[q][s]
  BY <1>1, <1>2 DEF ConnectorInv, TypeOK
<1>7. issued \subseteq issued' /\ issued' \subseteq Credential
  BY <1>1, <1>3 DEF ConnectorInv, TypeOK
<1>8. registered' \in [Runs -> Credential \cup {None}]
  BY <1>3, <1>4 DEF ConnectorInv, TypeOK
<1>9. TypeOK'
  <2>1. run' \in [Runs -> Execution] /\ network' \subseteq Request
    BY <1>4, <1>5 DEF Settled, OneMoves
  <2>2. QED
    BY <1>1, <1>6, <1>7, <1>8, <2>1 DEF ConnectorInv, TypeOK
<1>10. /\ RunsWait' /\ RequestsMade' /\ OneRequest' /\ WillBeServed'
       /\ \A q \in Runs : \A s \in Stages : Kept(q, s) => Past(q, s)' /\ OnceAndSpent(q, s)'
  <2>1. /\ \A o \in Requests' : Old(o) \/ New(r, o)
        /\ \A o \in network' : o \in network \/ New(r, o)
    BY <1>1, <1>4 DEF Requests, Settled, Old
  <2>2. QED
    BY <1>1, <1>2, <1>4, <1>5, <1>7, <1>9, <2>1, FlowStep
<1>11. \A q \in Runs : \A s \in Stages : <<q, s>> # <<r, stage>> => Kept(q, s)
  BY <1>1, <1>6 DEF Kept, At
<1>12. Taken(r, stage)
  BY DEF Taken, At
<1>13. Past(r, stage)'
  <2>1. Past(r, stage) /\ run'[r].state # "idle"
    BY <1>2, <1>5, <1>12 DEF ConnectorInv, TakenIsPast, Past, OneMoves
  <2>2. QED
    BY <1>1, <1>4, <1>12, <2>1 DEF Past, Capable
<1>14. OnceAndSpent(r, stage)'
  <2> SUFFICES ASSUME stage # "registration-token", <<r, stage>> \notin overtaken
               PROVE  Once(r, stage)' /\ AllSpent(r, stage)'
    BY <1>1 DEF OnceAndSpent
  <2>1. Once(r, stage) /\ AllSpent(r, stage)
    BY <1>2, <1>12 DEF ConnectorInv, TakenOnceIsSpent, OnceAndSpent
  <2>2. acted[r][stage] = 0 /\ \A o \in accepted : At(o, r, stage) => o = m
    BY <2>1 DEF Once, At
  <2>3. Once(r, stage)'
    <3>1. acted'[r][stage] <= 1
      BY <1>6, <2>2
    <3>2. \A o \in accepted' : ~At(o, r, stage)
      BY <1>1, <2>2
    <3>3. QED
      BY <3>1, <3>2 DEF Once, At
  <2>4. ASSUME NEW o \in network' \cup handling', At(o, r, stage), Capable(o.proof) PROVE Spent(o)'
    <3>1. ~New(r, o)
      <4>1. New(r, o) => Ord[stage] < Ord[stage]
        BY <1>4, <2>4 DEF New, At
      <4>2. Ord[stage] \in 1..4
        BY <1>2, StageOrder
      <4>3. QED
        BY <4>1, <4>2
    <3>2. o \in network \cup handling
      BY <1>1, <1>4, <3>1 DEF Settled
    <3>3. Spent(o)
      BY <2>1, <2>4, <3>2 DEF AllSpent
    <3>4. QED
      BY <1>1, <3>3 DEF Spent, Fresh
  <2>5. AllSpent(r, stage)'
    BY <1>1, <2>4 DEF AllSpent, At, Capable
  <2>6. QED
    BY <2>3, <2>5
<1>15. TakenIsPast' /\ TakenOnceIsSpent'
  <2> SUFFICES ASSUME NEW q \in Runs, NEW s \in Stages PROVE Past(q, s)' /\ OnceAndSpent(q, s)'
    BY DEF TakenIsPast, TakenOnceIsSpent
  <2>1. CASE q = r /\ s = stage
    BY <1>13, <1>14, <2>1
  <2>2. CASE ~(q = r /\ s = stage)
    BY <1>10, <1>11, <2>2
  <2>3. QED
    BY <2>1, <2>2
<1>16. StoresAgree'
  <2>1. \A u \in used : Made(u.proof)'
    BY <1>1, <1>2, <1>5, Parts, MadeStep DEF ConnectorInv, StoresAgree
  <2>2. \A c \in issued' : c.boot = boot'
    BY <1>1, <1>3 DEF ConnectorInv, StoresAgree
  <2>3. ASSUME NEW a \in Runs, registered'[a] # None
        PROVE  /\ registered'[a].boot <= boot'
               /\ registered'[a].boot = boot' => registered'[a] \in issued'
    <3>1. CASE registered'[a] = registered[a]
      BY <1>1, <1>7, <2>3, <3>1 DEF ConnectorInv, StoresAgree
    <3>2. CASE registered'[a] = made /\ made \in issued'
      BY <1>1, <1>3, <3>2
    <3>3. QED
      BY <1>4, <3>1, <3>2 DEF ConnectorInv, TypeOK
  <2>4. QED
    BY <1>1, <2>1, <2>2, <2>3 DEF ConnectorInv, StoresAgree, Capable, KeptUntil
<1>17. CopiesKnown'
  BY <1>1, <1>2, <1>4, <1>5, CopiesStep DEF Settled
<1>18. ConnectorInv'
  BY <1>9, <1>10, <1>15, <1>16, <1>17 DEF ConnectorInv
<1>19. Causes
  BY <1>2, <1>4, <1>5, CausesOf
<1>20. QED
  BY <1>18, <1>19

-----------------------------------------------------------------------------
LEMMA ConnectorInit == ASSUME Init PROVE ConnectorInv
<1>1. TypeOK
  BY ConnectorAssumption DEF Init, TypeOK, Idle, Execution
<1>2. \A r \in Runs : run[r] = Idle /\ \A s \in Stages : acted[r][s] = 0
  BY DEF Init
<1>3. RunsWait /\ WillBeServed
  BY <1>2 DEF Idle, RunsWait, RunWaits, Waiting, WillBeServed, Served
<1>4. Requests = {} /\ network \cup handling = {} /\ accepted = {} /\ used = {} /\ issued = {}
  BY DEF Init, Requests
<1>5. RequestsMade /\ OneRequest /\ StoresAgree /\ CopiesKnown
  BY <1>4 DEF Init, RequestsMade, OneRequest, StoresAgree, CopiesKnown
<1>6. TakenIsPast /\ TakenOnceIsSpent
  BY <1>2, <1>4 DEF TakenIsPast, Past, Taken, TakenOnceIsSpent, OnceAndSpent, Once
<1>7. QED
  BY <1>1, <1>3, <1>5, <1>6 DEF ConnectorInv

(* What a step keeps, and why it refuses. *)
LEMMA ConnectorStep == ASSUME ConnectorInv, Next PROVE ConnectorInv' /\ Causes
<1>1. ASSUME NEW r \in Runs, NEW a \in 1..r, Begin(r, a) PROVE ConnectorInv' /\ Causes
  BY <1>1, BeginKeeps DEF Causes, Waiting
<1>2. ASSUME NEW r \in Runs, NotEnabled(r) \/ Abort(r) \/ Fail(r) PROVE ConnectorInv' /\ Causes
  BY <1>2, EndsKeep DEF Causes, Waiting, Cause
<1>3. ASSUME NEW m \in network, Deliver(m) PROVE ConnectorInv' /\ Causes
  BY <1>3, DeliverKeeps
<1>4. ASSUME NEW m \in network, Duplicate(m) PROVE ConnectorInv' /\ Causes
  BY <1>4, DuplicateKeeps DEF Causes, Waiting
<1>5. ASSUME NEW m \in handling, Mark(m) PROVE ConnectorInv' /\ Causes
  BY <1>5, MarkKeeps
<1>6. ASSUME NEW m \in accepted, Act(m) PROVE ConnectorInv' /\ Causes
  BY <1>6, ActKeeps
<1>7. CASE Restart
  BY <1>7, RestartKeeps DEF Causes, Waiting
<1>8. CASE Tick
  BY <1>8, TickKeeps DEF Causes, Waiting
<1>9. QED
  BY <1>1, <1>2, <1>3, <1>4, <1>5, <1>6, <1>7, <1>8 DEF Next

(* The invariant that ties requests, runs and stores together holds        *)
(* whatever is delayed, repeated or forgotten.                             *)
THEOREM ConnectorInvariance == Spec => []ConnectorInv
<1>1. Init => ConnectorInv
  BY ConnectorInit
<1>2. ConnectorInv /\ [Next]_vars => ConnectorInv'
  <2> SUFFICES ASSUME ConnectorInv, [Next]_vars PROVE ConnectorInv'
    OBVIOUS
  <2>1. CASE Next
    BY <2>1, ConnectorStep
  <2>2. CASE UNCHANGED vars
    <3>1. UNCHANGED <<run, registered, network, handling, accepted, issued, nonces, used, boot,
                      nonceRequired, acted, overtaken, doubled, now, events>>
      BY <2>2 DEF vars
    <3>2. Requests' = Requests
      BY <3>1 DEF Requests
    <3>3. TypeOK' /\ RunsWait'
      BY <3>1 DEF ConnectorInv, TypeOK, RunsWait, RunWaits, Waiting
    <3>4. RequestsMade' /\ OneRequest'
      BY <3>1, <3>2 DEF ConnectorInv, RequestsMade, MadeByRun, Made, Capable, OneRequest, Same
    <3>5. StoresAgree' /\ CopiesKnown'
      BY <3>1, <3>2 DEF ConnectorInv, StoresAgree, KeptUntil, Made, Capable, CopiesKnown, AtOnePlace
    <3>6. TakenIsPast'
      BY <3>1 DEF ConnectorInv, TakenIsPast, Past, Taken, At, Waiting, Capable
    <3>7. TakenOnceIsSpent'
      BY <3>1, <3>2 DEF ConnectorInv, TakenOnceIsSpent, OnceAndSpent, Once, AllSpent, Spent, Fresh,
                        Taken, At, Capable
    <3>8. WillBeServed'
      BY <3>1 DEF ConnectorInv, WillBeServed, Served, Waiting
    <3>9. QED
      BY <3>3, <3>4, <3>5, <3>6, <3>7, <3>8 DEF ConnectorInv
  <2>3. QED
    BY <2>1, <2>2
<1>3. QED
  BY <1>1, <1>2, PTL DEF Spec

(* Nothing but a registration token is obtained twice by one run, and no   *)
(* call made twice, save by a request whose proof expired between the      *)
(* check of its time and its mark.                                         *)
THEOREM EffectOnce == Spec => []ActsOnce
<1>1. ConnectorInv => ActsOnce
  <2> SUFFICES ASSUME ConnectorInv, NEW r \in Runs, NEW s \in Stages \ {"registration-token"},
                      acted[r][s] > 1, <<r, s>> \notin overtaken
               PROVE  FALSE
    BY DEF ActsOnce
  <2>1. acted[r][s] \in Nat
    BY DEF ConnectorInv, TypeOK
  <2>2. acted[r][s] <= 1
    BY DEF ConnectorInv, TakenOnceIsSpent, OnceAndSpent, Once
  <2>3. QED
    BY <2>1, <2>2
<1>2. QED
  BY <1>1, ConnectorInvariance, PTL

(* A reason code is true of the run that reports it: what the adapter and  *)
(* the Connector do with a challenge, a late request or another run is     *)
(* never one.                                                              *)
THEOREM RefusalsHaveCause == Spec => RefusedForCause
<1>1. ConnectorInv /\ [Next]_vars =>
         [\A r \in Runs : Waiting(r) /\ run'[r].state = "refused" => Cause(r)]_vars
  BY ConnectorStep DEF Causes
<1>2. QED
  BY <1>1, ConnectorInvariance, PTL DEF Spec, RefusedForCause
=============================================================================
