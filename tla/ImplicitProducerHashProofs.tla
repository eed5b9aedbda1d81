---------------------- MODULE ImplicitProducerHashProofs ----------------------
(***************************************************************************)
(* NothingDangles for any threads, tokens and producers, if no thread      *)
(* exits while the queue is being destroyed.                               *)
(***************************************************************************)
EXTENDS ImplicitProducerHash, TLAPS

\* Calls of get_or_add_implicit_producer that neither ask for a producer, nor
\* have asked, nor exit.
Elsewhere(pc) == pc \notin Exiting \cup {"asked"}

\* call' differs from call in what t does, and has pc there.
Moves(t, pcs) ==
    /\ CallsOK(call')
    /\ call'[t].pc \in pcs
    /\ \A s \in Threads \ {t} : call'[s] = call[s]

\* The effect of a step on the hash tables on what the invariant is about.
PlainStep(t) ==
    /\ UNCHANGED <<producerListVars, exitVars>>
    /\ Elsewhere(call[t].pc)
    /\ call[t].pc = "idle" => ~destroying
    /\ \A s \in Threads \ {t} : call'[s] = call[s]
    /\ Elsewhere(call'[t].pc)
    /\ CallsOK(call')

\* nullptr is no producer.
LEMMA NullIsNoProducer == null \notin Producers
<1>1. Producers \subseteq Nat
  BY ProducerListAssumption DEF Producers
<1>. QED BY Zenon, <1>1, ProducerListAssumption

\* A step to another table.
LEMMA Retabling ==
    ASSUME CallsOK(call), NEW t \in Threads, NEW k, NEW pc,
           call' = [call EXCEPT ![t].mainHash = k, ![t].pc = pc]
    PROVE  Moves(t, {pc}) /\ call'[t].producer = call[t].producer
BY ZenonT(60) DEF Moves, CallsOK, Idle

\* The attempt to resize moves a call on, whatever it finds.
LEMMA GoingOn ==
    ASSUME CallsOK(call), NEW t \in Threads, NEW k, GoOnWith(t, k)
    PROVE  Moves(t, {"producer", "reload"})
<1> DEFINE pc == IF HasRoom(k, call[t].newCount) THEN "producer" ELSE "reload"
<1>1. call' = [call EXCEPT ![t].mainHash = k, ![t].pc = pc]
  BY Zenon DEF GoOnWith
<1>2. pc \in {"producer", "reload"}
  BY Zenon
<1>3. Moves(t, {pc})
  BY Zenon, <1>1, Retabling
<1>. QED BY Zenon, <1>2, <1>3 DEF Moves

\* A step that only sets the pc.
LEMMA Stepping ==
    ASSUME CallsOK(call), NEW t \in Threads, NEW pc, Step(t, pc)
    PROVE  Moves(t, {pc}) /\ call'[t].producer = call[t].producer
BY Zenon DEF Moves, CallsOK, Step, Idle

\* A return.
LEMMA Returning ==
    ASSUME CallsOK(call), NEW t \in Threads, NEW p, Return(t, p)
    PROVE  Moves(t, {"idle"})
BY Zenon DEF Moves, CallsOK, Return, Idle

\* The actions on the hash tables are plain steps.
LEMMA TableSteps ==
    ASSUME CallsOK(call), NEW t \in Threads,
           \/ GetOrAdd(t) \/ ReAdd(t) \/ CountUp(t) \/ TryResize(t) \/ Resize(t)
           \/ ResizeFails(t) \/ GiveUp(t) \/ Unlock(t) \/ Reload(t) \/ Insert(t)
           \/ Uncount(t)
    PROVE  PlainStep(t)
<1> DEFINE Pcs == {"idle", "count", "readd", "resize?", "resize", "unlock",
                   "give up", "producer", "reload", "insert", "uncount"}
<1> SUFFICES /\ UNCHANGED <<producerListVars, exitVars>>
             /\ call[t].pc \in Pcs
             /\ call[t].pc = "idle" => ~destroying
             /\ Moves(t, Pcs)
  BY Zenon DEF PlainStep, Moves, Elsewhere, Exiting
<1>1. CASE GetOrAdd(t)
  <2>1. /\ UNCHANGED <<producerListVars, exitVars>>
        /\ call[t].pc \in Pcs
        /\ call[t].pc = "idle" => ~destroying
    BY Zenon, <1>1 DEF GetOrAdd, CallBegins, exitVars
  <2>2. Moves(t, {"idle", "count", "readd"})
    BY SMTT(30), <1>1 DEF GetOrAdd, LookUp, Return, Moves, CallsOK, Idle
  <2>. QED BY Zenon, <2>1, <2>2 DEF Moves
<1>2. CASE ReAdd(t)
  <2>1. /\ UNCHANGED <<producerListVars, exitVars>>
        /\ call[t].pc \in Pcs
        /\ call[t].pc = "idle" => ~destroying
    BY Zenon, <1>2 DEF ReAdd, exitVars
  <2>2. Moves(t, {"idle", "readd"})
    <3>1. CASE Return(t, call[t].producer)
      BY Zenon, <3>1, Returning DEF Moves
    <3>2. ASSUME NEW i, call' = [call EXCEPT ![t].index = i]
          PROVE  Moves(t, {"readd"})
      <4>1. call[t].pc = "readd"
        BY Zenon, <1>2 DEF ReAdd
      <4>. QED BY ZenonT(60), <3>2, <4>1 DEF Moves, CallsOK, Idle
    <3>3. \/ Return(t, call[t].producer)
          \/ \E i : call' = [call EXCEPT ![t].index = i]
      BY Zenon, <1>2 DEF ReAdd
    <3>. QED BY Zenon, <3>1, <3>2, <3>3 DEF Moves
  <2>. QED BY Zenon, <2>1, <2>2 DEF Moves
<1>3. CASE CountUp(t)
  <2>1. /\ UNCHANGED <<producerListVars, exitVars>>
        /\ call[t].pc \in Pcs
        /\ call[t].pc = "idle" => ~destroying
    BY Zenon, <1>3 DEF CountUp, exitVars
  <2>2. Moves(t, {"resize?"})
    BY Zenon, <1>3 DEF CountUp, Moves, CallsOK, Idle
  <2>. QED BY Zenon, <2>1, <2>2 DEF Moves
<1>4. CASE TryResize(t)
  <2>1. /\ UNCHANGED <<producerListVars, exitVars>>
        /\ call[t].pc \in Pcs
        /\ call[t].pc = "idle" => ~destroying
    BY Zenon, <1>4 DEF TryResize, exitVars
  <2>2. Moves(t, {"resize"}) \/ Moves(t, {"producer", "reload"})
    BY Zenon, <1>4, GoingOn, Stepping DEF TryResize
  <2>. QED BY Zenon, <2>1, <2>2 DEF Moves
<1>5. CASE Resize(t)
  <2>1. /\ UNCHANGED <<producerListVars, exitVars>>
        /\ call[t].pc \in Pcs
        /\ call[t].pc = "idle" => ~destroying
    BY Zenon, <1>5 DEF Resize, exitVars
  <2>2. Moves(t, {"unlock"})
    BY <1>5 DEF Resize, Moves, CallsOK, Idle
  <2>. QED BY Zenon, <2>1, <2>2 DEF Moves
<1>6. CASE ResizeFails(t)
  <2>1. /\ UNCHANGED <<producerListVars, exitVars>>
        /\ call[t].pc \in Pcs
        /\ call[t].pc = "idle" => ~destroying
    BY Zenon, <1>6 DEF ResizeFails, exitVars
  <2>2. Moves(t, {"give up"})
    BY Zenon, <1>6, Stepping DEF ResizeFails
  <2>. QED BY Zenon, <2>1, <2>2 DEF Moves
<1>7. CASE GiveUp(t)
  <2>1. /\ UNCHANGED <<producerListVars, exitVars>>
        /\ call[t].pc \in Pcs
        /\ call[t].pc = "idle" => ~destroying
    BY Zenon, <1>7 DEF GiveUp, exitVars
  <2>2. Moves(t, {"idle"})
    BY Zenon, <1>7, Returning DEF GiveUp
  <2>. QED BY Zenon, <2>1, <2>2 DEF Moves
<1>8. CASE Unlock(t)
  <2>1. /\ UNCHANGED <<producerListVars, exitVars>>
        /\ call[t].pc \in Pcs
        /\ call[t].pc = "idle" => ~destroying
    BY Zenon, <1>8 DEF Unlock, exitVars
  <2>2. Moves(t, {"producer", "reload"})
    BY Zenon, <1>8, GoingOn DEF Unlock
  <2>. QED BY Zenon, <2>1, <2>2 DEF Moves
<1>9. CASE Reload(t)
  <2>1. /\ UNCHANGED <<producerListVars, exitVars>>
        /\ call[t].pc \in Pcs
        /\ call[t].pc = "idle" => ~destroying
    BY Zenon, <1>9 DEF Reload, exitVars
  <2>2. Moves(t, {"resize?"})
    BY Zenon, <1>9 DEF Reload, Moves, CallsOK, Idle
  <2>. QED BY Zenon, <2>1, <2>2 DEF Moves
<1>10. CASE Insert(t)
  <2>1. /\ UNCHANGED <<producerListVars, exitVars>>
        /\ call[t].pc \in Pcs
        /\ call[t].pc = "idle" => ~destroying
    BY Zenon, <1>10 DEF Insert, exitVars
  <2>2. \/ Step(t, "uncount")
        \/ Return(t, call[t].producer)
        \/ \E i : call' = [call EXCEPT ![t].index = i]
    BY Zenon, <1>10 DEF Insert
  <2>3. CASE \E i : call' = [call EXCEPT ![t].index = i]
    <3>1. PICK i : call' = [call EXCEPT ![t].index = i]
      BY Zenon, <2>3
    <3>. QED BY Zenon, <2>1, <3>1 DEF Moves, CallsOK, Idle
  <2>4. Moves(t, {"uncount"}) \/ Moves(t, {"idle"}) \/ Moves(t, Pcs)
    BY Zenon, <2>2, <2>3, Stepping, Returning
  <2>. QED BY Zenon, <2>1, <2>4 DEF Moves
<1>11. CASE Uncount(t)
  <2>1. /\ UNCHANGED <<producerListVars, exitVars>>
        /\ call[t].pc \in Pcs
        /\ call[t].pc = "idle" => ~destroying
    BY Zenon, <1>11 DEF Uncount, exitVars
  <2>2. Moves(t, {"idle"})
    BY Zenon, <1>11, Returning DEF Uncount
  <2>. QED BY Zenon, <2>1, <2>2 DEF Moves
<1>. QED BY Zenon, <1>1, <1>2, <1>3, <1>4, <1>5, <1>6, <1>7, <1>8, <1>9, <1>10, <1>11


-------------------------------------------------------------------------------
\* The inductive invariant.
IInv == TypeOK /\ DestructionInvariant /\ NothingDangles

\* Nothing that the invariant is about has changed.
LEMMA Unchanged ==
    ASSUME IInv, UNCHANGED <<producerListVars, call, exitVars>>
    PROVE  IInv'
BY SMTT(30) DEF IInv, TypeOK, ProducerListTypeOK, CallsOK, DestructionInvariant, Listeners,
       Subscribers, TokenOwners, Undisturbed, NothingDangles, producerListVars,
       listFields, destroyVars, exitVars

\* Steps on the hash tables.
LEMMA PlainStepPreserves ==
    ASSUME IInv, NEW t \in Threads, PlainStep(t)
    PROVE  IInv'
<1> USE DEF IInv, DestructionInvariant, PlainStep, producerListVars, listFields,
            destroyVars, exitVars, Elsewhere, Exiting
<1>1. TypeOK'
  BY Zenon DEF TypeOK, ProducerListTypeOK
<1>2. Listeners'
  BY DEF Listeners
<1>3. Subscribers'
  BY SMTT(30) DEF Subscribers
<1>4. TokenOwners'
  BY Zenon DEF TokenOwners
<1>5. Undisturbed'
  BY Zenon DEF Undisturbed
<1>6. NothingDangles'
  BY Zenon DEF NothingDangles
<1>. QED BY Zenon, <1>1, <1>2, <1>3, <1>4, <1>5, <1>6

\* One owner's request changes.
LEMMA Requesting ==
    ASSUME RequestsOK(req), NEW u \in Owners, NEW q \in Pointers,
           NEW pc \in {"none", "scan", "create", "push", "done"},
           pc \in {"scan", "push"} => q # null,
           req' = [req EXCEPT ![u] = [pc |-> pc, ptr |-> q]]
    PROVE  /\ RequestsOK(req')
           /\ req'[u].pc = pc /\ req'[u].ptr = q
           /\ \A v \in Owners \ {u} : req'[v] = req[v]
BY Zenon DEF RequestsOK

\* A request points to a producer or to nothing.
LEMMA PointsToProducer ==
    ASSUME TypeOK, NEW u \in Owners, req[u].ptr # null
    PROVE  req[u].ptr \in Producers
BY Zenon DEF TypeOK, ProducerListTypeOK, RequestsOK, Pointers

\* What tokens do leaves the listeners and the subscribers alone.
LEMMA ThreadsUndisturbed ==
    ASSUME TypeOK, Listeners, Subscribers,
           UNCHANGED <<call, mutex, chain, isExplicit, created>>,
           \A t \in Threads : req'[t] = req[t],
           \A p \in Producers : ~isExplicit[p] => inactive'[p] = inactive[p]
    PROVE  Listeners' /\ Subscribers'
<1>1. \A t \in Threads : \A p \in chain[t] : inactive'[p] = inactive[p]
  BY Zenon DEF Listeners, TypeOK
<1>2. \A t \in Threads : req[t].ptr # null /\ ~isExplicit[req[t].ptr]
                              => inactive'[req[t].ptr] = inactive[req[t].ptr]
  BY Zenon, PointsToProducer DEF Owners
<1>3. Listeners'
  BY SMTT(30), <1>1 DEF Listeners
<1>4. Subscribers'
  <2> SUFFICES ASSUME NEW t \in Threads PROVE Subscribers!(t)'
    BY Zenon DEF Subscribers
  <2>1. Subscribers!(t)
    BY Zenon DEF Subscribers
  <2>. QED BY Zenon, <1>2, <2>1
<1>. QED BY Zenon, <1>3, <1>4

\* What threads do leaves the tokens alone.
LEMMA TokensUndisturbed ==
    ASSUME TypeOK, TokenOwners, NothingDangles,
           UNCHANGED <<isExplicit, created, token, destroyed>>,
           \A k \in Tokens : req'[k] = req[k],
           \A p \in Producers : isExplicit[p] => inactive'[p] = inactive[p],
           \A t \in Threads : chain'[t] \subseteq chain[t]
    PROVE  TokenOwners' /\ NothingDangles'
<1>1. \A k \in Tokens : req[k].ptr # null /\ isExplicit[req[k].ptr]
                              => inactive'[req[k].ptr] = inactive[req[k].ptr]
  BY Zenon, PointsToProducer DEF Owners
<1>2. TokenOwners'
  <2> SUFFICES ASSUME NEW k \in Tokens PROVE TokenOwners!(k)'
    BY Zenon DEF TokenOwners
  <2>1. TokenOwners!(k)
    BY Zenon DEF TokenOwners
  <2>. QED BY Zenon, <1>1, <2>1
<1>3. NothingDangles'
  BY Zenon DEF NothingDangles
<1>. QED BY Zenon, <1>2, <1>3

\* One owner is left without a producer, and perhaps goes on elsewhere.
LEMMA WithoutProducer ==
    ASSUME Listeners, Subscribers, TokenOwners, NEW u \in Owners,
           UNCHANGED <<mutex, chain, inactive, isExplicit, created, token>>,
           \A v \in Owners \ {u} : req'[v] = req[v],
           req'[u].ptr = null \/ req'[u].pc \notin Holding,
           req'[u].pc = "none" => req'[u].ptr = null,
           \A t \in Threads \ {u} : call'[t] = call[t],
           u \in Threads => /\ call[u].pc \notin Exiting /\ call'[u].pc \notin Exiting
                            /\ req'[u].pc \in {"scan", "create", "push"}
                                   => call'[u].pc = "asked"
    PROVE  Listeners' /\ Subscribers' /\ TokenOwners'
<1>1. Listeners'
  BY SMTT(30) DEF Listeners, Exiting
<1>2. Subscribers'
  <2> SUFFICES ASSUME NEW t \in Threads PROVE Subscribers!(t)'
    BY Zenon DEF Subscribers
  <2>1. CASE t = u
    BY Zenon, <2>1 DEF Holding
  <2>2. CASE t # u
    <3>1. Subscribers!(t)
      BY Zenon DEF Subscribers
    <3>2. call'[t] = call[t] /\ req'[t] = req[t]
      BY Zenon, <2>2 DEF Owners
    <3>3. \A s \in Threads : call[s].pc = "left" => call'[s] = call[s]
      BY Zenon DEF Exiting
    <3>4. ASSUME NEW s \in Threads, req[t].ptr # null, call'[s].pc = "asked",
                 req'[s].pc \in Holding
          PROVE  \/ req'[s].ptr # req[t].ptr
                 \/ call[s].pc = "asked" /\ req[s].pc \in Holding /\ req'[s] = req[s]
      BY Zenon, <3>4 DEF Owners
    <3>. QED BY SMTT(30), <3>1, <3>2, <3>3, <3>4
  <2>. QED BY Zenon, <2>1, <2>2
<1>3. TokenOwners'
  <2> SUFFICES ASSUME NEW k \in Tokens PROVE TokenOwners!(k)'
    BY Zenon DEF TokenOwners
  <2>1. CASE k = u
    BY Zenon, <2>1 DEF Holding
  <2>2. CASE k # u
    <3>1. TokenOwners!(k)
      BY Zenon DEF TokenOwners
    <3>2. req'[k] = req[k]
      BY Zenon, <2>2 DEF Owners
    <3>3. ASSUME NEW j \in Tokens, req[k].ptr # null, req'[j].pc \in Holding
          PROVE  req'[j].ptr # req[k].ptr \/ req'[j] = req[j]
      BY Zenon, <3>3 DEF Owners
    <3>. QED BY SMTT(30), <3>1, <3>2, <3>3
  <2>. QED BY Zenon, <2>1, <2>2
<1>. QED BY Zenon, <1>1, <1>2, <1>3

\* recycle_or_create_producer(false) is called.
LEMMA AskPreserves ==
    ASSUME IInv, NEW t \in Threads, AskForProducer(t)
    PROVE  IInv'
<1> USE DEF IInv, DestructionInvariant, destroyVars, exitVars
<1>1. /\ Moves(t, {"asked"}) /\ call[t].pc = "producer"
      /\ UNCHANGED <<mutex, chain, inactive, isExplicit, token, created, destroying,
                     toDestroy, destroyed, producerListTail, nextProd, producerCount>>
  BY Zenon, Stepping DEF AskForProducer, RecycleOrCreate, TypeOK, listFields
<1>2. t \in Owners /\ RequestsOK(req) /\ producerListTail \in Pointers
  BY Zenon DEF TypeOK, ProducerListTypeOK, Owners
<1>3. \E pc \in {"scan", "create"} :
          /\ req' = [req EXCEPT ![t] = [pc |-> pc, ptr |-> producerListTail]]
          /\ pc = "scan" => producerListTail # null
  BY Zenon DEF AskForProducer, RecycleOrCreate, ScanFrom, Request
<1>4. /\ RequestsOK(req')
      /\ req'[t].pc \in {"scan", "create"}
      /\ \A v \in Owners \ {t} : req'[v] = req[v]
  BY Zenon, <1>2, <1>3, Requesting
<1>5. TypeOK'
  BY Zenon, <1>1, <1>4 DEF TypeOK, ProducerListTypeOK, Moves
<1>6. Listeners' /\ Subscribers' /\ TokenOwners'
  BY Zenon, <1>1, <1>2, <1>4, WithoutProducer DEF Moves, Holding, Exiting
<1>7. \A k \in Tokens : req'[k] = req[k]
  BY Zenon, <1>4, ProducerListAssumption DEF Owners
<1>8. Undisturbed'
  BY Zenon, <1>1, <1>7 DEF Undisturbed, Moves, Exiting
<1>9. NothingDangles'
  BY Zenon, <1>1, <1>7 DEF NothingDangles
<1>. QED BY Zenon, <1>5, <1>6, <1>8, <1>9

-------------------------------------------------------------------------------
\* Who asks for a producer, and so the queue is not being destroyed.
Asking(u) ==
    /\ u \in Owners /\ ~destroying
    /\ u \in Threads => call[u].pc = "asked"
    /\ UNCHANGED <<call, exitVars, destroyVars>>

\* Who has a producer that it asked for.
Has(v) == req[v].pc \in Holding /\ (v \in Threads => call[v].pc = "asked")

\* An owner gets a producer that no other owner of its kind has, and for which
\* at most an exiting thread listens.
LEMMA GettingProducer ==
    ASSUME TypeOK, Listeners, Subscribers, TokenOwners, NEW u, Asking(u),
           NEW p \in Producers,
           req'[u].pc \in Holding /\ req'[u].ptr = p,
           \A v \in Owners \ {u} : req'[v] = req[v],
           created' \in Nat /\ created <= created' /\ p <= created',
           ~inactive'[p] /\ (isExplicit'[p] <=> u \in Tokens),
           req'[u].pc = "done" /\ u \in Tokens => token'[p] = u,
           \A q \in Producers \ {p} :
               /\ inactive'[q] = inactive[q] /\ token'[q] = token[q]
               /\ isExplicit'[q] = isExplicit[q],
           \A v \in Owners \ {u} : Has(v) => req[v].ptr # p,
           \A t \in Threads : p \in chain[t] =>
               u \in Threads /\ call[t].pc = "left" /\ call[t].producer = p
    PROVE  Listeners' /\ Subscribers' /\ TokenOwners'
<1>1. UNCHANGED <<call, mutex, chain>>
  BY Zenon DEF Asking, exitVars
<1>2. /\ created \in Nat /\ Producers \subseteq Nat
      /\ u \in Threads => call[u].pc = "asked"
      /\ u \in Threads \cup Tokens
  BY SMTT(30), ProducerListAssumption DEF TypeOK, ProducerListTypeOK, Producers, Asking, Owners
<1>3. \A q \in Producers : q <= created => q <= created'
  BY SMTT(30), <1>2
<1>4. \A t \in Threads : chain[t] \subseteq Producers
  BY Zenon DEF TypeOK
<1>5. Listeners'
  <2>1. ASSUME NEW t \in Threads, NEW q \in chain[t]
        PROVE  /\ q <= created' /\ ~isExplicit'[q]
               /\ inactive'[q] => call[t].pc = "left" /\ call[t].producer = q
    <3>1. /\ q \in Producers /\ q <= created /\ ~isExplicit[q]
          /\ inactive[q] => call[t].pc = "left" /\ call[t].producer = q
      BY SMTT(30), <1>4 DEF Listeners
    <3>2. CASE q = p
      BY Zenon, <1>2, <3>2, ProducerListAssumption
    <3>3. CASE q # p
      BY Zenon, <1>3, <3>1, <3>3
    <3>. QED BY Zenon, <3>2, <3>3
  <2>. QED BY SMTT(30), <1>1, <2>1 DEF Listeners
<1>6. Subscribers'
  <2> SUFFICES ASSUME NEW t \in Threads PROVE Subscribers!(t)'
    BY Zenon DEF Subscribers
  <2>1. CASE t = u
    <3>1. t \notin Tokens /\ call[t].pc = "asked"
      BY Zenon, <1>2, <2>1, ProducerListAssumption
    <3>2. ASSUME NEW s \in Threads, s # t, call[s].pc = "asked", req'[s].pc \in Holding
          PROVE  req'[s].ptr # p
      BY SMTT(30), <2>1, <3>2 DEF Has, Owners
    <3>. QED BY Zenon, <1>1, <2>1, <3>1, <3>2
  <2>2. CASE t # u
    <3>1. Subscribers!(t) /\ req'[t] = req[t]
      BY Zenon, <2>2 DEF Subscribers, Owners
    <3>2. ASSUME call[t].pc = "asked", req[t].pc \in Holding, req[t].ptr # null
          PROVE  /\ req[t].ptr # p
                 /\ req[t].ptr <= created'
                 /\ inactive'[req[t].ptr] = inactive[req[t].ptr]
                 /\ isExplicit'[req[t].ptr] = isExplicit[req[t].ptr]
      <4>1. req[t].ptr # p
        BY Zenon, <2>2, <3>2 DEF Has, Owners
      <4>2. req[t].ptr \in Producers /\ req[t].ptr <= created
        BY Zenon, <3>1, <3>2, PointsToProducer DEF Owners
      <4>. QED BY Zenon, <1>3, <4>1, <4>2
    <3>3. ASSUME NEW s \in Threads, req'[s].ptr # p
          PROVE  req'[s] = req[s]
      <4>1. s \in Owners /\ s # u
        BY ZenonT(60), <3>3 DEF Owners
      <4>. QED BY Zenon, <4>1
    <3>. QED BY SMTT(30), <1>1, <3>1, <3>2, <3>3
  <2>. QED BY Zenon, <2>1, <2>2
<1>7. TokenOwners'
  <2> SUFFICES ASSUME NEW k \in Tokens PROVE TokenOwners!(k)'
    BY Zenon DEF TokenOwners
  <2>1. CASE k = u
    <3>1. ASSUME NEW j \in Tokens, j # k, req'[j].pc \in Holding
          PROVE  req'[j].ptr # p
      BY ZenonT(60), <2>1, <3>1, ProducerListAssumption DEF Has, Owners
    <3>. QED BY Zenon, <2>1, <3>1 DEF Holding
  <2>2. CASE k # u
    <3>1. TokenOwners!(k) /\ req'[k] = req[k]
      BY Zenon, <2>2 DEF TokenOwners, Owners
    <3>2. ASSUME req[k].pc \in Holding, req[k].ptr # null
          PROVE  /\ req[k].ptr # p
                 /\ req[k].ptr <= created'
                 /\ inactive'[req[k].ptr] = inactive[req[k].ptr]
                 /\ isExplicit'[req[k].ptr] = isExplicit[req[k].ptr]
                 /\ token'[req[k].ptr] = token[req[k].ptr]
      <4>1. req[k].ptr # p
        BY Zenon, <2>2, <3>2, ProducerListAssumption DEF Has, Owners
      <4>2. req[k].ptr \in Producers /\ req[k].ptr <= created
        BY Zenon, <3>1, <3>2, PointsToProducer DEF Owners
      <4>. QED BY ZenonT(60), <1>3, <4>1, <4>2
    <3>3. ASSUME NEW j \in Tokens, req'[j].ptr # p
          PROVE  req'[j] = req[j]
      <4>1. j \in Owners /\ j # u
        BY ZenonT(60), <3>3 DEF Owners
      <4>. QED BY ZenonT(60), <4>1
    <3>. QED BY <3>1, <3>2, <3>3
  <2>. QED BY Zenon, <2>1, <2>2
<1>. QED BY Zenon, <1>5, <1>6, <1>7

\* While the queue is not being destroyed there is nothing to dangle.
LEMMA NotDestroying ==
    ASSUME IInv, NEW u, Asking(u),
           \A p \in Producers : inactive'[p] => inactive[p],
           created \in Nat /\ created' \in Nat /\ created <= created'
    PROVE  Undisturbed' /\ NothingDangles'
<1>1. /\ UNCHANGED <<call, mutex, chain, destroying, toDestroy, destroyed>>
      /\ ~destroying /\ toDestroy = null /\ destroyed = {}
      /\ \A p \in Producers : inactive[p] => p <= created
  BY Zenon DEF IInv, DestructionInvariant, Asking, exitVars, destroyVars, Undisturbed
<1>2. \A p \in Producers : inactive'[p] => p <= created'
  BY <1>1, ProducerListAssumption DEF Producers
<1>3. Undisturbed'
  BY Zenon, <1>1, <1>2 DEF Undisturbed
<1>4. NothingDangles'
  BY Zenon, <1>1 DEF NothingDangles
<1>. QED BY Zenon, <1>3, <1>4

\* One round of the search through the list.
LEMMA RecyclePreserves ==
    ASSUME IInv, NEW u, Asking(u), RecycleOne(u)
    PROVE  IInv'
<1> DEFINE p == req[u].ptr
<1> USE DEF IInv, DestructionInvariant
<1>1. /\ UNCHANGED <<call, mutex, chain, destroying, toDestroy, destroyed, created,
                     isExplicit, producerListTail, nextProd, producerCount>>
      /\ u \in Owners /\ req[u].pc = "scan"
  BY Zenon DEF RecycleOne, listFields, Asking, exitVars, destroyVars
<1>2. /\ RequestsOK(req) /\ created \in Nat
      /\ p \in Producers /\ nextProd[p] \in Pointers /\ p \in Pointers
      /\ inactive \in [Producers -> BOOLEAN]
      /\ isExplicit \in [Producers -> BOOLEAN]
      /\ token \in [Producers -> Tokens \cup {null}]
  BY <1>1 DEF TypeOK, ProducerListTypeOK, RequestsOK, Pointers
<1>3. CASE inactive[p] /\ isExplicit[p] = (u \in Tokens)
  <2>1. /\ inactive' = [inactive EXCEPT ![p] = FALSE]
        /\ req' = [req EXCEPT ![u] = [pc |-> "done", ptr |-> p]]
        /\ token' = IF u \in Tokens THEN [token EXCEPT ![p] = u] ELSE token
    BY Zenon, <1>2, <1>3, NullIsNoProducer DEF RecycleOne, Answer, Request
  <2>2. /\ RequestsOK(req')
        /\ req'[u].pc = "done" /\ req'[u].ptr = p
        /\ \A v \in Owners \ {u} : req'[v] = req[v]
    BY Zenon, <1>1, <1>2, <2>1, Requesting
  <2>3. /\ ~inactive'[p]
        /\ \A q \in Producers \ {p} : inactive'[q] = inactive[q] /\ token'[q] = token[q]
        /\ u \in Tokens => token'[p] = u
        /\ inactive' \in [Producers -> BOOLEAN]
        /\ token' \in [Producers -> Tokens \cup {null}]
    BY Zenon, <1>2, <2>1
  <2>4. TypeOK'
    BY ZenonT(60), <1>1, <2>2, <2>3 DEF TypeOK, ProducerListTypeOK
  <2>5. p <= created
    BY Zenon, <1>2, <1>3 DEF Undisturbed
  <2>6. \A v \in Owners \ {u} : Has(v) => req[v].ptr # p
    <3>1. p # null
      BY Zenon, <1>2, NullIsNoProducer
    <3>2. \A t \in Threads : Has(t) => req[t].ptr # p
      BY Zenon, <1>3, <3>1 DEF Has, Subscribers
    <3>3. \A k \in Tokens : Has(k) => req[k].ptr # p
      BY Zenon, <1>3, <3>1 DEF Has, TokenOwners
    <3>. QED BY Zenon, <3>2, <3>3 DEF Owners
  <2>7. \A t \in Threads : p \in chain[t] =>
            u \in Threads /\ call[t].pc = "left" /\ call[t].producer = p
    BY Zenon, <1>1, <1>3 DEF Listeners, Owners
  <2>8. isExplicit'[p] <=> u \in Tokens
    <3>1. isExplicit[p] \in BOOLEAN /\ isExplicit' = isExplicit
      BY Zenon, <1>1, <1>2
    <3>. QED BY Zenon, <1>3, <3>1
  <2>9. Undisturbed' /\ NothingDangles'
    <3>1. \A q \in Producers : inactive'[q] => inactive[q]
      BY Zenon, <2>3
    <3>2. created \in Nat /\ created' \in Nat /\ created <= created'
      <4>1. created' = created /\ created \in Nat
        BY ZenonT(60), <1>1, <1>2
      <4>. QED BY <4>1
    <3> HIDE DEF p
    <3>. QED BY Zenon, <3>1, <3>2, NotDestroying
  <2> HIDE DEF p
  <2>10. Listeners' /\ Subscribers' /\ TokenOwners'
    <3>1. req'[u].pc \in Holding /\ req'[u].ptr = p
      BY Zenon, <2>2 DEF Holding
    <3>2. created' \in Nat /\ created <= created' /\ p <= created'
      <4>1. created' = created /\ created \in Nat
        BY Zenon, <1>1, <1>2
      <4>. QED BY <4>1, <2>5
    <3>3. \A q \in Producers \ {p} :
              /\ inactive'[q] = inactive[q] /\ token'[q] = token[q]
              /\ isExplicit'[q] = isExplicit[q]
      BY Zenon, <1>1, <2>3
    <3>. QED BY ZenonT(60), <1>2, <2>2, <2>3, <2>6, <2>7, <2>8, <3>1, <3>2, <3>3,
                GettingProducer
  <2>. QED BY Zenon, <2>4, <2>9, <2>10
<1>4. CASE ~(inactive[p] /\ isExplicit[p] = (u \in Tokens))
  <2>1. /\ \E pc \in {"scan", "create"} :
               /\ req' = [req EXCEPT ![u] = [pc |-> pc, ptr |-> nextProd[p]]]
               /\ pc = "scan" => nextProd[p] # null
        /\ UNCHANGED <<inactive, token>>
    BY Zenon, <1>4 DEF RecycleOne, ScanFrom, Request
  <2>2. /\ RequestsOK(req')
        /\ req'[u].pc \in {"scan", "create"}
        /\ \A v \in Owners \ {u} : req'[v] = req[v]
    <3>1. PICK pc \in {"scan", "create"} :
               /\ req' = [req EXCEPT ![u] = [pc |-> pc, ptr |-> nextProd[p]]]
               /\ pc = "scan" => nextProd[p] # null
      BY Zenon, <2>1
    <3>. QED BY Zenon, <1>1, <1>2, <3>1, Requesting
  <2>3. TypeOK'
    BY Zenon, <1>1, <2>1, <2>2 DEF TypeOK, ProducerListTypeOK
  <2>4. Listeners' /\ Subscribers' /\ TokenOwners'
    BY ZenonT(60), <1>1, <2>1, <2>2, WithoutProducer DEF Holding, Exiting, Asking
  <2>5. Undisturbed' /\ NothingDangles'
    <3>1. \A q \in Producers : inactive'[q] => inactive[q]
      BY Zenon, <2>1
    <3>2. created \in Nat /\ created' \in Nat /\ created <= created'
      <4>1. created' = created /\ created \in Nat
        BY Zenon, <1>1, <1>2
      <4>. QED BY <4>1
    <3>. QED BY <3>1, <3>2, NotDestroying
  <2>. QED BY ZenonT(30), <2>3, <2>4, <2>5
<1>. QED BY Zenon, <1>3, <1>4

\* A producer is created, which nobody knows yet.
LEMMA CreatePreserves ==
    ASSUME IInv, NEW u, Asking(u), CreateProducer(u)
    PROVE  IInv'
<1> DEFINE p == created + 1
<1> USE DEF IInv, DestructionInvariant
<1>1. /\ UNCHANGED <<call, mutex, chain, destroying, toDestroy, destroyed, inactive,
                     token, producerListTail, nextProd>>
      /\ u \in Owners /\ created < MaxProducers /\ created' = p
      /\ producerCount' = producerCount + 1
  BY Zenon DEF CreateProducer, listFields, Asking, exitVars, destroyVars
<1>2. /\ isExplicit' = [isExplicit EXCEPT ![p] = u \in Tokens]
      /\ req' = [req EXCEPT ![u] = [pc |-> "push", ptr |-> p]]
  BY Zenon DEF CreateProducer, Request
<1>3. /\ RequestsOK(req) /\ created \in Nat /\ producerCount = created
      /\ isExplicit \in [Producers -> BOOLEAN]
  BY DEF TypeOK, ProducerListTypeOK
<1>4. /\ p \in Producers /\ p \in Nat /\ created' \in 0 .. MaxProducers
      /\ \A q \in Producers : q <= created => q # p
  BY <1>1, <1>3, ProducerListAssumption DEF Producers
<1>5. p \in Pointers /\ p # null
  BY Zenon, <1>4, NullIsNoProducer DEF Pointers
<1>6. ~inactive[p]
  BY Zenon, <1>4 DEF Undisturbed
<1>7. /\ isExplicit'[p] <=> u \in Tokens
      /\ \A q \in Producers \ {p} : isExplicit'[q] = isExplicit[q]
      /\ isExplicit' \in [Producers -> BOOLEAN]
  <2> HIDE DEF p
  <2>1. (u \in Tokens) \in BOOLEAN
    OBVIOUS
  <2>. QED BY Zenon, <1>2, <1>3, <1>4, <2>1
<1> HIDE DEF p
<1>8. /\ RequestsOK(req')
      /\ req'[u].pc = "push" /\ req'[u].ptr = p
      /\ \A v \in Owners \ {u} : req'[v] = req[v]
  BY ZenonT(60), <1>1, <1>2, <1>3, <1>5, Requesting
<1>9. TypeOK'
  <2>1. producerCount' = created'
    BY Zenon, <1>1, <1>3 DEF p
  <2>. QED BY Zenon, <1>1, <1>4, <1>7, <1>8, <2>1 DEF TypeOK, ProducerListTypeOK
<1>10. \A v \in Owners \ {u} : Has(v) => req[v].ptr # p
  <2> SUFFICES ASSUME NEW v \in Owners, Has(v), req[v].ptr = p PROVE FALSE
    BY Zenon
  <2>1. req[v].ptr <= created
    BY Zenon, <1>5 DEF Has, Owners, Subscribers, TokenOwners
  <2>. QED BY Zenon, <1>4, <2>1
<1>11. \A t \in Threads : p \notin chain[t]
  <2> SUFFICES ASSUME NEW t \in Threads, p \in chain[t] PROVE FALSE
    BY SMTT(30)
  <2>1. p <= created
    BY Zenon DEF Listeners
  <2>. QED BY ZenonT(60), <1>4, <2>1
<1>12. created <= created' /\ p <= created' /\ created' \in Nat
  <2>1. created' = p /\ created \in Nat
    BY ZenonT(60), <1>1, <1>3
  <2>. QED BY <2>1 DEF p
<1>13. Listeners' /\ Subscribers' /\ TokenOwners'
  <2>1. req'[u].pc \in Holding /\ req'[u].ptr = p /\ req'[u].pc # "done"
    BY Zenon, <1>8 DEF Holding
  <2>2. ~inactive'[p] /\ (isExplicit'[p] <=> u \in Tokens)
    BY Zenon, <1>1, <1>6, <1>7
  <2>3. \A q \in Producers \ {p} :
            /\ inactive'[q] = inactive[q] /\ token'[q] = token[q]
            /\ isExplicit'[q] = isExplicit[q]
    BY Zenon, <1>1, <1>7
  <2>4. created' \in Nat /\ created <= created' /\ p <= created' /\ p \in Producers
    BY Zenon, <1>4, <1>12
  <2>. QED BY ZenonT(30), <1>8, <1>10, <1>11, <2>1, <2>2, <2>3, <2>4, GettingProducer
<1>14. Undisturbed' /\ NothingDangles'
  BY ZenonT(60), <1>1, <1>3, <1>12, NotDestroying
<1>. QED BY <1>9, <1>13, <1>14

\* There is no memory for a producer.
LEMMA CreateFailsPreserves ==
    ASSUME IInv, NEW u, Asking(u), CreateFails(u)
    PROVE  IInv'
<1> USE DEF IInv, DestructionInvariant
<1>1. /\ UNCHANGED <<call, mutex, chain, destroying, toDestroy, destroyed, inactive,
                     isExplicit, created, producerCount, token, producerListTail,
                     nextProd>>
      /\ u \in Owners
  BY Zenon DEF CreateFails, Answer, listFields, Asking, exitVars, destroyVars
<1>2. req' = [req EXCEPT ![u] = [pc |-> "done", ptr |-> null]]
  BY Zenon DEF CreateFails, Answer, Request
<1>3. RequestsOK(req) /\ created \in Nat
  BY DEF TypeOK, ProducerListTypeOK
<1>4. /\ RequestsOK(req')
      /\ req'[u].pc = "done" /\ req'[u].ptr = null
      /\ \A v \in Owners \ {u} : req'[v] = req[v]
  BY ZenonT(60), <1>1, <1>2, <1>3, Requesting DEF Pointers
<1>5. TypeOK'
  BY Zenon, <1>1, <1>4 DEF TypeOK, ProducerListTypeOK
<1>6. Listeners' /\ Subscribers' /\ TokenOwners'
  BY Zenon, <1>1, <1>4, WithoutProducer DEF Asking, Exiting
<1>7. Undisturbed' /\ NothingDangles'
  BY SMTT(30), <1>1, <1>3, NotDestroying
<1>. QED BY <1>5, <1>6, <1>7

\* The producer is linked in, and has its token.
LEMMA PushPreserves ==
    ASSUME IInv, NEW u, Asking(u), PushProducer(u)
    PROVE  IInv'
<1> DEFINE p == req[u].ptr
<1> USE DEF IInv, DestructionInvariant
<1>1. /\ UNCHANGED <<call, mutex, chain, destroying, toDestroy, destroyed, inactive,
                     isExplicit, created, producerCount>>
      /\ u \in Owners /\ req[u].pc = "push"
      /\ u \in Threads => call[u].pc = "asked"
  BY Zenon DEF PushProducer, Asking, exitVars, destroyVars
<1>2. /\ RequestsOK(req) /\ created \in Nat
      /\ p \in Producers /\ p \in Pointers /\ p # null
      /\ producerListTail \in Pointers /\ nextProd \in [Producers -> Pointers]
      /\ token \in [Producers -> Tokens \cup {null}]
  <2>1. /\ RequestsOK(req) /\ created \in Nat
        /\ producerListTail \in Pointers /\ nextProd \in [Producers -> Pointers]
        /\ token \in [Producers -> Tokens \cup {null}]
    BY SMTT(30) DEF TypeOK, ProducerListTypeOK
  <2>2. p \in Pointers /\ p # null
    BY Zenon, <1>1, <2>1 DEF RequestsOK
  <2>. QED BY Zenon, <2>1, <2>2 DEF Pointers
<1>3. /\ producerListTail' = p
      /\ nextProd' = [nextProd EXCEPT ![p] = producerListTail]
      /\ req' = [req EXCEPT ![u] = [pc |-> "done", ptr |-> p]]
      /\ token' = IF u \in Tokens THEN [token EXCEPT ![p] = u] ELSE token
  BY Zenon, <1>2 DEF PushProducer, Answer, Request
<1>4. /\ RequestsOK(req')
      /\ req'[u].pc = "done" /\ req'[u].ptr = p
      /\ \A v \in Owners \ {u} : req'[v] = req[v]
  BY Zenon, <1>1, <1>2, <1>3, Requesting
<1>5. /\ \A q \in Producers \ {p} : token'[q] = token[q]
      /\ u \in Tokens => token'[p] = u
      /\ token' \in [Producers -> Tokens \cup {null}]
      /\ nextProd' \in [Producers -> Pointers]
  BY ZenonT(60), <1>2, <1>3
<1>6. TypeOK'
  BY Zenon, <1>1, <1>2, <1>3, <1>4, <1>5 DEF TypeOK, ProducerListTypeOK
<1>7. ASSUME p <= created, ~inactive[p], isExplicit[p] <=> u \in Tokens,
             \A v \in Owners \ {u} : Has(v) => req[v].ptr # p,
             \A t \in Threads : p \in chain[t] =>
                 u \in Threads /\ call[t].pc = "left" /\ call[t].producer = p
      PROVE  IInv'
  <2>1. Undisturbed' /\ NothingDangles'
    <3>1. created <= created
      BY <1>2
    <3>. QED BY Zenon, <1>1, <1>2, <3>1, NotDestroying
  <2>2. /\ req'[u].pc \in Holding /\ req'[u].ptr = p
        /\ created' \in Nat /\ created <= created' /\ p <= created'
        /\ ~inactive'[p] /\ (isExplicit'[p] <=> u \in Tokens)
        /\ req'[u].pc = "done" /\ u \in Tokens => token'[p] = u
        /\ \A q \in Producers \ {p} :
               /\ inactive'[q] = inactive[q] /\ token'[q] = token[q]
               /\ isExplicit'[q] = isExplicit[q]
    <3>1. req'[u].pc \in Holding /\ req'[u].ptr = p
      BY Zenon, <1>4 DEF Holding
    <3>2. created' \in Nat /\ created <= created' /\ p <= created'
      <4>1. created' = created /\ created \in Nat /\ p <= created
        BY Zenon, <1>1, <1>2, <1>7
      <4>. QED BY <4>1
    <3>3. ~inactive'[p] /\ (isExplicit'[p] <=> u \in Tokens)
      BY Zenon, <1>1, <1>7
    <3>4. \A q \in Producers \ {p} :
              inactive'[q] = inactive[q] /\ isExplicit'[q] = isExplicit[q]
      BY Zenon, <1>1
    <3>. QED BY Zenon, <1>5, <3>1, <3>2, <3>3, <3>4
  <2>3. p \in Producers
    BY Zenon, <1>2
  <2>4. Listeners' /\ Subscribers' /\ TokenOwners'
    <3> HIDE DEF p
    <3>. QED BY ZenonT(60), <1>4, <1>7, <2>2, <2>3, GettingProducer
  <2>. QED BY <1>6, <2>1, <2>4
<1>8. CASE u \in Threads
  <2>1. Subscribers!(u) /\ u \notin Tokens
    BY Zenon, <1>8, ProducerListAssumption DEF Subscribers
  <2>2. /\ p <= created /\ ~inactive[p] /\ ~isExplicit[p]
        /\ \A t \in Threads : p \in chain[t] =>
               call[t].pc = "left" /\ call[t].producer = p
        /\ \A t \in Threads \ {u} : Has(t) => req[t].ptr # p
    BY ZenonT(60), <1>1, <1>2, <1>8, <2>1 DEF Holding, Has
  <2>3. \A k \in Tokens : Has(k) => req[k].ptr # p
    BY Zenon, <1>2, <2>2, ProducerListAssumption DEF TokenOwners, Has
  <2>4. \A v \in Owners \ {u} : Has(v) => req[v].ptr # p
    BY Zenon, <2>2, <2>3 DEF Owners
  <2>. QED BY Zenon, <1>7, <1>8, <2>1, <2>2, <2>4
<1>9. CASE u \in Tokens
  <2>1. TokenOwners!(u)
    BY ZenonT(30), <1>9 DEF TokenOwners
  <2>2. /\ p <= created /\ ~inactive[p] /\ isExplicit[p]
        /\ \A k \in Tokens \ {u} : Has(k) => req[k].ptr # p
    BY Zenon, <1>1, <1>2, <1>9, <2>1 DEF Holding, Has
  <2>3. \A t \in Threads : Has(t) => req[t].ptr # p
    BY ZenonT(60), <1>2, <2>2 DEF Subscribers, Has
  <2>4. \A v \in Owners \ {u} : Has(v) => req[v].ptr # p
    BY Zenon, <2>2, <2>3 DEF Owners
  <2>5. \A t \in Threads : p \notin chain[t]
    BY Zenon, <2>2 DEF Listeners
  <2>. QED BY Zenon, <1>7, <1>9, <2>2, <2>4, <2>5
<1>. QED BY Zenon, <1>1, <1>8, <1>9 DEF Owners

\* recycle_or_create_producer goes on.
LEMMA RequestPreserves ==
    ASSUME IInv, NEW u, Asking(u), RequestStep(u)
    PROVE  IInv'
BY Zenon, RecyclePreserves, CreatePreserves, CreateFailsPreserves, PushPreserves
   DEF RequestStep

-------------------------------------------------------------------------------
\* The call returns nullptr.
LEMMA NoProducerPreserves ==
    ASSUME IInv, NEW t \in Threads, NoProducer(t)
    PROVE  IInv'
<1> USE DEF IInv, DestructionInvariant, exitVars, destroyVars
<1>1. /\ UNCHANGED <<mutex, chain, destroying, toDestroy, destroyed, inactive,
                     isExplicit, created, producerCount, token, producerListTail,
                     nextProd>>
      /\ Moves(t, {"idle"}) /\ call[t].pc = "asked"
  BY ZenonT(60), Returning DEF NoProducer, listFields, TypeOK
<1>2. req' = [req EXCEPT ![t] = [pc |-> "none", ptr |-> null]]
  BY Zenon DEF NoProducer, NoRequest
<1>3. t \in Owners /\ RequestsOK(req)
  BY Zenon DEF TypeOK, ProducerListTypeOK, Owners
<1>4. /\ RequestsOK(req')
      /\ req'[t].pc = "none" /\ req'[t].ptr = null
      /\ \A v \in Owners \ {t} : req'[v] = req[v]
  BY Zenon, <1>2, <1>3, Requesting DEF Pointers
<1>5. TypeOK'
  BY Zenon, <1>1, <1>4 DEF TypeOK, ProducerListTypeOK, Moves
<1>6. Listeners' /\ Subscribers' /\ TokenOwners'
  BY Zenon, <1>1, <1>3, <1>4, WithoutProducer DEF Moves, Exiting
<1>7. \A k \in Tokens : req'[k] = req[k]
  BY Zenon, <1>4, ProducerListAssumption DEF Owners
<1>8. Undisturbed'
  BY Zenon, <1>1, <1>7 DEF Undisturbed, Moves
<1>9. NothingDangles'
  BY Zenon, <1>1, <1>7 DEF NothingDangles
<1>. QED BY <1>5, <1>6, <1>8, <1>9

\* A thread goes on that is not asking for a producer afterwards, and disturbs no
\* thread that is.
LEMMA SubscribersUndisturbed ==
    ASSUME Subscribers, NEW t \in Threads,
           UNCHANGED <<isExplicit, created>>,
           \A s \in Threads \ {t} : call'[s] = call[s] /\ req'[s] = req[s],
           call'[t].pc # "asked",
           req'[t].pc \notin {"scan", "create", "push"},
           \A s \in Threads \ {t} : Has(s) /\ req[s].ptr # null =>
               /\ inactive'[req[s].ptr] = inactive[req[s].ptr]
               /\ \A r \in Threads : req[s].ptr \in chain'[r] =>
                      req[s].ptr \in chain[r] /\ call'[r] = call[r]
    PROVE  Subscribers'
<1> SUFFICES ASSUME NEW s \in Threads PROVE Subscribers!(s)'
  BY Zenon DEF Subscribers
<1>1. CASE s = t
  BY Zenon, <1>1
<1>2. CASE s # t
  <2>1. Subscribers!(s) /\ call'[s] = call[s] /\ req'[s] = req[s]
    BY Zenon, <1>2 DEF Subscribers
  <2>2. ASSUME NEW r \in Threads, call'[r].pc = "asked"
        PROVE  call'[r] = call[r] /\ req'[r] = req[r]
    <3>1. r # t
      BY Zenon, <2>2
    <3>. QED BY Zenon, <3>1
  <2>. QED BY ZenonT(60), <1>2, <2>1, <2>2 DEF Has
<1>. QED BY Zenon, <1>1, <1>2

\* The producer gets a listener.  No thread is exiting, hence it has no other.
LEMMA SubscribePreserves ==
    ASSUME IInv, NEW t \in Threads, Subscribe(t)
    PROVE  IInv'
<1> DEFINE p == req[t].ptr
<1> USE DEF IInv, DestructionInvariant
<1>1. /\ UNCHANGED <<mutex, producerListTail, producerCount, nextProd, inactive,
                     isExplicit, token, created, req, destroying, toDestroy, destroyed>>
      /\ call[t].pc = "asked" /\ req[t].pc = "done" /\ p # null /\ mutex = null
  BY Zenon DEF Subscribe, producerListVars, listFields, destroyVars
<1>2. Moves(t, {"insert"})
  BY SMTT(30) DEF Subscribe, Moves, CallsOK, Idle, TypeOK
<1>3. p \in Producers /\ ~destroying
  BY Zenon, <1>1, PointsToProducer DEF Undisturbed, Owners, Exiting
<1>4. /\ chain'[t] = chain[t] \cup {p}
      /\ \A s \in Threads \ {t} : chain'[s] = chain[s]
      /\ chain' \in [Threads -> SUBSET Producers]
  BY Zenon, <1>3 DEF Subscribe, TypeOK
<1>5. /\ p <= created /\ ~inactive[p] /\ ~isExplicit[p]
      /\ \A s \in Threads : p \in chain[s] => call[s].pc = "left"
      /\ \A s \in Threads \ {t} : Has(s) => req[s].ptr # p
  BY Zenon, <1>1 DEF Subscribers, Has, Holding
<1>6. \A s \in Threads : call[s].pc \notin Exiting
  BY ZenonT(60), <1>1, ProducerListAssumption DEF Listeners
<1>7. \A s \in Threads : p \notin chain[s]
  BY Zenon, <1>5, <1>6 DEF Exiting
<1> HIDE DEF p
<1>8. TypeOK'
  BY Zenon, <1>1, <1>2, <1>4 DEF TypeOK, ProducerListTypeOK, Moves
<1>9. Listeners'
  <2>1. \A s \in Threads : call'[s].pc \notin Exiting
    BY Zenon, <1>2, <1>6 DEF Moves, Exiting
  <2>2. \A s \in Threads : \A q \in chain[s] : q <= created /\ ~isExplicit[q] /\ ~inactive[q]
    BY ZenonT(60), <1>6 DEF Listeners, Exiting
  <2>3. \A s \in Threads : \A q \in chain'[s] : q <= created /\ ~isExplicit[q] /\ ~inactive[q]
    BY Zenon, <1>4, <1>5, <2>2
  <2>4. \A r, s \in Threads : r # s => chain'[r] \cap chain'[s] = {}
    BY <1>4, <1>7 DEF Listeners
  <2>. QED BY Zenon, <1>1, <2>1, <2>3, <2>4 DEF Listeners
<1>10. Subscribers'
  <2>1. ASSUME NEW s \in Threads \ {t}, Has(s), req[s].ptr # null, NEW r \in Threads
        PROVE  req[s].ptr \notin chain'[r]
    <3>1. req[s].ptr # p
      BY Zenon, <1>5, <2>1
    <3>2. req[s].ptr \notin chain[r]
      BY Zenon, <1>6, <2>1 DEF Subscribers, Has, Exiting
    <3>. QED BY Zenon, <1>4, <3>1, <3>2
  <2>. QED BY Zenon, <1>1, <1>2, <2>1, SubscribersUndisturbed DEF Moves
<1>11. TokenOwners'
  BY ZenonT(60), <1>1 DEF TokenOwners
<1>12. Undisturbed'
  BY Zenon, <1>1, <1>2, <1>3 DEF Undisturbed
<1>13. NothingDangles'
  BY Zenon, <1>1, <1>3 DEF NothingDangles, Undisturbed
<1>. QED BY Zenon, <1>8, <1>9, <1>10, <1>11, <1>12, <1>13

-------------------------------------------------------------------------------
\* A thread exits: it takes the mutex for one of its listeners.
LEMMA ExitPreserves ==
    ASSUME IInv, ~ExitDuringDestroy, NEW t \in Threads, Exit(t)
    PROVE  IInv'
<1> USE DEF IInv, DestructionInvariant
<1>1. /\ UNCHANGED <<chain, producerListTail, producerCount, nextProd, inactive,
                     isExplicit, token, created, req, destroying, toDestroy, destroyed>>
      /\ call[t].pc = "idle" /\ mutex = null /\ mutex' = t /\ toDestroy = null
  BY Zenon DEF Exit, producerListVars, listFields, destroyVars
<1>2. Moves(t, {"leave"}) /\ call'[t].producer \in chain[t]
  BY SMTT(30) DEF Exit, Moves, CallsOK, Idle, TypeOK
<1>3. \A s \in Threads : call[s].pc \notin Exiting
  BY Zenon, <1>1, ProducerListAssumption DEF Listeners
<1>4. TypeOK'
  BY Zenon, <1>1, <1>2 DEF TypeOK, ProducerListTypeOK, Moves
<1>5. Listeners'
  <2>1. \A s \in Threads : \A q \in chain[s] : q <= created /\ ~isExplicit[q] /\ ~inactive[q]
    BY Zenon, <1>3 DEF Listeners, Exiting
  <2>2. \A s \in Threads : call'[s].pc \in Exiting => s = t
    BY Zenon, <1>2, <1>3 DEF Moves
  <2>. QED BY ZenonT(60), <1>1, <1>2, <2>1, <2>2 DEF Listeners
<1>6. Subscribers'
  <2>1. ASSUME NEW s \in Threads \ {t}, Has(s), req[s].ptr # null, NEW r \in Threads
        PROVE  req[s].ptr \notin chain[r]
    BY Zenon, <1>3, <2>1 DEF Subscribers, Has, Exiting
  <2>2. req[t].pc \notin {"scan", "create", "push"}
    BY ZenonT(60), <1>1 DEF Subscribers
  <2>. QED BY ZenonT(60), <1>1, <1>2, <2>1, <2>2, SubscribersUndisturbed DEF Moves
<1>7. TokenOwners'
  BY Zenon, <1>1 DEF TokenOwners
<1>8. Undisturbed'
  BY Zenon, <1>1, <1>2 DEF Undisturbed, Moves, Exiting
<1>9. NothingDangles'
  BY Zenon, <1>1 DEF NothingDangles
<1>. QED BY Zenon, <1>4, <1>5, <1>6, <1>7, <1>8, <1>9

\* implicit_producer_thread_exited goes through the tables.
LEMMA BuryPreserves ==
    ASSUME IInv, NEW t \in Threads, Bury(t)
    PROVE  IInv'
<1> USE DEF IInv, DestructionInvariant
<1>1. /\ UNCHANGED <<mutex, chain, producerListTail, producerCount, nextProd, inactive,
                     isExplicit, token, created, req, destroying, toDestroy, destroyed>>
      /\ call[t].pc = "leave"
  BY Zenon DEF Bury, producerListVars, listFields, destroyVars, exitVars
<1>2. Moves(t, {"leave", "inactive"}) /\ call'[t].producer = call[t].producer
  <2> DEFINE pc == IF call[t].mainHash = 1 THEN "inactive" ELSE "leave"
  <2>1. call' = [call EXCEPT ![t].mainHash = call[t].mainHash - 1, ![t].pc = pc]
    BY Zenon DEF Bury
  <2>2. pc \in {"leave", "inactive"}
    BY Zenon
  <2>3. Moves(t, {pc}) /\ call'[t].producer = call[t].producer
    BY ZenonT(60), <2>1, Retabling DEF TypeOK
  <2>. QED BY Zenon, <2>2, <2>3 DEF Moves
<1>3. \A s \in Threads : call[s].pc = "left" => call'[s] = call[s]
  BY Zenon, <1>1, <1>2 DEF Moves
<1>4. TypeOK'
  BY Zenon, <1>1, <1>2 DEF TypeOK, ProducerListTypeOK, Moves
<1>5. Listeners'
  <2>1. ASSUME NEW s \in Threads, call'[s].pc \in Exiting
        PROVE  mutex = s /\ call'[s].producer \in chain[s]
    BY Zenon, <1>1, <1>2, <2>1 DEF Listeners, Moves, Exiting
  <2>2. ASSUME NEW s \in Threads, NEW q \in chain[s], inactive[q]
        PROVE  call'[s].pc = "left" /\ call'[s].producer = q
    BY <1>3, <2>2 DEF Listeners
  <2>. QED BY ZenonT(60), <1>1, <2>1, <2>2 DEF Listeners
<1>6. Subscribers'
  <2>1. ASSUME NEW s \in Threads \ {t}, Has(s), req[s].ptr # null,
               NEW r \in Threads, req[s].ptr \in chain[r]
        PROVE  call'[r] = call[r]
    BY Zenon, <1>3, <2>1 DEF Subscribers, Has
  <2>2. req[t].pc \notin {"scan", "create", "push"}
    BY ZenonT(60), <1>1 DEF Subscribers
  <2>. QED BY Zenon, <1>1, <1>2, <2>1, <2>2, SubscribersUndisturbed DEF Moves
<1>7. TokenOwners'
  BY Zenon, <1>1 DEF TokenOwners
<1>8. Undisturbed'
  BY Zenon, <1>1, <1>2 DEF Undisturbed, Moves, Exiting
<1>9. NothingDangles'
  BY Zenon, <1>1 DEF NothingDangles
<1>. QED BY <1>4, <1>5, <1>6, <1>7, <1>8, <1>9

\* "Mark the queue as being recyclable": the mutex is still held.
LEMMA MarkInactivePreserves ==
    ASSUME IInv, NEW t \in Threads, MarkInactive(t)
    PROVE  IInv'
<1> DEFINE p == call[t].producer
<1> USE DEF IInv, DestructionInvariant
<1>1. /\ UNCHANGED <<mutex, chain, destroying, toDestroy, destroyed, isExplicit,
                     created, producerCount, token, producerListTail, nextProd>>
      /\ call[t].pc = "inactive"
  BY Zenon DEF MarkInactive, listFields, exitVars, destroyVars
<1>2. /\ inactive' = [inactive EXCEPT ![p] = TRUE]
      /\ req' = [req EXCEPT ![t] = [pc |-> "none", ptr |-> null]]
  BY Zenon DEF MarkInactive, NoRequest
<1>3. Moves(t, {"left"}) /\ call'[t].producer = p
  BY ZenonT(30), Stepping DEF MarkInactive, TypeOK
<1>4. /\ mutex = t /\ p \in chain[t] /\ p <= created /\ ~isExplicit[p]
      /\ \A s \in Threads \ {t} : p \notin chain[s]
  BY ZenonT(60), <1>1 DEF Listeners, Exiting
<1>5. \A q \in chain[t] : ~inactive[q]
  BY ZenonT(30), <1>1 DEF Listeners
<1>6. /\ p \in Producers
      /\ inactive'[p] /\ \A q \in Producers \ {p} : inactive'[q] = inactive[q]
      /\ inactive' \in [Producers -> BOOLEAN]
  BY Zenon, <1>2, <1>4 DEF TypeOK, ProducerListTypeOK
<1>7. t \in Owners /\ RequestsOK(req)
  BY DEF TypeOK, ProducerListTypeOK, Owners
<1>8. /\ RequestsOK(req') /\ req'[t].pc = "none"
      /\ \A v \in Owners \ {t} : req'[v] = req[v]
  BY ZenonT(60), <1>2, <1>7, Requesting DEF Pointers
<1>9. \A s \in Threads \ {t} : call[s].pc \notin Exiting /\ call'[s] = call[s]
  BY Zenon, <1>3, <1>4 DEF Listeners, Moves
<1> HIDE DEF p
<1>10. TypeOK'
  BY Zenon, <1>1, <1>3, <1>6, <1>8 DEF TypeOK, ProducerListTypeOK, Moves
<1>11. Listeners'
  <2>1. ASSUME NEW s \in Threads, call'[s].pc \in Exiting
        PROVE  mutex = s /\ call'[s].producer \in chain[s]
    BY Zenon, <1>3, <1>4, <1>9, <2>1
  <2>2. ASSUME NEW s \in Threads, NEW q \in chain[s], inactive'[q]
        PROVE  call'[s].pc = "left" /\ call'[s].producer = q
    <3>1. CASE q = p
      BY ZenonT(60), <1>3, <1>4, <3>1 DEF Moves
    <3>2. CASE q # p
      <4>1. inactive[q]
        BY Zenon, <1>6, <2>2, <3>2 DEF TypeOK
      <4>. QED BY Zenon, <1>5, <1>9, <4>1 DEF Listeners, Exiting
    <3>. QED BY Zenon, <3>1, <3>2
  <2>. QED BY ZenonT(60), <1>1, <2>1, <2>2 DEF Listeners
<1>12. Subscribers'
  <2>1. ASSUME NEW s \in Threads \ {t}, Has(s), req[s].ptr # null
        PROVE  /\ inactive'[req[s].ptr] = inactive[req[s].ptr]
               /\ \A r \in Threads : req[s].ptr \notin chain[r]
    <3>1. \A r \in Threads : req[s].ptr \in chain[r] => call[r].pc = "left"
      BY Zenon, <2>1 DEF Subscribers, Has
    <3>2. \A r \in Threads : call[r].pc # "left"
      BY Zenon, <1>1, <1>9 DEF Exiting
    <3>3. req[s].ptr # p /\ req[s].ptr \in Producers
      BY Zenon, <1>4, <2>1, <3>1, <3>2, PointsToProducer DEF Owners
    <3>. QED BY Zenon, <1>6, <3>1, <3>2, <3>3
  <2>2. \A s \in Threads \ {t} : req'[s] = req[s]
    BY Zenon, <1>8 DEF Owners
  <2>. QED BY ZenonT(60), <1>1, <1>3, <1>8, <1>9, <2>1, <2>2, SubscribersUndisturbed DEF Moves
<1>13. \A k \in Tokens : req'[k] = req[k]
  BY Zenon, <1>8, ProducerListAssumption DEF Owners
<1>14. TokenOwners' /\ NothingDangles'
  <2>1. \A q \in Producers : isExplicit[q] => inactive'[q] = inactive[q]
    BY Zenon, <1>4, <1>6
  <2>. QED BY Zenon, <1>1, <1>13, <2>1, TokensUndisturbed
<1>15. Undisturbed'
  <2>1. \A q \in Producers : inactive'[q] => q <= created
    BY Zenon, <1>4, <1>6 DEF Undisturbed
  <2>. QED BY Zenon, <1>1, <1>3, <1>13, <2>1 DEF Undisturbed, Moves, Exiting
<1>. QED BY Zenon, <1>10, <1>11, <1>12, <1>14, <1>15

\* The listener is gone, and the mutex is free again.
LEMMA GonePreserves ==
    ASSUME IInv, NEW t \in Threads, Gone(t)
    PROVE  IInv'
<1> DEFINE p == call[t].producer
<1> USE DEF IInv, DestructionInvariant
<1>1. /\ UNCHANGED <<producerListTail, producerCount, nextProd, inactive, isExplicit,
                     token, created, req, destroying, toDestroy, destroyed>>
      /\ call[t].pc = "left" /\ mutex' = null
  BY ZenonT(60) DEF Gone, producerListVars, listFields, destroyVars
<1>2. Moves(t, {"idle"})
  BY Zenon DEF Gone, Moves, CallsOK, Idle, TypeOK
<1>3. /\ chain'[t] = chain[t] \ {p}
      /\ \A s \in Threads \ {t} : chain'[s] = chain[s]
      /\ chain' \in [Threads -> SUBSET Producers]
  BY Zenon DEF Gone, TypeOK
<1>4. /\ mutex = t /\ p \in chain[t]
      /\ \A s \in Threads \ {t} : p \notin chain[s]
  BY Zenon, <1>1 DEF Listeners, Exiting
<1>5. \A s \in Threads \ {t} : call[s].pc \notin Exiting /\ call'[s] = call[s]
  BY ZenonT(60), <1>2, <1>4 DEF Listeners, Moves
<1>6. \A s \in Threads : \A q \in chain'[s] :
          q \in chain[s] /\ q <= created /\ ~isExplicit[q] /\ ~inactive[q]
  <2>1. \A q \in chain[t] : q <= created /\ ~isExplicit[q] /\ (inactive[q] => p = q)
    BY Zenon DEF Listeners
  <2>2. \A s \in Threads \ {t} : \A q \in chain[s] :
            q <= created /\ ~isExplicit[q] /\ ~inactive[q]
    BY Zenon, <1>5 DEF Listeners, Exiting
  <2> HIDE DEF p
  <2>. QED BY Zenon, <1>3, <2>1, <2>2
<1>7. p = call[t].producer
  BY Zenon
<1> HIDE DEF p
<1>8. TypeOK'
  BY Zenon, <1>1, <1>2, <1>3 DEF TypeOK, ProducerListTypeOK, Moves
<1>9. Listeners'
  <2>1. \A s \in Threads : call'[s].pc \notin Exiting
    BY Zenon, <1>2, <1>5 DEF Moves, Exiting
  <2>2. \A r, s \in Threads : r # s => chain'[r] \cap chain'[s] = {}
    BY Zenon, <1>6 DEF Listeners
  <2>. QED BY Zenon, <1>1, <1>6, <2>1, <2>2 DEF Listeners
<1>10. Subscribers'
  <2>1. ASSUME NEW s \in Threads \ {t}, Has(s), req[s].ptr # null, NEW r \in Threads
        PROVE  req[s].ptr \notin chain'[r]
    <3>1. req[s].ptr \in chain[r] => call[r].pc = "left" /\ call[r].producer = req[s].ptr
      BY Zenon, <2>1 DEF Subscribers, Has
    <3>2. req[s].ptr \in chain[r] => r = t /\ req[s].ptr = p
      BY ZenonT(60), <1>5, <1>7, <3>1 DEF Exiting
    <3>. QED BY Zenon, <1>3, <3>2
  <2>2. req[t].pc \notin {"scan", "create", "push"}
    BY Zenon, <1>1 DEF Subscribers
  <2>. QED BY Zenon, <1>1, <1>2, <1>5, <2>1, <2>2, SubscribersUndisturbed DEF Moves
<1>11. TokenOwners' /\ NothingDangles'
  <2>1. \A s \in Threads : chain'[s] \subseteq chain[s]
    BY Zenon, <1>3
  <2>. QED BY Zenon, <1>1, <2>1, TokensUndisturbed
<1>12. Undisturbed'
  BY Zenon, <1>1, <1>2 DEF Undisturbed, Moves
<1>. QED BY <1>8, <1>9, <1>10, <1>11, <1>12

-------------------------------------------------------------------------------
\* A ProducerToken is constructed.
LEMMA ConstructPreserves ==
    ASSUME IInv, NEW k \in Tokens, ~destroying, ConstructToken(k),
           UNCHANGED <<call, exitVars>>
    PROVE  IInv'
<1> USE DEF IInv, DestructionInvariant
<1>1. /\ UNCHANGED <<call, mutex, chain, destroying, toDestroy, destroyed, inactive,
                     isExplicit, created, producerCount, token, producerListTail,
                     nextProd>>
      /\ k \in Owners /\ k \notin Threads /\ Asking(k)
  BY Zenon, ProducerListAssumption
     DEF ConstructToken, RecycleOrCreate, listFields, exitVars, destroyVars, Owners, Asking
<1>2. \E pc \in {"scan", "create"} :
          /\ req' = [req EXCEPT ![k] = [pc |-> pc, ptr |-> producerListTail]]
          /\ pc = "scan" => producerListTail # null
  BY Zenon DEF ConstructToken, RecycleOrCreate, ScanFrom, Request
<1>3. RequestsOK(req) /\ producerListTail \in Pointers /\ created \in Nat
  BY DEF TypeOK, ProducerListTypeOK
<1>4. /\ RequestsOK(req')
      /\ req'[k].pc \in {"scan", "create"}
      /\ \A v \in Owners \ {k} : req'[v] = req[v]
  BY ZenonT(60), <1>1, <1>2, <1>3, Requesting
<1>5. TypeOK'
  BY Zenon, <1>1, <1>4 DEF TypeOK, ProducerListTypeOK
<1>6. Listeners' /\ Subscribers' /\ TokenOwners'
  BY Zenon, <1>1, <1>4, WithoutProducer DEF Holding
<1>7. Undisturbed' /\ NothingDangles'
  BY <1>1, <1>3, NotDestroying
<1>. QED BY Zenon, <1>5, <1>6, <1>7

\* Tokens exchange their producers among themselves, or give them up.
LEMMA TokensExchange ==
    ASSUME TypeOK, TokenOwners, Undisturbed, NothingDangles,
           UNCHANGED <<call, chain, destroying, toDestroy, destroyed, isExplicit, created>>,
           \A p \in Producers : inactive'[p] => p <= created,
           \A k \in Tokens :
               /\ req'[k].pc \in {"none", "done"} \/ req'[k].pc = req[k].pc
               /\ req'[k].pc = "none" => req'[k].ptr = null
               /\ req'[k].pc \in Holding /\ req'[k].ptr # null =>
                      /\ \E j \in Tokens : req[j].pc \in Holding /\ req[j].ptr = req'[k].ptr
                      /\ inactive'[req'[k].ptr] = inactive[req'[k].ptr]
                      /\ req'[k].pc = "done" => token'[req'[k].ptr] = k
                      /\ \A j \in Tokens :
                             j # k /\ req'[j].pc \in Holding => req'[j].ptr # req'[k].ptr
               /\ \E j \in Tokens : req'[k].ptr \in {null, req[j].ptr}
    PROVE  TokenOwners' /\ Undisturbed' /\ NothingDangles'
<1>1. TokenOwners'
  <2> SUFFICES ASSUME NEW k \in Tokens PROVE TokenOwners!(k)'
    BY Zenon DEF TokenOwners
  <2>1. ASSUME req'[k].pc \in Holding, req'[k].ptr # null
        PROVE  /\ req'[k].ptr <= created
               /\ ~inactive[req'[k].ptr] /\ isExplicit[req'[k].ptr]
    <3>1. PICK j \in Tokens : req[j].pc \in Holding /\ req[j].ptr = req'[k].ptr
      BY ZenonT(60), <2>1
    <3>. QED BY Zenon, <2>1, <3>1 DEF TokenOwners
  <2>. QED BY Zenon, <2>1
<1>2. Undisturbed'
  BY ZenonT(30) DEF Undisturbed
<1>3. NothingDangles'
  <2>1. null \notin destroyed
    BY Zenon, NullIsNoProducer DEF TypeOK, ProducerListTypeOK
  <2>. QED BY Zenon, <2>1 DEF NothingDangles
<1>. QED BY Zenon, <1>1, <1>2, <1>3

\* A ProducerToken is destroyed: its producer, if it has one, is inactive now.
LEMMA DestroyTokenPreserves ==
    ASSUME IInv, NEW k \in Tokens, DestroyToken(k), UNCHANGED <<call, exitVars>>
    PROVE  IInv'
<1> DEFINE p == req[k].ptr
<1> USE DEF IInv, DestructionInvariant
<1>1. UNCHANGED <<call, mutex, chain, destroying, toDestroy, destroyed,
                  isExplicit, created, producerCount, producerListTail, nextProd>>
  BY ZenonT(60) DEF DestroyToken, listFields, exitVars, destroyVars
<1>2. /\ req[k].pc = "done"
      /\ req' = [req EXCEPT ![k] = [pc |-> "none", ptr |-> null]]
      /\ p = null => UNCHANGED <<token, inactive>>
      /\ p # null => token' = [token EXCEPT ![p] = null]
                     /\ inactive' = [inactive EXCEPT ![p] = TRUE]
  BY Zenon DEF DestroyToken, Ready, OwnToken, Request
<1>3. /\ RequestsOK(req) /\ k \in Owners /\ k \notin Threads
      /\ inactive \in [Producers -> BOOLEAN]
      /\ token \in [Producers -> Tokens \cup {null}]
      /\ p # null => p \in Producers
  BY Zenon, ProducerListAssumption, PointsToProducer DEF TypeOK, ProducerListTypeOK, Owners
<1>4. /\ RequestsOK(req')
      /\ req'[k].pc = "none" /\ req'[k].ptr = null
      /\ \A v \in Owners \ {k} : req'[v] = req[v]
  BY ZenonT(60), <1>2, <1>3, Requesting DEF Pointers
<1>5. p # null => isExplicit[p] /\ p <= created
  BY Zenon, <1>2 DEF TokenOwners, Holding
<1>6. /\ \A q \in Producers \ {p} : inactive'[q] = inactive[q] /\ token'[q] = token[q]
      /\ token' \in [Producers -> Tokens \cup {null}]
      /\ inactive' \in [Producers -> BOOLEAN]
  BY Zenon, <1>2, <1>3
<1>7. TypeOK'
  BY Zenon, <1>1, <1>4, <1>6 DEF TypeOK, ProducerListTypeOK
<1>8. Listeners' /\ Subscribers'
  <2>1. \A q \in Producers : ~isExplicit[q] => inactive'[q] = inactive[q]
    BY ZenonT(60), <1>5, <1>6, NullIsNoProducer
  <2>2. \A t \in Threads : req'[t] = req[t]
    BY Zenon, <1>3, <1>4 DEF Owners
  <2>. QED BY Zenon, <1>1, <2>1, <2>2, ThreadsUndisturbed
<1>9. TokenOwners' /\ Undisturbed' /\ NothingDangles'
  <2>1. \A q \in Producers : inactive'[q] => q <= created
    BY Zenon, <1>5, <1>6, NullIsNoProducer DEF Undisturbed
  <2>2. ASSUME NEW j \in Tokens, j # k
        PROVE  /\ req'[j] = req[j]
               /\ req[j].pc = "none" => req[j].ptr = null
               /\ req[j].pc \in Holding /\ req[j].ptr # null =>
                      /\ inactive'[req[j].ptr] = inactive[req[j].ptr]
                      /\ req[j].pc = "done" => token'[req[j].ptr] = j
                      /\ \A i \in Tokens :
                             i # j /\ req'[i].pc \in Holding => req'[i].ptr # req[j].ptr
    <3>1. TokenOwners!(j) /\ req'[j] = req[j]
      BY Zenon, <1>4, <2>2 DEF TokenOwners, Owners
    <3>2. ASSUME req[j].pc \in Holding, req[j].ptr # null
          PROVE  req[j].ptr \in Producers \ {p}
      <4>1. req[j].ptr # p
        BY ZenonT(60), <1>2, <2>2, <3>1, <3>2 DEF Holding
      <4>. QED BY Zenon, <3>2, <4>1, PointsToProducer DEF Owners
    <3>3. ASSUME NEW i \in Tokens, req'[i].pc \in Holding
          PROVE  req'[i] = req[i]
      BY Zenon, <1>4, <3>3 DEF Owners, Holding
    <3> HIDE DEF p
    <3>. QED BY Zenon, <1>6, <3>1, <3>2, <3>3
  <2> HIDE DEF p
  <2>3. ASSUME NEW j \in Tokens, req'[j].pc \in Holding, req'[j].ptr # null
        PROVE  /\ \E i \in Tokens : req[i].pc \in Holding /\ req[i].ptr = req'[j].ptr
               /\ inactive'[req'[j].ptr] = inactive[req'[j].ptr]
               /\ req'[j].pc = "done" => token'[req'[j].ptr] = j
               /\ \A i \in Tokens :
                      i # j /\ req'[i].pc \in Holding => req'[i].ptr # req'[j].ptr
    BY Zenon, <1>4, <2>2, <2>3
  <2>4. ASSUME NEW j \in Tokens
        PROVE  /\ req'[j].pc \in {"none", "done"} \/ req'[j].pc = req[j].pc
               /\ req'[j].pc = "none" => req'[j].ptr = null
               /\ \E i \in Tokens : req'[j].ptr \in {null, req[i].ptr}
    BY Zenon, <1>4, <2>2
  <2>. QED BY Zenon, <1>1, <2>1, <2>3, <2>4, TokensExchange
<1>. QED BY Zenon, <1>7, <1>8, <1>9

\* ProducerToken(ProducerToken&&).
LEMMA MovePreserves ==
    ASSUME IInv, NEW k \in Tokens, NEW other \in Tokens, MoveToken(k, other),
           UNCHANGED <<call, exitVars>>
    PROVE  IInv'
<1> DEFINE p == req[other].ptr
<1> USE DEF IInv, DestructionInvariant
<1>1. UNCHANGED <<call, mutex, chain, destroying, toDestroy, destroyed, inactive,
                  isExplicit, created, producerCount, producerListTail, nextProd>>
  BY Zenon DEF MoveToken, listFields, exitVars, destroyVars
<1>2. /\ req[other].pc = "done" /\ req[k].pc = "none" /\ k # other
      /\ req' = [req EXCEPT ![k] = req[other], ![other].ptr = null]
      /\ p = null => UNCHANGED token
      /\ p # null => token' = [token EXCEPT ![p] = k]
  BY Zenon DEF MoveToken, Ready, OwnToken
<1>3. /\ RequestsOK(req) /\ k \in Owners /\ other \in Owners
      /\ token \in [Producers -> Tokens \cup {null}]
      /\ p # null => p \in Producers
  BY Zenon, PointsToProducer DEF TypeOK, ProducerListTypeOK, Owners
<1>4. /\ RequestsOK(req')
      /\ req'[k] = req[other]
      /\ req'[other].pc = "done" /\ req'[other].ptr = null
      /\ \A v \in Owners \ {k, other} : req'[v] = req[v]
  BY <1>2, <1>3 DEF RequestsOK, Pointers
<1>5. /\ p # null => token'[p] = k
      /\ \A q \in Producers \ {p} : token'[q] = token[q]
      /\ token' \in [Producers -> Tokens \cup {null}]
  BY Zenon, <1>2, <1>3
<1>6. TypeOK'
  BY Zenon, <1>1, <1>4, <1>5 DEF TypeOK, ProducerListTypeOK
<1>7. Listeners' /\ Subscribers'
  <2>1. \A t \in Threads : req'[t] = req[t]
    BY Zenon, <1>4, ProducerListAssumption DEF Owners
  <2>. QED BY Zenon, <1>1, <2>1, ThreadsUndisturbed
<1>8. TokenOwners' /\ Undisturbed' /\ NothingDangles'
  <2>1. \A q \in Producers : inactive'[q] => q <= created
    BY Zenon, <1>1 DEF Undisturbed
  <2>2. /\ req'[k].pc = "done" /\ req'[k].ptr = p
        /\ req[other].pc = "done" /\ req[other].ptr = p
    BY Zenon, <1>2, <1>4
  <2>3. TokenOwners!(other)
    BY Zenon DEF TokenOwners
  <2>4. ASSUME NEW i \in Tokens, i # k, req'[i].pc \in Holding, p # null
        PROVE  req'[i].ptr # p
    <3>1. CASE i = other
      BY Zenon, <1>4, <2>4, <3>1
    <3>2. CASE i # other
      <4>1. req'[i] = req[i]
        BY Zenon, <1>4, <2>4, <3>2 DEF Owners
      <4>. QED BY Zenon, <2>2, <2>3, <2>4, <3>2, <4>1 DEF Holding
    <3>. QED BY Zenon, <3>1, <3>2
  <2>5. ASSUME NEW j \in Tokens, j # k, j # other
        PROVE  /\ req'[j] = req[j]
               /\ req[j].pc = "none" => req[j].ptr = null
               /\ req[j].pc \in Holding /\ req[j].ptr # null =>
                      /\ req[j].pc = "done" => token'[req[j].ptr] = j
                      /\ \A i \in Tokens :
                             i # j /\ req'[i].pc \in Holding => req'[i].ptr # req[j].ptr
    <3>1. TokenOwners!(j) /\ req'[j] = req[j]
      BY Zenon, <1>4, <2>5 DEF TokenOwners, Owners
    <3>2. ASSUME req[j].pc \in Holding, req[j].ptr # null
          PROVE  req[j].ptr \in Producers \ {p}
      <4>1. req[j].ptr # p
        BY ZenonT(60), <2>2, <2>5, <3>1, <3>2 DEF Holding
      <4>. QED BY Zenon, <3>2, <4>1, PointsToProducer DEF Owners
    <3>3. ASSUME req[j].pc \in Holding, req[j].ptr # null,
                 NEW i \in Tokens, i # j, req'[i].pc \in Holding
          PROVE  req'[i].ptr # req[j].ptr
      <4>1. CASE i \in {k, other}
        BY ZenonT(60), <1>4, <2>2, <3>2, <3>3, <4>1
      <4>2. CASE i \notin {k, other}
        <5>1. req'[i] = req[i]
          BY Zenon, <1>4, <4>2 DEF Owners
        <5>. QED BY Zenon, <3>1, <3>3, <5>1
      <4>. QED BY Zenon, <4>1, <4>2
    <3> HIDE DEF p
    <3>. QED BY Zenon, <1>5, <3>1, <3>2, <3>3
  <2> HIDE DEF p
  <2>6. ASSUME NEW j \in Tokens, req'[j].pc \in Holding, req'[j].ptr # null
        PROVE  /\ \E i \in Tokens : req[i].pc \in Holding /\ req[i].ptr = req'[j].ptr
               /\ req'[j].pc = "done" => token'[req'[j].ptr] = j
               /\ \A i \in Tokens :
                      i # j /\ req'[i].pc \in Holding => req'[i].ptr # req'[j].ptr
    <3>1. CASE j = k
      BY Zenon, <1>5, <2>2, <2>4, <2>6, <3>1 DEF Holding
    <3>2. CASE j # k
      BY Zenon, <1>4, <2>5, <2>6, <3>2
    <3>. QED BY Zenon, <3>1, <3>2
  <2>7. ASSUME NEW j \in Tokens
        PROVE  /\ req'[j].pc \in {"none", "done"} \/ req'[j].pc = req[j].pc
               /\ req'[j].pc = "none" => req'[j].ptr = null
               /\ \E i \in Tokens : req'[j].ptr \in {null, req[i].ptr}
    BY ZenonT(60), <1>4, <2>2, <2>5
  <2>. QED BY Zenon, <1>1, <2>1, <2>6, <2>7, TokensExchange
<1>. QED BY Zenon, <1>6, <1>7, <1>8

\* swap.
LEMMA SwapPreserves ==
    ASSUME IInv, NEW k \in Tokens, NEW other \in Tokens, SwapTokens(k, other),
           UNCHANGED <<call, exitVars>>
    PROVE  IInv'
<1> DEFINE p == req[k].ptr
           q == req[other].ptr
<1> USE DEF IInv, DestructionInvariant
<1>1. UNCHANGED <<call, mutex, chain, destroying, toDestroy, destroyed, inactive,
                  isExplicit, created, producerCount, producerListTail, nextProd>>
  BY Zenon DEF SwapTokens, listFields, exitVars, destroyVars
<1>2. /\ req[other].pc = "done" /\ req[k].pc = "done" /\ k # other
      /\ req' = [req EXCEPT ![k] = req[other], ![other] = req[k]]
      /\ token' = OwnToken(OwnToken(token, k, q), other, p)
  BY Zenon DEF SwapTokens, Ready
<1>3. /\ RequestsOK(req) /\ k \in Owners /\ other \in Owners
      /\ token \in [Producers -> Tokens \cup {null}]
      /\ p # null => p \in Producers
      /\ q # null => q \in Producers
  BY ZenonT(60), PointsToProducer DEF TypeOK, ProducerListTypeOK, Owners
<1>4. /\ RequestsOK(req')
      /\ req'[k] = req[other] /\ req'[other] = req[k]
      /\ \A v \in Owners \ {k, other} : req'[v] = req[v]
  BY Zenon, <1>2, <1>3 DEF RequestsOK, Pointers
<1>5. TokenOwners!(k) /\ TokenOwners!(other)
  BY Zenon DEF TokenOwners
<1>6. p # null /\ q # null => p # q
  BY ZenonT(60), <1>2, <1>5 DEF Holding
<1>7. /\ q # null => token'[q] = k
      /\ p # null => token'[p] = other
      /\ \A r \in Producers \ {p, q} : token'[r] = token[r]
      /\ token' \in [Producers -> Tokens \cup {null}]
  BY Zenon, <1>2, <1>3, <1>6 DEF OwnToken
<1>8. TypeOK'
  BY Zenon, <1>1, <1>4, <1>7 DEF TypeOK, ProducerListTypeOK
<1>9. Listeners' /\ Subscribers'
  <2>1. \A t \in Threads : req'[t] = req[t]
    BY ZenonT(60), <1>4, ProducerListAssumption DEF Owners
  <2>. QED BY Zenon, <1>1, <2>1, ThreadsUndisturbed
<1>10. TokenOwners' /\ Undisturbed' /\ NothingDangles'
  <2>1. \A r \in Producers : inactive'[r] => r <= created
    BY Zenon, <1>1 DEF Undisturbed
  <2>2. /\ req'[k].pc = "done" /\ req'[k].ptr = q
        /\ req'[other].pc = "done" /\ req'[other].ptr = p
        /\ req[k].pc = "done" /\ req[k].ptr = p
        /\ req[other].pc = "done" /\ req[other].ptr = q
    BY Zenon, <1>2, <1>4
  <2>3. ASSUME NEW j \in Tokens, j # k, j # other
        PROVE  /\ req'[j] = req[j]
               /\ req[j].pc = "none" => req[j].ptr = null
               /\ req[j].pc \in Holding /\ req[j].ptr # null =>
                      /\ req[j].ptr \in Producers \ {p, q}
                      /\ req[j].pc = "done" => token[req[j].ptr] = j
                      /\ \A i \in Tokens :
                             i # j /\ req[i].pc \in Holding => req[i].ptr # req[j].ptr
    <3>1. TokenOwners!(j) /\ req'[j] = req[j]
      BY Zenon, <1>4, <2>3 DEF TokenOwners, Owners
    <3>2. ASSUME req[j].pc \in Holding, req[j].ptr # null
          PROVE  req[j].ptr \in Producers \ {p, q}
      <4>1. req[j].ptr # p /\ req[j].ptr # q
        BY Zenon, <2>2, <2>3, <3>1, <3>2 DEF Holding
      <4>. QED BY Zenon, <3>2, <4>1, PointsToProducer DEF Owners
    <3>. QED BY Zenon, <3>1, <3>2
  <2>4. ASSUME NEW j \in Tokens, j # k, j # other, req'[j].pc \in Holding
        PROVE  (p # null => req'[j].ptr # p) /\ (q # null => req'[j].ptr # q)
    BY Zenon, <2>3, <2>4, NullIsNoProducer
  <2>5. ASSUME NEW j \in Tokens, j # k, j # other, req[j].pc \in Holding,
               req[j].ptr # null
        PROVE  \A i \in Tokens :
                   i # j /\ req'[i].pc \in Holding => req'[i].ptr # req[j].ptr
    <3> SUFFICES ASSUME NEW i \in Tokens, i # j, req'[i].pc \in Holding
                 PROVE  req'[i].ptr # req[j].ptr
      BY ZenonT(60)
    <3>1. CASE i \in {k, other}
      BY ZenonT(30), <2>2, <2>3, <2>5, <3>1
    <3>2. CASE i \notin {k, other}
      <4>1. req'[i] = req[i]
        BY Zenon, <2>3, <3>2
      <4>. QED BY ZenonT(60), <2>3, <2>5, <4>1
    <3>. QED BY Zenon, <3>1, <3>2
  <2> HIDE DEF p, q
  <2>6. ASSUME NEW j \in Tokens, req'[j].pc \in Holding, req'[j].ptr # null
        PROVE  /\ \E i \in Tokens : req[i].pc \in Holding /\ req[i].ptr = req'[j].ptr
               /\ req'[j].pc = "done" => token'[req'[j].ptr] = j
               /\ \A i \in Tokens :
                      i # j /\ req'[i].pc \in Holding => req'[i].ptr # req'[j].ptr
    <3>1. CASE j = k
      BY Zenon, <1>6, <1>7, <2>2, <2>4, <2>6, <3>1 DEF Holding
    <3>2. CASE j = other
      BY ZenonT(60), <1>6, <1>7, <2>2, <2>4, <2>6, <3>2 DEF Holding
    <3>3. CASE j # k /\ j # other
      <4>1. /\ req'[j] = req[j] /\ req[j].pc \in Holding /\ req[j].ptr # null
            /\ req[j].ptr \in Producers \ {p, q}
            /\ req[j].pc = "done" => token[req[j].ptr] = j
        BY Zenon, <2>3, <2>6, <3>3
      <4>2. req'[j].pc = "done" => token'[req'[j].ptr] = j
        BY Zenon, <1>7, <4>1
      <4>3. \A i \in Tokens :
                i # j /\ req'[i].pc \in Holding => req'[i].ptr # req'[j].ptr
        BY ZenonT(60), <2>5, <3>3, <4>1
      <4>. QED BY ZenonT(60), <4>1, <4>2, <4>3
    <3>. QED BY Zenon, <3>1, <3>2, <3>3
  <2>7. ASSUME NEW j \in Tokens
        PROVE  /\ req'[j].pc \in {"none", "done"} \/ req'[j].pc = req[j].pc
               /\ req'[j].pc = "none" => req'[j].ptr = null
               /\ \E i \in Tokens : req'[j].ptr \in {null, req[i].ptr}
    BY Zenon, <2>2, <2>3
  <2>. QED BY Zenon, <1>1, <2>1, <2>6, <2>7, TokensExchange
<1>. QED BY <1>8, <1>9, <1>10

\* What tokens do beside the threads.
LEMMA TokensPreserve ==
    ASSUME IInv, TokensBeside
    PROVE  IInv'
<1>1. TokenNext /\ UNCHANGED <<call, exitVars>>
  BY Zenon DEF TokensBeside
<1>2. PICK k \in Tokens :
          \/ ~destroying /\ (ConstructToken(k) \/ RequestStep(k))
          \/ DestroyToken(k)
          \/ \E other \in Tokens : MoveToken(k, other) \/ SwapTokens(k, other)
  BY Zenon, <1>1 DEF TokenNext
<1>3. CASE ~destroying /\ RequestStep(k)
  <2>1. Asking(k)
    BY Zenon, <1>1, <1>3, ProducerListAssumption
       DEF Asking, Owners, RequestStep, RecycleOne, CreateProducer, CreateFails,
           PushProducer
  <2>. QED BY Zenon, <1>3, <2>1, RequestPreserves
<1>. QED BY Zenon, <1>1, <1>2, <1>3, ConstructPreserves, DestroyTokenPreserves,
            MovePreserves, SwapPreserves

-------------------------------------------------------------------------------
\* ~ConcurrentQueue begins.
LEMMA BeginDestroyingPreserves ==
    ASSUME IInv, ~ExitDuringDestroy, BeginDestroying
    PROVE  IInv'
<1> USE ProducerListAssumption DEF IInv, DestructionInvariant, exitVars,
        destroyVars, Owners, Holding, Exiting
<1>1. /\ UNCHANGED <<call, mutex, chain, req, destroyed, inactive, isExplicit,
                     created, producerCount, token, producerListTail, nextProd>>
      /\ destroying' = TRUE /\ toDestroy' = producerListTail
      /\ \A k \in Tokens : req[k].pc \in {"none", "done"}
      /\ \A t \in Threads : call[t].pc = "idle"
  BY Zenon DEF BeginDestroying, DestroyQueue, listFields
<1>2. TypeOK'
  BY ZenonT(60), <1>1 DEF TypeOK, ProducerListTypeOK, CallsOK
<1>3. Listeners'
  BY Zenon, <1>1 DEF Listeners
<1>4. Subscribers'
  BY Zenon, <1>1 DEF Subscribers
<1>5. TokenOwners'
  BY ZenonT(60), <1>1 DEF TokenOwners
<1>6. Undisturbed'
  BY Zenon, <1>1 DEF Undisturbed
<1>7. NothingDangles'
  BY Zenon, <1>1 DEF NothingDangles
<1>. QED BY Zenon, <1>2, <1>3, <1>4, <1>5, <1>6, <1>7

\* The destructor of one producer.
LEMMA DestroyPreserves ==
    ASSUME IInv, DestroyImplicit
    PROVE  IInv'
<1> DEFINE p == toDestroy
           k == token[p]
<1> USE ProducerListAssumption DEF IInv, DestructionInvariant, exitVars,
        destroyVars, Owners, Holding, Exiting
<1>1. /\ UNCHANGED <<call, mutex, destroying, inactive, isExplicit, created,
                     producerCount, token, producerListTail, nextProd>>
      /\ p # null /\ p \in Producers /\ k \in Tokens \cup {null}
      /\ destroyed' = destroyed \cup {p}
      /\ toDestroy' = nextProd[p] /\ nextProd[p] \in Pointers
      /\ k = null => req' = req
      /\ k # null => req' = [req EXCEPT ![k].ptr = null]
      /\ isExplicit[p] \/ inactive[p] => chain' = chain
      /\ ~isExplicit[p] /\ ~inactive[p] => chain' = [t \in Threads |-> chain[t] \ {p}]
  BY Zenon DEF DestroyImplicit, DestroyProducer, listFields, Unsubscribed, TypeOK,
         ProducerListTypeOK, Pointers
<1>2. /\ \A t \in Threads : call[t].pc = "idle"
      /\ destroying
  BY Zenon, <1>1 DEF Undisturbed
<1>3. \A t \in Threads : chain'[t] = chain[t] \ {p}
  <2>1. CASE isExplicit[p] \/ inactive[p]
    <3>1. \A t \in Threads : p \notin chain[t]
      BY Zenon, <1>2, <2>1 DEF Listeners
    <3>. QED BY ZenonT(60), <1>1, <2>1, <3>1
  <2>2. CASE ~isExplicit[p] /\ ~inactive[p]
    BY Zenon, <1>1, <2>2
  <2>. QED BY Zenon, <2>1, <2>2
<1>4. /\ \A v \in Owners : req'[v].pc = req[v].pc
      /\ \A v \in Owners : req'[v].ptr \in {req[v].ptr, null}
      /\ \A v \in Threads : req'[v] = req[v]
      /\ k # null => req'[k].ptr = null
      /\ RequestsOK(req')
  <2>1. RequestsOK(req)
    BY Zenon DEF TypeOK, ProducerListTypeOK
  <2>2. CASE k = null
    BY Zenon, <1>1, <2>1, <2>2
  <2>3. CASE k # null
    <3>1. k \in Tokens /\ k \in Owners /\ k \notin Threads
      BY Zenon, <1>1, <2>3, ProducerListAssumption DEF Owners
    <3>2. req[k].pc \in {"none", "done"}
      BY Zenon, <1>2, <3>1 DEF Undisturbed
    <3> HIDE DEF k
    <3>. QED BY SMTT(30), <1>1, <2>1, <2>3, <3>1, <3>2 DEF RequestsOK, Pointers, Owners
  <2>. QED BY ZenonT(60), <2>2, <2>3
<1>5. TypeOK'
  <2>1. chain' \in [Threads -> SUBSET Producers]
    BY Zenon, <1>1 DEF TypeOK
  <2>. QED BY Zenon, <1>1, <1>4, <2>1 DEF TypeOK, ProducerListTypeOK
<1>6. Listeners'
  BY SMTT(30), <1>1, <1>2, <1>3 DEF Listeners
<1>7. Subscribers'
  BY Zenon, <1>1, <1>2, <1>4 DEF Subscribers
<1>8. TokenOwners'
  BY SMTT(30), <1>1, <1>4 DEF TokenOwners
<1>9. Undisturbed'
  BY Zenon, <1>1, <1>2, <1>4 DEF Undisturbed
<1>10. NothingDangles'
  <2>1. null \notin destroyed'
    BY Zenon, <1>5, NullIsNoProducer DEF TypeOK, ProducerListTypeOK
  <2>2. \A j \in Tokens : req[j].ptr = p => k = j
    BY Zenon, <1>1, <1>2 DEF TokenOwners, Undisturbed
  <2>3. \A j \in Tokens : req'[j].ptr # p
    BY Zenon, <1>1, <1>4, <2>2
  <2>. QED BY ZenonT(60), <1>1, <1>3, <1>4, <2>1, <2>3 DEF NothingDangles
<1>. QED BY Zenon, <1>5, <1>6, <1>7, <1>8, <1>9, <1>10

-------------------------------------------------------------------------------
\* The invariant holds initially.
LEMMA InitIInv == Init => IInv
<1> SUFFICES ASSUME Init PROVE IInv
  BY Zenon
<1> USE ProducerListAssumption DEF Init, ProducerListInit
<1>1. TypeOK
  <2>1. CallsOK(call)
    BY Zenon DEF CallsOK, Idle
  <2>2. RequestsOK(req)
    BY Zenon DEF NoRequest, Pointers, RequestsOK
  <2>3. /\ created \in 0 .. MaxProducers /\ producerCount = created
        /\ destroyed \subseteq Producers
    OBVIOUS
  <2>. QED BY Zenon, <2>1, <2>2, <2>3 DEF TypeOK, ProducerListTypeOK, Pointers
<1>2. DestructionInvariant
  BY Zenon DEF DestructionInvariant, Listeners, Subscribers, TokenOwners, Undisturbed,
         NoRequest, Idle, Exiting, Holding, Owners
<1>3. NothingDangles
  BY Zenon DEF NothingDangles
<1>. QED BY Zenon, <1>1, <1>2, <1>3 DEF IInv

\* Every step preserves it.
LEMMA NextIInv ==
    ASSUME ~ExitDuringDestroy, IInv, [Next]_hashVars
    PROVE  IInv'
<1>1. CASE UNCHANGED hashVars
  BY Zenon, <1>1, Unchanged DEF hashVars
<1>2. CASE TokensBeside
  BY Zenon, <1>2, TokensPreserve
<1>3. CASE BeginDestroying
  BY ZenonT(60), <1>3, BeginDestroyingPreserves
<1>4. CASE DestroyImplicit
  BY <1>4, DestroyPreserves
<1>5. ASSUME NEW t \in Threads, GetOrAdd(t) \/ ThreadStep(t) \/ Exit(t)
      PROVE  IInv'
  <2>1. CallsOK(call)
    BY Zenon DEF IInv, TypeOK
  <2>2. CASE SearchProducer(t)
    <3>1. req[t].pc \in {"scan", "create", "push"} /\ UNCHANGED <<call, exitVars, destroyVars>>
      BY Zenon, <2>2 DEF SearchProducer, RequestStep, RecycleOne, CreateProducer, CreateFails,
                  PushProducer
    <3>2. call[t].pc = "asked" /\ ~destroying
      BY Zenon, <3>1 DEF IInv, DestructionInvariant, Subscribers, Undisturbed, Exiting
    <3>. QED BY Zenon, <2>2, <3>1, <3>2, RequestPreserves DEF SearchProducer, Asking, Owners
  <2>3. CASE AskForProducer(t)
    BY Zenon, <2>3, AskPreserves
  <2>4. CASE NoProducer(t)
    BY SMTT(30), <2>4, NoProducerPreserves
  <2>5. CASE Subscribe(t)
    BY <2>5, SubscribePreserves
  <2>6. CASE Bury(t) \/ MarkInactive(t) \/ Gone(t) \/ Exit(t)
    BY Zenon, <2>6, BuryPreserves, MarkInactivePreserves, GonePreserves, ExitPreserves
  <2>7. CASE \/ GetOrAdd(t) \/ ReAdd(t) \/ CountUp(t) \/ TryResize(t) \/ Resize(t)
             \/ ResizeFails(t) \/ GiveUp(t) \/ Unlock(t) \/ Reload(t) \/ Insert(t)
             \/ Uncount(t)
    <3>1. PlainStep(t)
      BY Zenon, <2>1, <2>7, TableSteps
    <3>. QED BY Zenon, <3>1, PlainStepPreserves
  <2>. QED BY Zenon, <1>5, <2>2, <2>3, <2>4, <2>5, <2>6, <2>7 DEF ThreadStep
<1>. QED BY Zenon, <1>1, <1>2, <1>3, <1>4, <1>5 DEF Next

\* ~ConcurrentQueue leaves no thread with a listener and no token with a pointer
\* to a producer it has destroyed, for any number of threads, tokens, producers
\* and calls, provided that no thread exits meanwhile.
THEOREM NothingDanglesAlways ==
    ASSUME ~ExitDuringDestroy
    PROVE  Spec => []NothingDangles
<1>1. Init => IInv
  BY Zenon, InitIInv
<1>2. IInv /\ [Next]_hashVars => IInv'
  BY Zenon, NextIInv
<1>3. IInv => NothingDangles
  BY Zenon DEF IInv
<1>. QED BY <1>1, <1>2, <1>3, PTL DEF Spec

\* What it rests on is invariant too: among other things, a ProducerToken shares
\* its producer with no other token and no thread.
THEOREM DestructionInvariantAlways ==
    ASSUME ~ExitDuringDestroy
    PROVE  Spec => []DestructionInvariant
<1>1. Init => IInv
  BY InitIInv
<1>2. IInv /\ [Next]_hashVars => IInv'
  BY NextIInv
<1>3. IInv => DestructionInvariant
  BY Zenon DEF IInv
<1>. QED BY <1>1, <1>2, <1>3, PTL DEF Spec

===============================================================================
