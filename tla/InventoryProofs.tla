-------------------------- MODULE InventoryProofs --------------------------
(***************************************************************************)
(* Theorems about Inventory for any requests, tags and pool size: no       *)
(* connection is lost, rows belong to known clients, an acknowledged       *)
(* update stays, and an update that has inserted its client fails.         *)
(***************************************************************************)
EXTENDS Inventory, FiniteSetTheorems, TLAPS

-----------------------------------------------------------------------------
\* Connections: every step of a request changes the number of free ones by
\* what the request holds less or more afterwards.

HeldAt(l) == IF l = "scan" THEN 2 ELSE IF l \in TxSteps THEN 1 ELSE 0

Moves(r, l) == Goto(r, l) /\ free' = free + HeldAt(pc[r]) - HeldAt(l)

LEMMA Replace ==
    ASSUME NEW S, IsFiniteSet(S), NEW x, NEW T, T \in {S \ {x}, S \cup {x}}
    PROVE  /\ Cardinality(S) \in Nat /\ Cardinality(T) \in Nat
           /\ Cardinality(T) + (IF x \in S THEN 1 ELSE 0)
                 = Cardinality(S) + (IF x \in T THEN 1 ELSE 0)
  <1>1. Cardinality(S) \in Nat
    BY FS_CardinalityType
  <1>2. CASE T = S \ {x}
    <2>1. /\ IsFiniteSet(T)
          /\ Cardinality(T) = IF x \in S THEN Cardinality(S) - 1 ELSE Cardinality(S)
      BY <1>2, FS_RemoveElement
    <2>2. Cardinality(T) \in Nat
      BY <2>1, FS_CardinalityType
    <2> QED
      BY <1>1, <1>2, <2>1, <2>2
  <1>3. CASE T = S \cup {x}
    <2>1. /\ IsFiniteSet(T)
          /\ Cardinality(T) = IF x \in S THEN Cardinality(S) ELSE Cardinality(S) + 1
      BY <1>3, FS_AddElement
    <2>2. Cardinality(T) \in Nat
      BY <2>1, FS_CardinalityType
    <2> QED
      BY <1>1, <1>3, <2>1, <2>2
  <1> QED
    BY <1>2, <1>3

LEMMA MoveConserves ==
    ASSUME TypeOK, Conserved, NEW r \in Requests, NEW l \in Steps, Moves(r, l)
    PROVE  Conserved' /\ free' \in Int /\ free' <= PoolSize
  <1> DEFINE Txs   == {q \in Requests : InTx(q)}
             Scans == {q \in Requests : pc[q] = "scan"}
             Txs2   == {q \in Requests : InTx(q)'}
             Scans2 == {q \in Requests : pc'[q] = "scan"}
  <1>1. IsFiniteSet(Txs) /\ IsFiniteSet(Scans)
    BY KindAssumption, FS_Subset
  <1>2. pc \in [Requests -> Steps] /\ pc' = [pc EXCEPT ![r] = l]
    BY DEF TypeOK, Moves, Goto
  <1>3. Txs2 \in {Txs \ {r}, Txs \cup {r}} /\ Scans2 \in {Scans \ {r}, Scans \cup {r}}
    <2>1. \A q \in Requests : pc'[q] = IF q = r THEN l ELSE pc[q]
      BY <1>2
    <2>2. Txs2 \in {Txs \ {r}, Txs \cup {r}}
      <3>1. CASE l \in TxSteps
        <4>1. Txs2 = Txs \cup {r}
          BY <2>1, <3>1 DEF InTx
        <4> QED
          BY <4>1
      <3>2. CASE l \notin TxSteps
        <4>1. Txs2 = Txs \ {r}
          BY <2>1, <3>2 DEF InTx
        <4> QED
          BY <4>1
      <3> QED
        BY <3>1, <3>2
    <2>3. Scans2 \in {Scans \ {r}, Scans \cup {r}}
      <3>1. CASE l = "scan"
        <4>1. Scans2 = Scans \cup {r}
          BY <2>1, <3>1
        <4> QED
          BY <4>1
      <3>2. CASE l # "scan"
        <4>1. Scans2 = Scans \ {r}
          BY <2>1, <3>2
        <4> QED
          BY <4>1
      <3> QED
        BY <3>1, <3>2
    <2> QED
      BY <2>2, <2>3
  <1> HIDE DEF Txs, Scans, Txs2, Scans2
  <1>4. /\ Cardinality(Txs) \in Nat /\ Cardinality(Txs2) \in Nat
        /\ Cardinality(Txs2) + (IF r \in Txs THEN 1 ELSE 0)
              = Cardinality(Txs) + (IF r \in Txs2 THEN 1 ELSE 0)
    BY <1>1, <1>3, Replace
  <1>5. /\ Cardinality(Scans) \in Nat /\ Cardinality(Scans2) \in Nat
        /\ Cardinality(Scans2) + (IF r \in Scans THEN 1 ELSE 0)
              = Cardinality(Scans) + (IF r \in Scans2 THEN 1 ELSE 0)
    BY <1>1, <1>3, Replace
  <1>6. /\ r \in Txs <=> pc[r] \in TxSteps
        /\ r \in Txs2 <=> l \in TxSteps
        /\ r \in Scans <=> pc[r] = "scan"
        /\ r \in Scans2 <=> l = "scan"
    BY <1>2 DEF InTx, Txs, Txs2, Scans, Scans2
  <1>7. free + Cardinality(Txs) + Cardinality(Scans) = PoolSize
    BY DEF Conserved, Txs, Scans
  <1>8. free' = free + HeldAt(pc[r]) - HeldAt(l) /\ free \in Int /\ PoolSize \in Int
    BY PoolAssumption DEF Moves, TypeOK
  <1>9. /\ HeldAt(pc[r]) = (IF r \in Txs THEN 1 ELSE 0) + (IF r \in Scans THEN 1 ELSE 0)
        /\ HeldAt(l) = (IF r \in Txs2 THEN 1 ELSE 0) + (IF r \in Scans2 THEN 1 ELSE 0)
    BY <1>6 DEF HeldAt, TxSteps
  <1>10. free' + Cardinality(Txs2) + Cardinality(Scans2) = PoolSize
    BY <1>4, <1>5, <1>7, <1>8, <1>9
  <1>11. free' \in Int /\ free' <= PoolSize
    <2>1. free' \in Int
      BY <1>8, <1>9
    <2> QED
      BY <2>1, <1>4, <1>5, <1>8, <1>10
  <1> QED
    BY <1>10, <1>11 DEF Conserved, Txs2, Scans2

RequestStep(r) == Arrives(r) \/ TxStep(r) \/ UpdateStep(r) \/ BulkStep(r) \/ Fail(r)

LEMMA EveryStepMoves ==
    ASSUME TypeOK, NEW r \in Requests, RequestStep(r)
    PROVE  \E l \in Steps : Moves(r, l) /\ free' >= 0
  <1> USE DEF Moves, HeldAt, Steps, TxSteps
  <1>0. free \in Int /\ free >= 0 /\ pc[r] \in Steps
    BY PoolAssumption DEF TypeOK
  <1>1. CASE Arrives(r)
    BY <1>0, <1>1 DEF Arrives, Goto
  <1>2. CASE TxStep(r)
    BY <1>0, <1>2 DEF TxStep, Begin, InsertIds, Lookup, Scan, LookupSerial,
                      WriteLocation, Commit, Goto
  <1>3. CASE UpdateStep(r)
    BY <1>0, <1>3 DEF UpdateStep, UpdateHardware, UpdateHealth, InsertCheckout, Goto
  <1>4. CASE BulkStep(r)
    BY <1>0, <1>4 DEF BulkStep, BulkCopies, BulkWrites, BulkDone, Goto
  <1>5. CASE Fail(r)
    BY <1>0, <1>5 DEF Fail, Held, InTx, Goto
  <1> QED
    BY <1>1, <1>2, <1>3, <1>4, <1>5 DEF RequestStep

-----------------------------------------------------------------------------
\* Types other than that of the pool.

Typed ==
    /\ ids \subseteq Tags
    /\ inserted \subseteq Updates
    /\ location \in [Tags -> [place : Writer, rest : Writer]]
    /\ holder \in [Tags -> Writer]
    /\ hardware \in [Tags -> Writer] /\ health \in [Tags -> Writer]
    /\ checkout \in [Tags -> SUBSET Requests]
    /\ pc \in [Requests -> Steps]
    /\ tag \in [Requests -> Tags \cup {None}]
    /\ left \in [Requests -> SUBSET Tags]
    /\ copy \in [Requests -> Writer]
    /\ before \in [Requests -> SUBSET Requests]

\* Which steps belong to which kind of request, and from where on an update
\* knows its client.
Kinds ==
    \A r \in Requests :
        /\ pc[r] \in {"insert", "write", "hardware", "health", "checkout"} => r \in Updates
        /\ pc[r] \in {"next", "copied"} => r \in Bulks
        /\ pc[r] = "serial" => r \in Lookups
        /\ r \in Updates /\ pc[r] # "new" => tag[r] \in Tags

LEMMA StepTyped ==
    ASSUME Typed, Kinds, NEW r \in Requests, RequestStep(r)
    PROVE  Typed'
  <1> USE DEF Typed, Writer
  <1>p. \A l \in Steps : Goto(r, l) => pc' \in [Requests -> Steps]
    BY DEF Goto
  <1>r. Release(r) => holder' \in [Tags -> Writer] /\ inserted' \subseteq Updates
    BY DEF Release
  <1>1. CASE Arrives(r)
    <2>1. before' \in [Requests -> SUBSET Requests]
      BY <1>1 DEF Arrives, Requests
    <2>2. pc' \in [Requests -> Steps]
      BY <1>1, <1>p DEF Arrives, Steps
    <2>3. \/ left' = left
          \/ \E S \in SUBSET Tags : left' = [left EXCEPT ![r] = S]
      BY <1>1 DEF Arrives
    <2>4. left' \in [Requests -> SUBSET Tags]
      BY <2>3
    <2>5. tag' = tag \/ \E t \in Tags : tag' = [tag EXCEPT ![r] = t]
      BY <1>1 DEF Arrives
    <2>6. tag' \in [Requests -> Tags \cup {None}]
      BY <2>5
    <2>7. UNCHANGED <<ids, inserted, tables, holder, copy>>
      BY <1>1 DEF Arrives
    <2> QED
      BY <2>1, <2>2, <2>4, <2>6, <2>7 DEF tables
  <1>2. CASE Begin(r)
    BY <1>2, <1>p DEF Begin, tables, Steps, TxSteps
  <1>3. CASE InsertIds(r)
    <2>1. r \in Updates /\ inserted' \subseteq inserted \cup {r}
      BY <1>3 DEF InsertIds, Kinds
    <2> QED
      BY <1>3, <1>p, <2>1 DEF InsertIds, tables, Steps, TxSteps
  <1>4. CASE Lookup(r)
    BY <1>4, <1>p DEF Lookup, tables, Steps, TxSteps
  <1>5. CASE Scan(r)
    BY <1>5, <1>p, <1>r DEF Scan, tables, Steps, TxSteps
  <1>6. CASE LookupSerial(r)
    BY <1>6, <1>p DEF LookupSerial, tables, Steps, TxSteps
  <1>7. CASE WriteLocation(r)
    BY <1>7, <1>p DEF WriteLocation, tables, Steps, TxSteps
  <1>8. CASE Commit(r)
    <2>1. location' \in [Tags -> [place : Writer, rest : Writer]]
      <3>1. [place |-> r, rest |-> r] \in [place : Writer, rest : Writer]
        OBVIOUS
      <3>2. location' \in {location, [location EXCEPT ![tag[r]] = [place |-> r, rest |-> r]]}
        BY <1>8 DEF Commit
      <3> QED
        BY <3>1, <3>2
    <2>2. ids' \subseteq Tags
      <3>1. CASE r \in Updates
        BY <1>8, <3>1 DEF Commit, Kinds
      <3>2. CASE r \notin Updates
        BY <1>8, <3>2 DEF Commit
      <3> QED
        BY <3>1, <3>2
    <2>3. pc' \in [Requests -> Steps]
      BY <1>8, <1>p DEF Commit, Steps
    <2> QED
      BY <1>8, <1>r, <2>1, <2>2, <2>3 DEF Commit
  <1>9. CASE UpdateStep(r)
    <2>1. pc' \in [Requests -> Steps]
      BY <1>9, <1>p DEF UpdateStep, UpdateHardware, UpdateHealth, InsertCheckout, Steps
    <2>2. CASE UpdateHardware(r)
      BY <2>1, <2>2 DEF UpdateHardware
    <2>3. CASE UpdateHealth(r)
      BY <2>1, <2>3 DEF UpdateHealth
    <2>4. CASE InsertCheckout(r)
      BY <2>1, <2>4 DEF InsertCheckout
    <2> QED
      BY <1>9, <2>2, <2>3, <2>4 DEF UpdateStep
  <1>10. CASE BulkCopies(r)
    <2>1. pc' \in [Requests -> Steps]
      BY <1>10, <1>p DEF BulkCopies, Steps
    <2>2. PICK t \in Tags : /\ tag' = [tag EXCEPT ![r] = t]
                            /\ left' = [left EXCEPT ![r] = @ \ {t}]
                            /\ copy' \in {copy, [copy EXCEPT ![r] = location[t].rest]}
      BY <1>10 DEF BulkCopies
    <2>3. location[t].rest \in Writer
      OBVIOUS
    <2>4. copy' \in [Requests -> Writer]
      BY <2>2, <2>3
    <2>5. UNCHANGED <<ids, inserted, tables, holder, before>>
      BY <1>10 DEF BulkCopies
    <2> QED
      BY <2>1, <2>2, <2>4, <2>5 DEF tables
  <1>11. CASE BulkWrites(r)
    BY <1>11, <1>p DEF BulkWrites, Steps
  <1>12. CASE BulkDone(r)
    BY <1>12, <1>p DEF BulkDone, tables, Steps
  <1>13. CASE Fail(r)
    BY <1>13, <1>p, <1>r DEF Fail, tables, Steps
  <1> QED
    BY <1>1, <1>2, <1>3, <1>4, <1>5, <1>6, <1>7, <1>8, <1>9, <1>10, <1>11, <1>12, <1>13
    DEF RequestStep, TxStep, BulkStep

LEMMA StepKinds ==
    ASSUME Typed, Kinds, NEW r \in Requests, RequestStep(r)
    PROVE  Kinds'
  <1> USE DEF Typed
  <1>1. /\ pc' \in [Requests -> Steps] /\ tag' \in [Requests -> Tags \cup {None}]
        /\ \A q \in Requests \ {r} : pc'[q] = pc[q] /\ tag'[q] = tag[q]
    <2>1. \E l : Goto(r, l)
      BY DEF RequestStep, Arrives, TxStep, Begin, InsertIds, Lookup, Scan, LookupSerial,
             WriteLocation, Commit, UpdateStep, UpdateHardware, UpdateHealth,
             InsertCheckout, BulkStep, BulkCopies, BulkWrites, BulkDone, Fail
    <2>2. tag' = tag \/ \E t \in Tags : tag' = [tag EXCEPT ![r] = t]
      BY DEF RequestStep, Arrives, TxStep, Begin, InsertIds, Lookup, Scan, LookupSerial,
             WriteLocation, Commit, UpdateStep, UpdateHardware, UpdateHealth,
             InsertCheckout, BulkStep, BulkCopies, BulkWrites, BulkDone, Fail
    <2> QED
      BY <2>1, <2>2, StepTyped DEF Goto
  <1>2. /\ pc'[r] \in {"insert", "write", "hardware", "health", "checkout"} => r \in Updates
        /\ pc'[r] \in {"next", "copied"} => r \in Bulks
        /\ pc'[r] = "serial" => r \in Lookups
        /\ r \in Updates /\ pc'[r] # "new" => tag'[r] \in Tags
    <2> USE DEF Kinds, Goto
    <2>1. CASE Arrives(r)
      BY <2>1, KindAssumption DEF Arrives
    <2>2. CASE TxStep(r)
      BY <2>2 DEF TxStep, Begin, InsertIds, Lookup, Scan, LookupSerial, WriteLocation,
                  Commit
    <2>3. CASE UpdateStep(r)
      BY <2>3 DEF UpdateStep, UpdateHardware, UpdateHealth, InsertCheckout
    <2>4. CASE BulkStep(r)
      BY <2>4, KindAssumption DEF BulkStep, BulkCopies, BulkWrites, BulkDone
    <2>5. CASE Fail(r)
      BY <2>5 DEF Fail
    <2> QED
      BY <2>1, <2>2, <2>3, <2>4, <2>5 DEF RequestStep
  <1> QED
    BY <1>1, <1>2 DEF Kinds

-----------------------------------------------------------------------------
IInv == TypeOK /\ Conserved /\ Kinds

LEMMA TypedIsTypeOK == TypeOK <=> Typed /\ free \in 0..PoolSize
  BY DEF TypeOK, Typed

LEMMA InitIInv == Init => IInv
  <1> SUFFICES ASSUME Init PROVE IInv
    OBVIOUS
  <1>1. TypeOK
    BY PoolAssumption DEF Init, TypeOK, Writer, Steps
  <1>2. Conserved
    <2>1. {r \in Requests : InTx(r)} = {} /\ {r \in Requests : pc[r] = "scan"} = {}
      BY DEF Init, InTx, TxSteps
    <2>2. free = PoolSize /\ PoolSize \in Nat /\ Cardinality({}) = 0
      BY FS_EmptySet, PoolAssumption DEF Init
    <2> QED
      BY <2>1, <2>2 DEF Conserved
  <1>3. Kinds
    BY DEF Init, Kinds
  <1> QED
    BY <1>1, <1>2, <1>3 DEF IInv

LEMMA StepIInv == IInv /\ [Next]_vars => IInv'
  <1> SUFFICES ASSUME IInv, [Next]_vars PROVE IInv'
    OBVIOUS
  <1> USE DEF IInv
  <1>1. Typed
    BY TypedIsTypeOK
  <1>2. ASSUME NEW r \in Requests, RequestStep(r) PROVE IInv'
    <2>1. Typed' /\ Kinds'
      BY <1>1, <1>2, StepTyped, StepKinds
    <2>2. PICK l \in Steps : Moves(r, l) /\ free' >= 0
      BY <1>2, EveryStepMoves
    <2>3. Conserved' /\ free' \in Int /\ free' <= PoolSize
      BY <2>2, MoveConserves
    <2>4. free' \in 0..PoolSize
      BY <2>2, <2>3, PoolAssumption
    <2> QED
      BY <2>1, <2>3, <2>4 DEF TypeOK, Typed
  <1>3. ASSUME NEW t \in Tags, InitClient(t) PROVE IInv'
    BY <1>3 DEF InitClient, tables, TypeOK, Conserved, InTx, Kinds
  <1>4. CASE UNCHANGED vars
    BY <1>4 DEF vars, tables, TypeOK, Conserved, InTx, Kinds
  <1> QED
    BY <1>2, <1>3, <1>4 DEF Next, RequestStep

\* The inductive invariant: types, and the connections that requests hold are
\* those the pool lacks (update-repo.go:121-137).
THEOREM Inductive == Spec => []IInv
  BY InitIInv, StepIInv, PTL DEF Spec

\* Types, among them that the pool never has more free connections than it has
\* connections, or fewer than none.
THEOREM Typing == Spec => []TypeOK
  <1>1. IInv => TypeOK
    BY DEF IInv
  <1> QED
    BY <1>1, Inductive, PTL

\* No path through a transaction, with failures and timeouts at any point, loses
\* or invents a connection (cleanupPGXTx, update-repo.go:121-137).
THEOREM PoolConserved == Spec => []Conserved
  <1>1. IInv => Conserved
    BY DEF IInv
  <1> QED
    BY <1>1, Inductive, PTL

-----------------------------------------------------------------------------
\* What every step of a request leaves alone.

LEMMA Frame ==
    ASSUME IInv, NEW r \in Requests, RequestStep(r)
    PROVE  /\ \A q \in Requests \ {r} :
                  /\ pc'[q] = pc[q] /\ tag'[q] = tag[q]
                  /\ before'[q] = before[q] /\ copy'[q] = copy[q]
           /\ ~Ended(r) /\ pc'[r] # "new"
           /\ pc[r] # "new" => before' = before
           /\ r \in Updates /\ pc[r] # "new" => tag' = tag
           /\ ids \subseteq ids'
  <1> USE DEF IInv, TypeOK, Goto, Ended
  <1>1. CASE Arrives(r)
    BY <1>1 DEF Arrives
  <1>2. CASE TxStep(r)
    BY <1>2 DEF TxStep, Begin, InsertIds, Lookup, Scan, LookupSerial, WriteLocation,
                Commit
  <1>3. CASE UpdateStep(r)
    BY <1>3 DEF UpdateStep, UpdateHardware, UpdateHealth, InsertCheckout
  <1>4. CASE BulkStep(r)
    BY <1>4, KindAssumption DEF BulkStep, BulkCopies, BulkWrites, BulkDone, Kinds
  <1>5. CASE Fail(r)
    BY <1>5 DEF Fail
  <1> QED
    BY <1>1, <1>2, <1>3, <1>4, <1>5 DEF RequestStep

\* Which rows a step writes: none, or those of the client it works on.
LEMMA Writes ==
    ASSUME IInv, NEW r \in Requests, RequestStep(r)
    PROVE  /\ \A t \in Tags \ {tag[r]} :
                  /\ location'[t] = location[t] /\ hardware'[t] = hardware[t]
                  /\ health'[t] = health[t] /\ checkout'[t] = checkout[t]
           /\ \/ location' = location
              \/ /\ pc[r] \in {"commit", "copied"} /\ (pc[r] = "commit" => r \in Updates)
                 /\ location' = [location EXCEPT ![tag[r]] =
                       [place |-> r, rest |-> IF pc[r] = "commit" THEN r ELSE copy[r]]]
           /\ \/ hardware' = hardware
              \/ pc[r] = "hardware" /\ hardware' = [hardware EXCEPT ![tag[r]] = r]
           /\ \/ health' = health
              \/ pc[r] = "health" /\ health' = [health EXCEPT ![tag[r]] = r]
           /\ \/ checkout' = checkout
              \/ pc[r] = "checkout" /\ checkout' = [checkout EXCEPT ![tag[r]] = @ \cup {r}]
  <1> USE DEF IInv, TypeOK, tables
  <1>1. CASE Arrives(r)
    BY <1>1 DEF Arrives
  <1>2. CASE Commit(r)
    BY <1>2 DEF Commit
  <1>3. CASE TxStep(r) /\ ~Commit(r)
    BY <1>3 DEF TxStep, Begin, InsertIds, Lookup, Scan, LookupSerial, WriteLocation
  <1>4. CASE UpdateStep(r)
    BY <1>4 DEF UpdateStep, UpdateHardware, UpdateHealth, InsertCheckout
  <1>5. CASE BulkStep(r)
    BY <1>5 DEF BulkStep, BulkCopies, BulkWrites, BulkDone
  <1>6. CASE Fail(r)
    BY <1>6 DEF Fail
  <1> QED
    BY <1>1, <1>2, <1>3, <1>4, <1>5, <1>6 DEF RequestStep

-----------------------------------------------------------------------------
\* Rows belong to known clients: whoever writes one has found the client first.

Resolved ==
    \A r \in Requests :
        /\ r \in Updates /\ pc[r] \in {"write", "commit", "hardware", "health", "checkout"}
              => tag[r] \in ids
        /\ pc[r] = "copied" => tag[r] \in ids

LEMMA StepResolved ==
    ASSUME IInv, NoOrphans, Resolved, NEW r \in Requests, RequestStep(r)
    PROVE  Resolved'
  <1>1. /\ \A q \in Requests \ {r} : pc'[q] = pc[q] /\ tag'[q] = tag[q]
        /\ r \in Updates /\ pc[r] # "new" => tag' = tag
        /\ ids \subseteq ids'
    BY Frame
  <1>2. r \in Updates /\ pc'[r] \in {"write", "commit", "hardware", "health", "checkout"}
           => pc[r] # "new" /\ tag[r] \in ids
    <2> USE DEF Resolved, IInv, TypeOK, Goto
    <2>1. CASE Arrives(r)
      BY <2>1, KindAssumption DEF Arrives
    <2>2. CASE TxStep(r)
      <3>1. CASE Begin(r) \/ InsertIds(r) \/ Lookup(r) \/ LookupSerial(r)
        BY <3>1, KindAssumption DEF Begin, InsertIds, Lookup, LookupSerial, Kinds
      <3>2. CASE Scan(r)
        BY <3>2 DEF Scan
      <3>3. CASE WriteLocation(r)
        BY <3>3 DEF WriteLocation
      <3>4. CASE Commit(r)
        BY <3>4 DEF Commit
      <3> QED
        BY <2>2, <3>1, <3>2, <3>3, <3>4 DEF TxStep
    <2>3. CASE UpdateStep(r)
      BY <2>3 DEF UpdateStep, UpdateHardware, UpdateHealth, InsertCheckout
    <2>4. CASE BulkStep(r)
      BY <2>4, KindAssumption DEF BulkStep, BulkCopies, BulkWrites, BulkDone
    <2>5. CASE Fail(r)
      BY <2>5 DEF Fail
    <2> QED
      BY <2>1, <2>2, <2>3, <2>4, <2>5 DEF RequestStep
  <1>3. pc'[r] = "copied" => tag'[r] \in ids
    <2> USE DEF Resolved, IInv, TypeOK, Goto
    <2>1. CASE Arrives(r)
      BY <2>1 DEF Arrives
    <2>2. CASE TxStep(r)
      BY <2>2 DEF TxStep, Begin, InsertIds, Lookup, Scan, LookupSerial, WriteLocation,
                  Commit
    <2>3. CASE UpdateStep(r)
      BY <2>3 DEF UpdateStep, UpdateHardware, UpdateHealth, InsertCheckout
    <2>4. CASE BulkStep(r)
      BY <2>4 DEF BulkStep, BulkCopies, BulkWrites, BulkDone, NoOrphans
    <2>5. CASE Fail(r)
      BY <2>5 DEF Fail
    <2> QED
      BY <2>1, <2>2, <2>3, <2>4, <2>5 DEF RequestStep
  <1> QED
    BY <1>1, <1>2, <1>3 DEF Resolved

LEMMA StepOrphans ==
    ASSUME IInv, NoOrphans, Resolved, NEW r \in Requests, RequestStep(r)
    PROVE  NoOrphans'
  <1> SUFFICES ASSUME NEW t \in Tags, t \notin ids'
               PROVE  location'[t].place = None /\ hardware'[t] = None
                      /\ health'[t] = None /\ checkout'[t] = {}
    BY DEF NoOrphans
  <1>1. t \notin ids
    BY Frame
  <1>2. location[t].place = None /\ hardware[t] = None /\ health[t] = None
        /\ checkout[t] = {}
    BY <1>1 DEF NoOrphans
  <1>3. CASE t # tag[r]
    BY <1>2, <1>3, Writes
  <1>4. CASE t = tag[r]
    <2>1. ~(r \in Updates /\ pc[r] \in {"commit", "hardware", "health", "checkout"})
          /\ pc[r] # "copied"
      BY <1>1, <1>4 DEF Resolved
    <2>2. location' = location /\ hardware' = hardware /\ health' = health
          /\ checkout' = checkout
      BY <2>1, Writes DEF IInv, Kinds
    <2> QED
      BY <1>2, <2>2
  <1> QED
    BY <1>3, <1>4

\* Requests past their lookup know their client, and rows belong to known ones.
LEMMA ClientsKnown == Spec => [](NoOrphans /\ Resolved)
  <1>1. Init => NoOrphans /\ Resolved
    BY DEF Init, NoOrphans, Resolved
  <1>2. IInv /\ NoOrphans /\ Resolved /\ [Next]_vars => (NoOrphans /\ Resolved)'
    <2> SUFFICES ASSUME IInv, NoOrphans, Resolved, [Next]_vars
                 PROVE  (NoOrphans /\ Resolved)'
      OBVIOUS
    <2>1. ASSUME NEW r \in Requests, RequestStep(r) PROVE (NoOrphans /\ Resolved)'
      BY <2>1, StepResolved, StepOrphans
    <2>2. ASSUME NEW t \in Tags, InitClient(t) PROVE (NoOrphans /\ Resolved)'
      BY <2>2 DEF InitClient, tables, NoOrphans, Resolved
    <2>3. CASE UNCHANGED vars
      BY <2>3 DEF vars, tables, NoOrphans, Resolved
    <2> QED
      BY <2>1, <2>2, <2>3 DEF Next, RequestStep
  <1> QED
    BY <1>1, <1>2, Inductive, PTL DEF Spec

\* Rows of the inventory always belong to known clients, for any number of
\* requests and wherever they fail.
THEOREM OrphansNever == Spec => []NoOrphans
  BY ClientsKnown, PTL

-----------------------------------------------------------------------------
\* The new client.

NewClientUnseen ==
    \A r \in inserted : pc[r] \in {"lookup", "scan"} /\ tag[r] \notin ids

\* An update that has inserted its client never gets past the lookup of that
\* client (update-repo.go:438): its row is not committed while it looks, and
\* nobody else can commit one.  For any requests, tags and pool size.
THEOREM NewClientFails == Spec => []NewClientUnseen
  <1>1. Init => NewClientUnseen
    BY DEF Init, NewClientUnseen
  <1>2. IInv /\ NewClientUnseen /\ [Next]_vars => NewClientUnseen'
    <2> SUFFICES ASSUME IInv, NewClientUnseen, [Next]_vars PROVE NewClientUnseen'
      OBVIOUS
    <2> USE DEF NewClientUnseen, IInv, TypeOK, Goto
    <2>0. inserted \subseteq Requests
      BY DEF Requests
    <2>1. ASSUME NEW r \in Requests, Arrives(r) PROVE NewClientUnseen'
      BY <2>0, <2>1 DEF Arrives
    <2>2. ASSUME NEW r \in Requests, TxStep(r) PROVE NewClientUnseen'
      <3>1. CASE Begin(r) \/ Lookup(r) \/ LookupSerial(r) \/ WriteLocation(r)
        BY <2>0, <3>1 DEF Begin, Lookup, LookupSerial, WriteLocation
      <3>2. CASE InsertIds(r)
        BY <2>0, <3>2 DEF InsertIds
      <3>3. CASE Scan(r)
        BY <2>0, <3>3 DEF Scan, Release
      <3>4. CASE Commit(r)
        <4>1. r \notin inserted
          BY <3>4 DEF Commit
        <4>2. inserted \cap {r} = {}
          BY <4>1
        <4>3. {tag[q] : q \in inserted \cap {r}} = {}
          BY <4>2
        <4>4. ids' = ids
          BY <3>4, <4>3 DEF Commit
        <4> QED
          BY <2>0, <3>4, <4>1, <4>4 DEF Commit, Release
      <3> QED
        BY <2>2, <3>1, <3>2, <3>3, <3>4 DEF TxStep
    <2>3. ASSUME NEW r \in Requests, UpdateStep(r) PROVE NewClientUnseen'
      BY <2>0, <2>3 DEF UpdateStep, UpdateHardware, UpdateHealth, InsertCheckout
    <2>4. ASSUME NEW r \in Requests, BulkStep(r) PROVE NewClientUnseen'
      <3>1. r \notin inserted /\ inserted' = inserted /\ ids' = ids
        BY <2>4 DEF BulkStep, BulkCopies, BulkWrites, BulkDone
      <3>2. \A q \in inserted : pc'[q] = pc[q] /\ tag'[q] = tag[q]
        BY <2>0, <2>4, <3>1, Frame DEF RequestStep
      <3> QED
        BY <3>1, <3>2
    <2>5. ASSUME NEW r \in Requests, Fail(r) PROVE NewClientUnseen'
      BY <2>0, <2>5 DEF Fail, Release
    <2>6. ASSUME NEW t \in Tags, InitClient(t) PROVE NewClientUnseen'
      BY <2>0, <2>6 DEF InitClient
    <2>7. CASE UNCHANGED vars
      BY <2>7 DEF vars
    <2> QED
      BY <2>1, <2>2, <2>3, <2>4, <2>5, <2>6, <2>7 DEF Next
  <1> QED
    BY <1>1, <1>2, Inductive, PTL DEF Spec

-----------------------------------------------------------------------------
\* An update that is acknowledged: what each of its steps has left behind.

Written(r) == pc[r] \in {"hardware", "health", "checkout", "ok"}
Stale(r)   == before[r] \cup {None}

\* Only requests that have ended count as earlier ones.
EarlierEnded == \A r \in Requests : \A q \in before[r] : Ended(q)

\* After each of its transactions an update, or one that is not earlier, is the
\* last to have written the table.
WrittenStays ==
    \A r \in Updates :
        /\ Written(r) => /\ location[tag[r]].place \notin Stale(r)
                         /\ location[tag[r]].rest \in Stale(r) => Overlapped(r)
        /\ pc[r] \in {"health", "checkout", "ok"} => hardware[tag[r]] \notin Stale(r)
        /\ pc[r] \in {"checkout", "ok"} => health[tag[r]] \notin Stale(r)
        /\ pc[r] = "ok" => r \in checkout[tag[r]]

\* What a bulk change has copied is not older than any update that had ended
\* when the change arrived.
CopiesStay ==
    \A b \in Bulks, r \in Updates :
        pc[b] = "copied" /\ Written(r) /\ tag[r] = tag[b] /\ r \in before[b]
           /\ copy[b] \in Stale(r) => Overlapped(r)

AIInv == EarlierEnded /\ WrittenStays /\ CopiesStay

LEMMA OverlappedStays ==
    ASSUME IInv, EarlierEnded, NEW r \in Requests, RequestStep(r),
           NEW u \in Updates, u # r \/ pc[r] # "new", Overlapped(u)
    PROVE  Overlapped(u)'
  <1>1. PICK b \in Bulks : pc[b] # "new" /\ b \notin before[u] /\ u \notin before[b]
    BY DEF Overlapped
  <1>2. b \in Requests /\ u \in Requests
    BY DEF Requests
  <1>3. before'[u] = before[u] /\ before'[b] = before[b] /\ pc'[b] # "new"
    BY <1>1, <1>2, Frame
  <1> QED
    BY <1>1, <1>3 DEF Overlapped

LEMMA StepEarlier ==
    ASSUME IInv, EarlierEnded, NEW r \in Requests, RequestStep(r)
    PROVE  EarlierEnded'
  <1> SUFFICES ASSUME NEW q \in Requests, NEW p \in before'[q] PROVE Ended(p)'
    BY DEF EarlierEnded
  <1>1. CASE p \in before[q]
    <2>1. Ended(p) /\ p # r /\ p \in Requests
      BY <1>1, Frame DEF EarlierEnded, IInv, TypeOK
    <2> QED
      BY <2>1, Frame DEF Ended
  <1>2. CASE p \notin before[q]
    <2>1. q = r /\ pc[r] = "new"
      BY <1>2, Frame
    <2>2. Arrives(r)
      BY <2>1 DEF RequestStep, TxStep, Begin, InsertIds, Lookup, Scan, LookupSerial,
                  WriteLocation, Commit, UpdateStep, UpdateHardware, UpdateHealth,
                  InsertCheckout, BulkStep, BulkCopies, BulkWrites, BulkDone, Fail
    <2>3. p \in Requests /\ Ended(p)
      BY <2>1, <2>2 DEF Arrives, IInv, TypeOK, Requests
    <2> QED
      BY <2>3, Frame DEF Ended
  <1> QED
    BY <1>1, <1>2

\* How an update gets to where it has written something.
LEMMA Advances ==
    ASSUME IInv, NEW r \in Updates, RequestStep(r)
    PROVE  /\ Written(r)' => \/ pc[r] = "commit" /\ Commit(r)
                             \/ Written(r) /\ location' = location
           /\ pc'[r] \in {"health", "checkout", "ok"} =>
                 \/ pc[r] = "hardware" /\ UpdateHardware(r)
                 \/ pc[r] \in {"health", "checkout", "ok"} /\ hardware' = hardware
           /\ pc'[r] \in {"checkout", "ok"} =>
                 \/ pc[r] = "health" /\ UpdateHealth(r)
                 \/ pc[r] \in {"checkout", "ok"} /\ health' = health
           /\ pc'[r] = "ok" =>
                 \/ pc[r] = "checkout" /\ InsertCheckout(r)
                 \/ pc[r] = "ok" /\ checkout' = checkout
           /\ pc[r] = "new" => ~Written(r)'
  <1> USE DEF IInv, TypeOK, Goto, Written, tables
  <1>0. r \in Requests /\ r \notin Bulks /\ r \notin Lookups
    BY KindAssumption DEF Requests
  <1>1. CASE Arrives(r)
    BY <1>0, <1>1 DEF Arrives
  <1>2. CASE Commit(r)
    BY <1>0, <1>2 DEF Commit
  <1>3. CASE TxStep(r) /\ ~Commit(r)
    BY <1>0, <1>3 DEF TxStep, Begin, InsertIds, Lookup, Scan, LookupSerial, WriteLocation
  <1>4. CASE UpdateStep(r)
    BY <1>0, <1>4 DEF UpdateStep, UpdateHardware, UpdateHealth, InsertCheckout
  <1>5. CASE BulkStep(r)
    BY <1>0, <1>5 DEF BulkStep, BulkCopies, BulkWrites, BulkDone, Kinds
  <1>6. CASE Fail(r)
    BY <1>0, <1>6 DEF Fail
  <1> QED
    BY <1>1, <1>2, <1>3, <1>4, <1>5, <1>6 DEF RequestStep

LEMMA NotStale ==
    ASSUME IInv, EarlierEnded, NEW r \in Requests, NEW u \in Requests, ~Ended(r)
    PROVE  r \notin Stale(u)
  BY NoneAssumption DEF EarlierEnded, Stale

LEMMA StepWritten ==
    ASSUME IInv, AIInv, NEW r \in Requests, RequestStep(r)
    PROVE  WrittenStays'
  <1> SUFFICES ASSUME NEW u \in Updates
               PROVE  (/\ Written(u) => /\ location[tag[u]].place \notin Stale(u)
                                        /\ location[tag[u]].rest \in Stale(u) => Overlapped(u)
                       /\ pc[u] \in {"health", "checkout", "ok"} =>
                             hardware[tag[u]] \notin Stale(u)
                       /\ pc[u] \in {"checkout", "ok"} => health[tag[u]] \notin Stale(u)
                       /\ pc[u] = "ok" => u \in checkout[tag[u]])'
    BY DEF WrittenStays
  <1>0. u \in Requests
    BY DEF Requests
  <1>1. /\ Written(u) => /\ location[tag[u]].place \notin Stale(u)
                         /\ location[tag[u]].rest \in Stale(u) => Overlapped(u)
        /\ pc[u] \in {"health", "checkout", "ok"} => hardware[tag[u]] \notin Stale(u)
        /\ pc[u] \in {"checkout", "ok"} => health[tag[u]] \notin Stale(u)
        /\ pc[u] = "ok" => u \in checkout[tag[u]]
    BY DEF AIInv, WrittenStays
  <1>2. r \notin Stale(u)
    BY <1>0, NotStale, Frame DEF AIInv
  <1>3. /\ location \in [Tags -> [place : Writer, rest : Writer]]
        /\ hardware \in [Tags -> Writer] /\ health \in [Tags -> Writer]
        /\ checkout \in [Tags -> SUBSET Requests]
        /\ pc[u] # "new" => tag[u] \in Tags
    BY <1>0 DEF IInv, TypeOK, Kinds
  <1>4. CASE u # r
    <2>1. /\ pc'[u] = pc[u] /\ tag'[u] = tag[u] /\ before'[u] = before[u]
          /\ Stale(u)' = Stale(u) /\ (Written(u)' <=> Written(u))
      BY <1>0, <1>4, Frame DEF Stale, Written
    <2>2. ASSUME Written(u)
          PROVE  /\ location'[tag[u]].place \notin Stale(u)
                 /\ location'[tag[u]].rest \in Stale(u) => Overlapped(u)'
      <3>1. tag[u] \in Tags
        BY <1>3, <2>2 DEF Written
      <3>2. Overlapped(u) => Overlapped(u)'
        BY <1>4, OverlappedStays DEF AIInv
      <3>3. CASE location'[tag[u]] = location[tag[u]]
        BY <1>1, <2>2, <3>2, <3>3
      <3>4. CASE pc[r] = "commit" /\ location'[tag[u]] = [place |-> r, rest |-> r]
        BY <1>2, <3>4
      <3>5. CASE /\ pc[r] = "copied" /\ tag[u] = tag[r]
                 /\ location'[tag[u]] = [place |-> r, rest |-> copy[r]]
        <4>1. r \in Bulks /\ r \notin before[u]
          BY <1>2, <3>5 DEF IInv, Kinds, Stale
        <4>2. CASE u \in before[r]
          BY <1>2, <2>2, <3>2, <3>5, <4>1, <4>2 DEF AIInv, CopiesStay
        <4>3. CASE u \notin before[r]
          <5>1. Overlapped(u)
            BY <3>5, <4>1, <4>3 DEF Overlapped
          <5> QED
            BY <1>2, <3>2, <3>5, <5>1
        <4> QED
          BY <4>2, <4>3
      <3>6. \/ location'[tag[u]] = location[tag[u]]
            \/ pc[r] = "commit" /\ location'[tag[u]] = [place |-> r, rest |-> r]
            \/ /\ pc[r] = "copied" /\ tag[u] = tag[r]
               /\ location'[tag[u]] = [place |-> r, rest |-> copy[r]]
        <4>1. CASE tag[u] # tag[r]
          BY <3>1, <4>1, Writes
        <4>2. CASE tag[u] = tag[r]
          BY <1>3, <3>1, <4>2, Writes
        <4> QED
          BY <4>1, <4>2
      <3> QED
        BY <3>3, <3>4, <3>5, <3>6
    <2>3. pc[u] # "new" => /\ hardware'[tag[u]] \in {hardware[tag[u]], r}
                           /\ health'[tag[u]] \in {health[tag[u]], r}
                           /\ checkout[tag[u]] \subseteq checkout'[tag[u]]
      <3> SUFFICES ASSUME tag[u] \in Tags
                   PROVE  /\ hardware'[tag[u]] \in {hardware[tag[u]], r}
                          /\ health'[tag[u]] \in {health[tag[u]], r}
                          /\ checkout[tag[u]] \subseteq checkout'[tag[u]]
        BY <1>3
      <3>1. hardware'[tag[u]] \in {hardware[tag[u]], r}
        BY <1>3, Writes
      <3>2. health'[tag[u]] \in {health[tag[u]], r}
        BY <1>3, Writes
      <3>3. checkout' \in {checkout, [checkout EXCEPT ![tag[r]] = @ \cup {r}]}
        BY Writes
      <3>4. checkout[tag[u]] \subseteq checkout'[tag[u]]
        BY <1>3, <3>3
      <3> QED
        BY <3>1, <3>2, <3>4
    <2> QED
      BY <1>1, <1>2, <2>1, <2>2, <2>3
  <1>5. CASE u = r
    <2>1. pc[r] # "new" => before' = before /\ tag' = tag /\ Stale(u)' = Stale(u)
      BY <1>5, Frame DEF Stale
    <2>2. pc[r] # "new" /\ Overlapped(u) => Overlapped(u)'
      BY <1>5, OverlappedStays DEF AIInv
    <2>3. ASSUME Written(u)'
          PROVE  /\ location'[tag'[u]].place \notin Stale(u)'
                 /\ location'[tag'[u]].rest \in Stale(u)' => Overlapped(u)'
      <3>1. CASE pc[r] = "commit" /\ Commit(r)
        BY <1>2, <1>3, <1>5, <2>1, <3>1 DEF Commit
      <3>2. CASE Written(r) /\ location' = location
        BY <1>1, <1>5, <2>1, <2>2, <3>2 DEF Written
      <3> QED
        BY <1>5, <2>3, <3>1, <3>2, Advances
    <2>4. ASSUME pc'[u] \in {"health", "checkout", "ok"}
          PROVE  hardware'[tag'[u]] \notin Stale(u)'
      <3>1. CASE pc[r] = "hardware" /\ UpdateHardware(r)
        BY <1>2, <1>3, <1>5, <2>1, <3>1 DEF UpdateHardware
      <3>2. CASE pc[r] \in {"health", "checkout", "ok"} /\ hardware' = hardware
        BY <1>1, <1>5, <2>1, <3>2
      <3> QED
        BY <1>5, <2>4, <3>1, <3>2, Advances
    <2>5. ASSUME pc'[u] \in {"checkout", "ok"}
          PROVE  health'[tag'[u]] \notin Stale(u)'
      <3>1. CASE pc[r] = "health" /\ UpdateHealth(r)
        BY <1>2, <1>3, <1>5, <2>1, <3>1 DEF UpdateHealth
      <3>2. CASE pc[r] \in {"checkout", "ok"} /\ health' = health
        BY <1>1, <1>5, <2>1, <3>2
      <3> QED
        BY <1>5, <2>5, <3>1, <3>2, Advances
    <2>6. ASSUME pc'[u] = "ok"
          PROVE  u \in checkout'[tag'[u]]
      <3>1. CASE pc[r] = "checkout" /\ InsertCheckout(r)
        BY <1>2, <1>3, <1>5, <2>1, <3>1 DEF InsertCheckout
      <3>2. CASE pc[r] = "ok" /\ checkout' = checkout
        BY <1>1, <1>5, <2>1, <3>2
      <3> QED
        BY <1>5, <2>6, <3>1, <3>2, Advances
    <2> QED
      BY <2>3, <2>4, <2>5, <2>6
  <1> QED
    BY <1>4, <1>5

LEMMA StepCopies ==
    ASSUME IInv, AIInv, NEW r \in Requests, RequestStep(r)
    PROVE  CopiesStay'
  <1> SUFFICES ASSUME NEW b \in Bulks, NEW u \in Updates,
                      pc'[b] = "copied", Written(u)', tag'[u] = tag'[b],
                      u \in before'[b], copy'[b] \in Stale(u)'
               PROVE  Overlapped(u)'
    BY DEF CopiesStay
  <1>0. u # b /\ u \in Requests /\ b \in Requests
    BY KindAssumption DEF Requests
  <1>1. CASE r = b
    <2>1. BulkCopies(b)
      BY <1>1 DEF RequestStep, Arrives, TxStep, Begin, InsertIds, Lookup, Scan,
                  LookupSerial, WriteLocation, Commit, UpdateStep, UpdateHardware,
                  UpdateHealth, InsertCheckout, BulkStep, BulkWrites, BulkDone, Fail,
                  Goto, IInv, TypeOK
    <2>2. copy'[b] = location[tag'[b]].rest
      BY <1>0, <2>1 DEF BulkCopies, IInv, TypeOK, Goto
    <2>3. Written(u) /\ tag'[u] = tag[u] /\ Stale(u)' = Stale(u)
      BY <1>0, <1>1, Frame DEF Written, Stale
    <2>4. Overlapped(u)
      BY <2>2, <2>3 DEF AIInv, WrittenStays
    <2> QED
      BY <1>0, <1>1, <2>4, OverlappedStays DEF AIInv
  <1>2. CASE r = u
    <2>1. u \in before[b]
      BY <1>0, <1>2, Frame
    <2> QED
      BY <1>0, <1>2, <2>1, Frame DEF AIInv, EarlierEnded
  <1>3. CASE r # b /\ r # u
    <2>1. /\ pc[b] = "copied" /\ Written(u) /\ tag[u] = tag[b] /\ u \in before[b]
          /\ copy[b] \in Stale(u)
      BY <1>0, <1>3, Frame DEF Written, Stale
    <2>2. Overlapped(u)
      BY <2>1 DEF AIInv, CopiesStay
    <2> QED
      BY <1>0, <1>3, <2>2, OverlappedStays DEF AIInv
  <1> QED
    BY <1>1, <1>2, <1>3

\* An update answered with success is complete, and nothing that had ended
\* before it came undoes it, except through a bulk change that ran at the same
\* time (post.go:665-767).  For any requests, tags and pool size.
THEOREM AcknowledgedHolds == Spec => []AcknowledgedStays
  <1>1. Init => AIInv
    BY DEF Init, AIInv, EarlierEnded, WrittenStays, CopiesStay, Written, Requests
  <1>2. IInv /\ AIInv /\ [Next]_vars => AIInv'
    <2> SUFFICES ASSUME IInv, AIInv, [Next]_vars PROVE AIInv'
      OBVIOUS
    <2>1. ASSUME NEW r \in Requests, RequestStep(r) PROVE AIInv'
      BY <2>1, StepEarlier, StepWritten, StepCopies DEF AIInv
    <2>2. ASSUME NEW t \in Tags, InitClient(t) PROVE AIInv'
      BY <2>2 DEF InitClient, tables, AIInv, EarlierEnded, WrittenStays, CopiesStay,
                  Written, Stale, Overlapped, Ended
    <2>3. CASE UNCHANGED vars
      BY <2>3 DEF vars, tables, AIInv, EarlierEnded, WrittenStays, CopiesStay,
                  Written, Stale, Overlapped, Ended
    <2> QED
      BY <2>1, <2>2, <2>3 DEF Next, RequestStep
  <1>3. AIInv => AcknowledgedStays
    BY DEF AIInv, WrittenStays, AcknowledgedStays, Written, Stale
  <1> QED
    BY <1>1, <1>2, <1>3, Inductive, PTL DEF Spec

-----------------------------------------------------------------------------
\* Locks.  Who has inserted a client is past waiting for one, and who has locked a
\* row of locations has nothing left to wait for.

LocksInOrder ==
    /\ \A q \in inserted : pc[q] \in {"lookup", "scan", "write", "commit"}
    /\ \A t \in Tags : holder[t] # None => pc[holder[t]] = "commit"

\* What a step of r does to the locks: the others keep theirs, and r has any only
\* where LocksInOrder allows it.
LEMMA StepLocks ==
    ASSUME IInv, LocksInOrder, NEW r \in Requests, RequestStep(r)
    PROVE  LocksInOrder'
  <1> USE DEF Goto
  <1>1. /\ pc \in [Requests -> Steps] /\ holder \in [Tags -> Writer] /\ None \notin Requests
        /\ inserted \subseteq Requests /\ pc'[r] \in Steps
        /\ \A q \in Requests \ {r} : pc'[q] = pc[q]
    <2>1. TypeOK'
      <3>1. IInv'
        BY StepIInv DEF RequestStep, Next
      <3>2. QED
        BY <3>1 DEF IInv
    <2>2. QED
      BY <2>1, Frame, NoneAssumption DEF IInv, TypeOK, Requests
  <1>2. CASE Release(r)
    <2>1. \A q \in inserted' : q \in inserted /\ q # r
      BY <1>2 DEF Release
    <2>2. \A t \in Tags : holder'[t] # None => holder'[t] = holder[t] /\ holder[t] # r
      BY <1>2 DEF Release
    <2>3. QED
      BY <1>1, <2>1, <2>2 DEF LocksInOrder, Writer
  <1>3. CASE InsertIds(r)
    BY <1>1, <1>3 DEF InsertIds, LocksInOrder, Writer, IInv, TypeOK
  <1>4. CASE WriteLocation(r)
    BY <1>1, <1>4 DEF WriteLocation, LocksInOrder, Writer, IInv, TypeOK
  <1>5. CASE /\ UNCHANGED <<inserted, holder>>
             /\ r \in inserted => pc'[r] \in {"lookup", "scan", "write", "commit"}
             /\ pc[r] # "commit"
    BY <1>1, <1>5 DEF LocksInOrder, Writer
  <1>6. CASE Arrives(r) \/ UpdateStep(r) \/ BulkStep(r)
    <2>1. pc[r] \notin {"lookup", "scan", "write", "commit"} /\ UNCHANGED <<inserted, holder>>
      BY <1>6 DEF Arrives, UpdateStep, UpdateHardware, UpdateHealth, InsertCheckout,
                  BulkStep, BulkCopies, BulkWrites, BulkDone, tables
    <2>2. QED
      BY <1>5, <2>1 DEF LocksInOrder
  <1>7. CASE Begin(r) \/ Lookup(r) \/ Scan(r) \/ LookupSerial(r)
    <2>1. CASE Begin(r) \/ LookupSerial(r)
      BY <1>5, <2>1 DEF Begin, LookupSerial, LocksInOrder
    <2>2. CASE Lookup(r)
      BY <1>1, <1>5, <2>2 DEF Lookup, IInv, TypeOK
    <2>3. CASE Scan(r)
      <3>1. CASE tag[r] \in ids
        <4>1. pc'[r] \in {"write", "commit"} \/ r \in Lookups
          BY <1>1, <2>3, <3>1 DEF Scan
        <4>2. r \in inserted => r \notin Lookups
          BY KindAssumption DEF IInv, TypeOK
        <4>3. UNCHANGED <<inserted, holder>> /\ pc[r] = "scan"
          BY <2>3, <3>1 DEF Scan
        <4>4. QED
          BY <1>5, <4>1, <4>2, <4>3
      <3>2. CASE tag[r] \notin ids
        BY <1>2, <2>3, <3>2 DEF Scan
      <3>3. QED
        BY <3>1, <3>2
    <2>4. QED
      BY <1>7, <2>1, <2>2, <2>3
  <1>8. QED
    BY <1>2, <1>3, <1>4, <1>6, <1>7 DEF RequestStep, TxStep, Commit, Fail

\* Nobody waits for a request that waits for someone who waits: the first is
\* waiting for a client, the second for a row, and the holder of a row is done.
LEMMA LockOrder == IInv /\ Resolved /\ LocksInOrder => NoLockCycle
  <1> SUFFICES ASSUME IInv, Resolved, LocksInOrder,
                      NEW S \in SUBSET Requests, S # {},
                      ~\E r \in S : Blockers(r) \cap S = {}
               PROVE  FALSE
    BY DEF NoLockCycle
  <1>0. S # {} /\ S \subseteq Requests /\ \A r \in S : Blockers(r) \cap S # {}
    <2>1. \A r \in S : Blockers(r) \cap S # {}
      BY Zenon
    <2>2. QED
      BY <2>1
  <1>1. \A q \in S : pc[q] \notin {"lookup", "scan", "commit"}
    BY <1>0 DEF Blockers
  <1>2. ASSUME NEW q \in S, pc[q] \in {"write", "copied"} PROVE FALSE
    <2>1. PICK h \in S : h = holder[tag[q]] /\ h # None
      BY <1>0, <1>2 DEF Blockers
    <2>2. tag[q] \in Tags
      BY <1>0, <1>2 DEF IInv, TypeOK, Kinds, Resolved
    <2>3. pc[h] = "commit"
      BY <2>1, <2>2 DEF LocksInOrder
    <2>4. QED
      BY <1>1, <2>3
  <1>3. PICK r \in S : TRUE
    BY <1>0
  <1>4. pc[r] = "insert"
    BY <1>0, <1>2, <1>3 DEF Blockers
  <1>5. PICK q \in S : q \in inserted
    BY <1>0, <1>4 DEF Blockers
  <1>6. pc[q] \in {"lookup", "scan", "write", "commit"}
    BY <1>5 DEF LocksInOrder
  <1>7. QED
    BY <1>1, <1>2, <1>5, <1>6

\* No circle of requests that wait for each other's rows, for any number of
\* requests and clients (update-repo.go:414-560, 1984-2107).
THEOREM NoCircle == Spec => []NoLockCycle
  <1>1. Init => LocksInOrder
    BY DEF Init, LocksInOrder
  <1>2. IInv /\ LocksInOrder /\ [Next]_vars => LocksInOrder'
    <2> SUFFICES ASSUME IInv, LocksInOrder, [Next]_vars PROVE LocksInOrder'
      OBVIOUS
    <2>1. ASSUME NEW t \in Tags, InitClient(t) PROVE LocksInOrder'
      BY <2>1 DEF InitClient, LocksInOrder
    <2>2. CASE UNCHANGED vars
      BY <2>2 DEF vars, LocksInOrder
    <2>3. QED
      BY <2>1, <2>2, StepLocks DEF Next, RequestStep
  <1>3. QED
    BY <1>1, <1>2, Inductive, ClientsKnown, LockOrder, PTL DEF Spec
=============================================================================
