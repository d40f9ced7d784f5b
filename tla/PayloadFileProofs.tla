------------------------- MODULE PayloadFileProofs -------------------------
(***************************************************************************)
(* Proofs that the shared iterator stays inside the payload and hands the  *)
(* queries out in rotation, for every file and any number of threads.      *)
(***************************************************************************)
EXTENDS PayloadFile, TLAPS

\* Before the file is opened nothing has been handed out.
LEMMA PayloadInit == Init => PayloadInv
<1> SUFFICES ASSUME Init PROVE PayloadInv
  OBVIOUS
<1>1. TypeOK
  <2>1. isPcap \in BOOLEAN
    BY DEF Init
  <2> QED
    BY <2>1 DEF Init, TypeOK
<1>2. \A t \in Threads : CallInv(t)
  BY DEF Init, CallInv
<1>3. valid = Len(cache)
  BY DEF Init
<1> QED
  BY <1>1, <1>2, <1>3 DEF PayloadInv, Init

\* Loading appends to the cache, and publishes it only when it is not empty.
LEMMA LoadStep ==
    ASSUME PayloadInv,
           OpenEmpty \/ OpenFails \/ Open \/ LoadQuery \/ SkipEntry \/ LoadDone \/ LoadFails
    PROVE  PayloadInv'
<1> USE DEF PayloadInv, TypeOK, loadVars, getVars
<1>1. lpc \in {"open", "load"} /\ \A t \in Threads : tpc[t] = "out"
  BY DEF OpenEmpty, OpenFails, Open, LoadQuery, SkipEntry, LoadDone, LoadFails, CallInv
<1>2. UNCHANGED <<mutex, tpc, bap, got, takes>>
  BY DEF OpenEmpty, OpenFails, Open, LoadQuery, SkipEntry, LoadDone, LoadFails
<1>3. \A t \in Threads : CallInv(t)'
  BY <1>1, <1>2 DEF CallInv
<1>4. CASE OpenEmpty
  BY <1>1, <1>2, <1>3, <1>4 DEF OpenEmpty
<1>5. CASE OpenFails \/ Open
  <2>1. isPcap' \in BOOLEAN
    BY <1>5 DEF OpenFails, Open
  <2> QED
    BY <1>1, <1>2, <1>3, <1>5, <2>1 DEF OpenFails, Open
<1>6. CASE LoadQuery
  <2>1. cache' \in Seq(Nat) /\ Len(cache') = Len(cache) + 1
    BY <1>6 DEF LoadQuery
  <2> QED
    BY <1>1, <1>2, <1>3, <1>6, <2>1 DEF LoadQuery
<1>7. CASE SkipEntry
  BY <1>1, <1>2, <1>3, <1>7 DEF SkipEntry
<1>8. CASE LoadDone
  BY <1>1, <1>2, <1>3, <1>8 DEF LoadDone
<1>9. CASE LoadFails
  BY <1>1, <1>2, <1>3, <1>9 DEF LoadFails
<1> QED
  BY <1>4, <1>5, <1>6, <1>7, <1>8, <1>9

\* A call of getQuery moves the iterator by one query and back at the end.
LEMMA GetStep ==
    ASSUME PayloadInv, NEW t \in Threads, GetQuery(t)
    PROVE  PayloadInv'
<1> USE ThreadAssumption DEF PayloadInv, TypeOK, CallInv, loadVars, getVars
<1>1. CASE Lock(t)
  BY <1>1 DEF Lock
<1>2. CASE ReadIt(t)
  BY <1>2 DEF ReadIt
<1>3. CASE Advance(t)
  BY <1>3 DEF Advance
<1>4. CASE Wrap(t)
  BY <1>4 DEF Wrap
<1>5. CASE Unlock(t)
  BY <1>5 DEF Unlock
<1> QED
  BY <1>1, <1>2, <1>3, <1>4, <1>5 DEF GetQuery

\* The inductive invariant holds in every state.
THEOREM PayloadInvariant == Spec => []PayloadInv
<1>1. PayloadInv /\ [Next]_vars => PayloadInv'
  <2>1. ASSUME PayloadInv, UNCHANGED vars PROVE PayloadInv'
    BY <2>1 DEF PayloadInv, TypeOK, CallInv, vars, loadVars, getVars
  <2> QED
    BY <2>1, LoadStep, GetStep DEF Next, Ended
<1> QED
  BY <1>1, PayloadInit, PTL DEF Spec

\* No thread dereferences the end of the cache.
THEOREM IteratorIsValid == Spec => []IteratorValid
<1>1. PayloadInv => IteratorValid
  BY DEF PayloadInv, IteratorValid, CallInv
<1> QED
  BY <1>1, PayloadInvariant, PTL

\* The iterator and the query read decide what a thread is handed out next.
LEMMA RotationInit == Init => Rotation!Init
  BY DEF Init, Rotation!Init, AbsSize, AbsPos

\* Loading is invisible until the payload is there.
LEMMA RotationLoad ==
    ASSUME PayloadInv, PayloadInv',
           OpenEmpty \/ OpenFails \/ Open \/ LoadQuery \/ SkipEntry \/ LoadDone \/ LoadFails
    PROVE  [Rotation!Next]_(Rotation!vars)
<1> USE DEF PayloadInv, TypeOK, loadVars, getVars
<1>1. lpc \in {"open", "load"} /\ mutex = NoThread
  <2>1. lpc \in {"open", "load"}
    BY DEF OpenEmpty, OpenFails, Open, LoadQuery, SkipEntry, LoadDone, LoadFails
  <2> QED
    BY <2>1 DEF CallInv
<1>2. UNCHANGED <<mutex, got>> /\ it = 1 /\ it' = 1
  BY <1>1 DEF OpenEmpty, OpenFails, Open, LoadQuery, SkipEntry, LoadDone, LoadFails
<1>3. UNCHANGED <<AbsPos, got>> /\ AbsSize = 0
  BY <1>1, <1>2 DEF AbsPos, AbsSize
<1>4. CASE LoadDone
  BY <1>3, <1>4 DEF LoadDone, AbsSize, Rotation!Next, Rotation!Open
<1>5. CASE OpenEmpty \/ OpenFails \/ Open \/ LoadQuery \/ SkipEntry \/ LoadFails
  <2>1. AbsSize' = 0
    BY <1>1, <1>5 DEF OpenEmpty, OpenFails, Open, LoadQuery, SkipEntry, LoadFails, AbsSize
  <2> QED
    BY <1>3, <2>1 DEF Rotation!vars
<1> QED
  BY <1>4, <1>5

\* A call of getQuery takes effect when it gives up the mutex, and until then not at all.
LEMMA RotationGet ==
    ASSUME PayloadInv, NEW t \in Threads, GetQuery(t)
    PROVE  [Rotation!Next]_(Rotation!vars)
<1> USE ThreadAssumption DEF PayloadInv, TypeOK, loadVars, getVars
<1>1. lpc = "ready" /\ UNCHANGED <<lpc, cache>>
  BY DEF GetQuery, Lock, ReadIt, Advance, Wrap, Unlock, CallInv
<1>2. UNCHANGED AbsSize /\ AbsSize = Len(cache) /\ AbsSize > 0
  BY <1>1 DEF AbsSize
<1>3. CASE Lock(t)
  BY <1>2, <1>3 DEF Lock, AbsPos, Rotation!vars
<1>4. CASE ReadIt(t) \/ Advance(t) \/ Wrap(t)
  <2>1. mutex = t /\ mutex' = t /\ got' = got
    BY <1>4 DEF ReadIt, Advance, Wrap, CallInv
  <2>2. AbsPos' = AbsPos
    BY <1>4, <2>1 DEF ReadIt, Advance, Wrap, AbsPos
  <2> QED
    BY <1>2, <2>1, <2>2 DEF Rotation!vars
<1>5. CASE Unlock(t)
  <2>1. mutex = t /\ tpc[t] = "unlock" /\ mutex' = NoThread /\ it' = it
    BY <1>5 DEF Unlock, CallInv
  <2>2. AbsPos = bap[t] /\ AbsPos' = it
    BY <2>1 DEF AbsPos
  <2>3. it = IF bap[t] = Len(cache) THEN 1 ELSE bap[t] + 1
    BY <2>1 DEF CallInv
  <2>4. got' = [got EXCEPT ![t] = bap[t]]
    BY <1>5 DEF Unlock
  <2>5. Rotation!Take(t)
    BY <1>2, <2>2, <2>3, <2>4 DEF Rotation!Take
  <2> QED
    BY <2>5 DEF Rotation!Next
<1> QED
  BY <1>3, <1>4, <1>5 DEF GetQuery

\* getQuery implements the rotation, for every file and any number of threads that
\* call it at the same time.
THEOREM PayloadImplementsRoundRobin == Spec => ImplementsRoundRobin
<1>1. PayloadInv /\ PayloadInv' /\ [Next]_vars => [Rotation!Next]_(Rotation!vars)
  <2>1. ASSUME UNCHANGED vars PROVE UNCHANGED Rotation!vars
    BY <2>1 DEF vars, loadVars, getVars, Rotation!vars, AbsSize, AbsPos
  <2> QED
    BY <2>1, RotationLoad, RotationGet DEF Next, Ended
<1> QED
  BY <1>1, RotationInit, PayloadInvariant, PTL DEF Spec, ImplementsRoundRobin, Rotation!Spec

\* Reading and wrapping keep the counts of the queries within one of each other.
LEMMA ServedStep == PayloadInv /\ ServedInv /\ [Next]_vars => ServedInv'
<1> SUFFICES ASSUME PayloadInv, ServedInv, [Next]_vars PROVE ServedInv'
  OBVIOUS
<1> USE ThreadAssumption DEF PayloadInv, TypeOK, loadVars, getVars
<1>1. CASE OpenEmpty \/ OpenFails \/ Open \/ LoadQuery \/ SkipEntry \/ LoadFails
  BY <1>1 DEF OpenEmpty, OpenFails, Open, LoadQuery, SkipEntry, LoadFails, ServedInv
<1>2. CASE LoadDone
  <2>1. served' = [q \in 1 .. Len(cache') |-> 0] /\ lpc' = "ready" /\ it' = 1
    BY <1>2 DEF LoadDone
  <2>2. mutex = NoThread /\ mutex' = mutex
    BY <1>2 DEF LoadDone, CallInv
  <2>3. Turn' = 1
    BY <2>1, <2>2 DEF Turn
  <2>4. \A q \in 1 .. Len(cache') : served'[q] = IF q < Turn' THEN 0 + 1 ELSE 0
    BY <2>1, <2>3
  <2> QED
    BY <2>1, <2>4 DEF ServedInv
<1>3. ASSUME NEW t \in Threads, GetQuery(t) PROVE ServedInv'
  <2>1. lpc = "ready" /\ UNCHANGED <<lpc, cache>> /\ Len(cache) \in Nat
    BY <1>3 DEF GetQuery, Lock, ReadIt, Advance, Wrap, Unlock, CallInv
  <2>2. served \in [1 .. Len(cache) -> Nat]
    BY <2>1 DEF ServedInv
  <2>3. PICK n \in Nat : \A q \in 1 .. Len(cache) : served[q] = IF q < Turn THEN n + 1 ELSE n
    BY <2>1 DEF ServedInv
  <2>4. CASE Lock(t) \/ Advance(t) \/ Unlock(t)
    <3>1. Turn' = Turn /\ served' = served
      BY <2>4 DEF Lock, Advance, Unlock, Turn, CallInv
    <3> QED
      BY <2>1, <2>2, <2>3, <3>1 DEF ServedInv
  <2>5. CASE ReadIt(t)
    <3>1. mutex = t /\ mutex' = t /\ Turn = it /\ Turn' = it + 1 /\ it \in 1 .. Len(cache)
      BY <2>5 DEF ReadIt, Turn, CallInv
    <3>2. served' = [served EXCEPT ![it] = @ + 1]
      BY <2>5 DEF ReadIt
    <3>3. served' \in [1 .. Len(cache) -> Nat]
      <4>1. served[it] + 1 \in Nat
        <5>1. served[it] \in Nat
          BY <2>2, <3>1, Zenon
        <5> QED
          BY <5>1
      <4> QED
        BY <2>2, <3>1, <3>2, <4>1, Zenon
    <3>4. \A q \in 1 .. Len(cache) : served'[q] = IF q < Turn' THEN n + 1 ELSE n
      BY <2>1, <2>2, <2>3, <3>1, <3>2
    <3> QED
      BY <2>1, <3>3, <3>4 DEF ServedInv
  <2>6. CASE Wrap(t)
    <3>1. mutex = t /\ mutex' = t /\ Turn = it /\ Turn' = it' /\ served' = served
      BY <2>6 DEF Wrap, Turn, CallInv
    <3>2. CASE it = Len(cache) + 1
      <4>1. Turn' = 1
        BY <2>6, <3>1, <3>2 DEF Wrap
      <4>2. \A q \in 1 .. Len(cache) : served[q] = IF q < Turn' THEN (n + 1) + 1 ELSE n + 1
        BY <2>1, <2>3, <3>1, <3>2, <4>1
      <4>3. PICK m \in Nat : \A q \in 1 .. Len(cache) :
                served[q] = IF q < Turn' THEN m + 1 ELSE m
        <5>1. n + 1 \in Nat
          OBVIOUS
        <5> QED
          BY <4>2, <5>1, Zenon
      <4>4. lpc' = "ready" /\ cache' = cache /\ served' = served
        BY <2>1, <3>1
      <4> QED
        BY <2>2, <4>3, <4>4, Zenon DEF ServedInv
    <3>3. CASE it # Len(cache) + 1
      <4>1. Turn' = Turn
        BY <2>6, <3>1, <3>3 DEF Wrap
      <4>2. lpc' = "ready" /\ cache' = cache /\ served' = served
        BY <2>1, <3>1
      <4> QED
        BY <2>2, <2>3, <4>1, <4>2, Zenon DEF ServedInv
    <3> QED
      BY <3>2, <3>3
  <2> QED
    BY <1>3, <2>4, <2>5, <2>6 DEF GetQuery
<1>4. CASE UNCHANGED vars
  BY <1>4 DEF vars, ServedInv, Turn
<1> QED
  BY <1>1, <1>2, <1>3, <1>4 DEF Next, Ended

\* Every query of the file is sent as often as any other, up to one, whatever the number
\* of threads that share the iterator.
THEOREM QueriesEvenlyServed == Spec => []EvenlyServed
<1>1. Init => ServedInv
  BY DEF Init, ServedInv
<1>2. ServedInv => EvenlyServed
  <2> SUFFICES ASSUME ServedInv, NEW p \in DOMAIN served, NEW q \in DOMAIN served
               PROVE  served[p] <= served[q] + 1
    BY DEF EvenlyServed
  <2>1. CASE lpc = "ready"
    BY <2>1 DEF ServedInv
  <2>2. CASE lpc # "ready"
    BY <2>2 DEF ServedInv
  <2> QED
    BY <2>1, <2>2
<1> QED
  BY <1>1, <1>2, ServedStep, PayloadInvariant, PTL DEF Spec

-----------------------------------------------------------------------------

\* A file is a list of lines or of packets.
LEMMA FileShape ==
    ASSUME file \in Files
    PROVE  /\ Len(file.entries) \in Nat
           /\ file.format = "pcap" => \A n \in 1 .. Len(file.entries) : file.entries[n] \in Packets
<1>1. PICK m \in 0 .. MaxEntries :
          file.entries \in [1 .. m -> Lines] \/ file.entries \in [1 .. m -> Packets]
  BY DEF Files
<1>2. m \in Nat /\ Len(file.entries) = m
  BY <1>1, EntriesAssumption
<1>3. ASSUME file.format = "pcap", NEW n \in 1 .. Len(file.entries)
      PROVE  file.entries[n] \in Packets
  <2>1. PICK k \in 0 .. MaxEntries : file.entries \in [1 .. k -> Packets]
    BY <1>3 DEF Files
  <2>2. k \in Nat /\ Len(file.entries) = k
    BY <2>1, EntriesAssumption
  <2> QED
    BY <1>3, <2>1, <2>2
<1> QED
  BY <1>2, <1>3

\* The tests of the loaders let every query pass, and nothing they test for fails them.
LEMMA FilterIsRight ==
    ASSUME file \in Files, NEW n \in 1 .. Len(file.entries)
    PROVE  (Meant(n) => Kept(n)) /\ (Kept(n) => Meant(n) \/ Tolerated(n))
<1>1. CASE file.format = "pcap"
  <2>1. file.entries[n].caplen \in Nat /\ MaxPacket \in Nat
    <3>1. file.entries[n] \in PacketRecord
      BY <1>1, FileShape, FormatAssumption
    <3>2. ASSUME NEW p \in PacketRecord PROVE p.caplen \in Nat
      BY DEF PacketRecord
    <3> QED
      BY <3>1, <3>2, FormatAssumption
  <2> QED
    BY <1>1, <2>1 DEF Kept, Meant, Tolerated, Passes, IsUdpQuery, Unchecked
<1>2. CASE file.format # "pcap"
  BY <1>2 DEF Kept, Meant
<1> QED
  BY <1>1, <1>2

\* Loading keeps what it has found so far, filtered and in order.
LEMMA CacheStep == PayloadInv /\ CacheInv /\ [Next]_vars => CacheInv'
<1> SUFFICES ASSUME PayloadInv, CacheInv, [Next]_vars PROVE CacheInv'
  OBVIOUS
<1>1. cache \in Seq(Nat) /\ line \in Nat /\ Len(file.entries) \in Nat
  BY FileShape DEF PayloadInv, TypeOK, CacheInv
<1>2. \A n : file' = file => Kept(n)' = Kept(n)
  BY DEF Kept
<1>3. CASE UNCHANGED <<file, line, cache>> /\ (lpc' = "open" => lpc = "open")
             /\ (lpc' = "ready" => lpc = "ready" \/ line = Len(file.entries))
  BY <1>2, <1>3 DEF CacheInv
<1>4. CASE OpenEmpty \/ OpenFails \/ Open \/ LoadDone \/ LoadFails \/ UNCHANGED vars
  BY <1>3, <1>4 DEF OpenEmpty, OpenFails, Open, LoadDone, LoadFails, CacheInv, vars, loadVars
<1>5. CASE LoadQuery
  <2>1. /\ line < Len(file.entries) /\ Kept(line + 1) /\ lpc = "load"
        /\ line' = line + 1 /\ cache' = Append(cache, line + 1) /\ UNCHANGED <<file, lpc>>
    BY <1>5 DEF LoadQuery
  <2>2. /\ Len(cache') = Len(cache) + 1 /\ Len(cache) \in Nat /\ cache'[Len(cache) + 1] = line + 1
        /\ \A q \in 1 .. Len(cache) : cache'[q] = cache[q]
    BY <1>1, <2>1
  <2>3. ASSUME NEW q \in 1 .. Len(cache')
        PROVE  /\ cache'[q] \in 1 .. line' /\ Kept(cache[q])'
               /\ q > 1 => cache'[q - 1] < cache'[q]
    <3>1. CASE q \in 1 .. Len(cache)
      <4>1. cache[q] \in 1 .. line /\ Kept(cache[q]) /\ (q > 1 => cache[q - 1] < cache[q])
        BY <3>1 DEF CacheInv
      <4>2. q > 1 => q - 1 \in 1 .. Len(cache)
        BY <2>2, <3>1
      <4>3. Kept(cache[q])'
        BY <2>1, <2>2, <3>1, <4>1 DEF Kept
      <4> QED
        BY <1>1, <2>1, <2>2, <3>1, <4>1, <4>2, <4>3
    <3>2. CASE q = Len(cache) + 1
      <4>1. cache'[q] = line + 1 /\ cache'[q] \in 1 .. line'
        BY <1>1, <2>1, <2>2, <3>2
      <4>2. Kept(cache[q])'
        BY <2>1, <4>1 DEF Kept
      <4>3. ASSUME q > 1 PROVE cache'[q - 1] < line + 1
        <5>1. q - 1 = Len(cache) /\ Len(cache) \in 1 .. Len(cache)
          BY <2>2, <3>2, <4>3
        <5>2. cache[Len(cache)] \in 1 .. line
          BY <5>1 DEF CacheInv
        <5> QED
          BY <1>1, <2>2, <5>1, <5>2
      <4> QED
        BY <4>1, <4>2, <4>3
    <3> QED
      BY <2>2, <2>3, <3>1, <3>2
  <2>4. ASSUME NEW n \in 1 .. line', Kept(n)'
        PROVE  \E q \in 1 .. Len(cache') : cache'[q] = n
    <3>1. CASE n = line + 1
      <4>1. Len(cache) + 1 \in 1 .. Len(cache')
        BY <2>2
      <4> QED
        BY <2>2, <3>1, <4>1
    <3>2. CASE n \in 1 .. line
      <4>1. PICK q \in 1 .. Len(cache) : cache[q] = n
        BY <1>2, <2>1, <2>4, <3>2 DEF CacheInv
      <4>2. q \in 1 .. Len(cache')
        BY <2>2
      <4> QED
        BY <2>2, <4>1, <4>2
    <3> QED
      BY <1>1, <2>1, <2>4, <3>1, <3>2
  <2>5. file' \in Files /\ line' \in 0 .. Len(file'.entries)
    BY <1>1, <2>1 DEF CacheInv
  <2> QED
    BY <2>1, <2>3, <2>4, <2>5 DEF CacheInv
<1>6. CASE SkipEntry
  <2>1. /\ line < Len(file.entries) /\ ~Kept(line + 1) /\ lpc = "load"
        /\ line' = line + 1 /\ UNCHANGED <<file, cache, lpc>>
    BY <1>6 DEF SkipEntry
  <2>2. file' \in Files /\ line' \in 0 .. Len(file'.entries)
    BY <1>1, <2>1 DEF CacheInv
  <2>3. \A q \in 1 .. Len(cache) : cache[q] \in 1 .. line'
    BY <1>1, <2>1 DEF CacheInv
  <2>4. \A n \in 1 .. line' : Kept(n) => n \in 1 .. line
    BY <1>1, <2>1
  <2> QED
    BY <1>2, <2>1, <2>2, <2>3, <2>4 DEF CacheInv
<1>7. CASE \E t \in Threads : GetQuery(t)
  BY <1>3, <1>7 DEF GetQuery, Lock, ReadIt, Advance, Wrap, Unlock, loadVars
<1> QED
  BY <1>4, <1>5, <1>6, <1>7 DEF Next, Ended

\* Whatever the file holds, the threads send its queries, all of them, once per round and
\* in its order, and of the rest only what the loaders have no test for.
THEOREM CacheFiltered == Spec => []CacheIsFiltered
<1>1. Init => CacheInv
  <2> SUFFICES ASSUME Init PROVE CacheInv
    OBVIOUS
  <2>1. file \in Files /\ Len(file.entries) \in Nat
    BY FileShape DEF Init
  <2>2. line = 0 /\ Len(cache) = 0 /\ lpc = "open"
    BY DEF Init
  <2>3. line \in 0 .. Len(file.entries)
    BY <2>1, <2>2
  <2>4. 1 .. Len(cache) = {} /\ 1 .. line = {}
    BY <2>2
  <2> QED
    BY <2>1, <2>2, <2>3, <2>4, Zenon DEF CacheInv
<1>2. CacheInv => CacheIsFiltered
  <2> SUFFICES ASSUME CacheInv, lpc = "ready"
               PROVE  CacheIsFiltered
    BY DEF CacheIsFiltered
  <2>1. line = Len(file.entries)
    BY DEF CacheInv
  <2> QED
    BY <2>1, FilterIsRight DEF CacheInv, CacheIsFiltered
<1> QED
  BY <1>1, <1>2, CacheStep, PayloadInvariant, PTL DEF Spec
=============================================================================
