-------------------------- MODULE TokenIngest_proofs --------------------------
(***************************************************************************)
(* Theorems about TokenIngest for every value of its constants. The row    *)
(* that a token will have (Outlook) is compared with the row it would have *)
(* had without a writer between (serial): a step that sends adds the same  *)
(* update to both, and a step of the writer leaves the first as it was,    *)
(* for an update that joins another in the map does to the row what the    *)
(* two do, unless they disagree about the initial pool; and they do not,   *)
(* for only one task can send it.                                          *)
(***************************************************************************)
EXTENDS TokenIngest, Induction, SequenceTheorems

-----------------------------------------------------------------------------
(* Rows and updates *)

Updates == [token : Tokens, values : Fields]

\* Rows and updates are of the same kind, and stay so.
LEMMA FieldsType ==
    ASSUME NEW row \in Fields, NEW new \in Fields
    PROVE  apply(row, new) \in Fields /\ merge(row, new) \in Fields
BY DEF Fields, apply, merge, Or

\* So is nothing at all.
LEMMA BlankType == Blank \in Fields
BY DEF Blank, Fields

\* An update of nothing changes nothing.
LEMMA ApplyBlank ==
    ASSUME NEW row \in Fields
    PROVE  apply(row, Blank) = row
BY DEF Fields, apply, Or, Blank

\* What AsIfSerial compares of two rows.
Alike(a, b) == a.price = b.price /\ a.init = b.init /\ a.txs = b.txs

\* An update makes rows that are alike no different.
LEMMA ApplyAlike ==
    ASSUME NEW a \in Fields, NEW b \in Fields, NEW new \in Fields, Alike(a, b)
    PROVE  Alike(apply(a, new), apply(b, new))
BY DEF Fields, apply, Or, Alike

\* Two updates reach a row as well merged as one after the other, provided they
\* do not disagree about the initial pool.
LEMMA MergeIsApply ==
    ASSUME NEW row \in Fields, NEW old \in Fields, NEW new \in Fields,
           old.init = 0 \/ new.init = 0 \/ old.init = new.init
    PROVE  Alike(apply(row, merge(old, new)), apply(apply(row, old), new))
BY DEF Fields, apply, merge, Or, Alike

-----------------------------------------------------------------------------
(* After is what it says *)

\* The rows that a sequence of updates leads through.
Through(t, base, updates, f) ==
    /\ f \in [0..Len(updates) -> Fields]
    /\ f[0] = base
    /\ \A n \in 1..Len(updates) :
          f[n] = IF updates[n].token # t THEN f[n - 1] ELSE apply(f[n - 1], updates[n].values)

UpdateStep(t, updates) ==
    [n \in 1..Len(updates) |->
        [row \in Fields |->
            IF updates[n].token # t THEN row ELSE apply(row, updates[n].values)]]

\* What stands at a place of a sequence of updates.
LEMMA UpdateAt ==
    ASSUME NEW updates \in Seq(Updates), NEW n \in 1..Len(updates)
    PROVE  updates[n] \in Updates /\ updates[n].token \in Tokens /\ updates[n].values \in Fields
<1>1. updates[n] \in Updates
  BY ElementOfSeq
<1> QED
  BY <1>1 DEF Updates

\* The rows that updates lead through are made step by step,
LEMMA ThroughIterates ==
    ASSUME NEW t, NEW base \in Fields, NEW updates \in Seq(Updates), NEW f
    PROVE  Through(t, base, updates, f)
              <=> Iterates(f, base, UpdateStep(t, updates), Len(updates), Fields)
<1> DEFINE n == Len(updates)
           step == UpdateStep(t, updates)
<1>1. ASSUME f \in [0..n -> Fields], NEW k \in 1..n
      PROVE  step[k][f[k - 1]]
                = IF updates[k].token # t THEN f[k - 1] ELSE apply(f[k - 1], updates[k].values)
  <2>1. n \in Nat /\ k - 1 \in 0..n
    OBVIOUS
  <2>2. f[k - 1] \in Fields
    BY <1>1, <2>1
  <2> QED
    BY <2>2 DEF UpdateStep
<1> QED
  BY <1>1 DEF Through, Iterates

\* so that there are such rows,
LEMMA ThroughExists ==
    ASSUME NEW t, NEW base \in Fields, NEW updates \in Seq(Updates)
    PROVE  \E f : Through(t, base, updates, f)
<1> DEFINE n == Len(updates)
           step == UpdateStep(t, updates)
<1>1. n \in Nat
  OBVIOUS
<1>2. step \in [1..n -> [Fields -> Fields]]
  BY UpdateAt, FieldsType DEF UpdateStep
<1> HIDE DEF n, step
<1>3. \E f : Iterates(f, base, step, n, Fields)
  BY <1>1, <1>2, IteratesExists
<1> QED
  BY <1>3, ThroughIterates DEF n, step

\* and no others.
LEMMA ThroughUnique ==
    ASSUME NEW t, NEW base \in Fields, NEW updates \in Seq(Updates), NEW f, NEW g,
           Through(t, base, updates, f), Through(t, base, updates, g)
    PROVE  f = g
<1> DEFINE n == Len(updates)
           step == UpdateStep(t, updates)
<1>1. n \in Nat /\ Iterates(f, base, step, n, Fields) /\ Iterates(g, base, step, n, Fields)
  BY ThroughIterates
<1> HIDE DEF n, step
<1> QED
  BY <1>1, IteratesUnique

\* After is the last of them: the recursive function it is defined by exists.
LEMMA AfterIs ==
    ASSUME NEW t, NEW base \in Fields, NEW updates \in Seq(Updates), NEW f,
           Through(t, base, updates, f)
    PROVE  After(t, base, updates) = f[Len(updates)]
<1> DEFINE Is(g) ==
               g = [n \in 0..Len(updates) |->
                       IF n = 0 THEN base
                       ELSE IF updates[n].token # t THEN g[n - 1]
                       ELSE apply(g[n - 1], updates[n].values)]
<1>1. Is(f)
  BY DEF Through
<1>2. ASSUME NEW g, Is(g)
      PROVE  Through(t, base, updates, g)
  <2> DEFINE L == Len(updates)
             T == {n \in 0..L : g[n] \in Fields}
  <2>1. L \in Nat /\ 0 \in T
    BY <1>2
  <2>2. ASSUME NEW n \in 0 .. L - 1, n \in T
        PROVE  n + 1 \in T
    <3>1. n + 1 \in 1..L /\ n + 1 \in 0..L /\ (n + 1) - 1 = n /\ n + 1 # 0
      BY <2>1
    <3>2. g[n + 1] = IF updates[n + 1].token # t THEN g[n]
                     ELSE apply(g[n], updates[n + 1].values)
      BY <1>2, <3>1
    <3>3. updates[n + 1].values \in Fields /\ g[n] \in Fields
      BY <2>2, <3>1, UpdateAt
    <3>4. g[n + 1] \in Fields
      BY <3>2, <3>3, FieldsType
    <3> QED
      BY <3>1, <3>4
  <2>3. 0..L \subseteq T
    <3> HIDE DEF T, L
    <3> QED
      BY <2>1, <2>2, AllUpTo
  <2>4. \A n \in 0..L : g[n] \in Fields
    BY <2>3
  <2>5. \A n \in 1..L : n \in 0..L /\ n # 0
    OBVIOUS
  <2>6. g \in [0..L -> Fields]
    BY <1>2, <2>4
  <2> QED
    BY <1>2, <2>1, <2>5, <2>6 DEF Through
<1> DEFINE h == CHOOSE g : Is(g)
<1>3. Is(h)
  BY <1>1
<1>4. h = f
  <2>1. Through(t, base, updates, h)
    BY <1>2, <1>3
  <2> HIDE DEF h
  <2> QED
    BY <2>1, ThroughUnique
<1>5. After(t, base, updates) = h[Len(updates)]
  BY DEF After
<1> QED
  BY <1>4, <1>5

\* A row stays a row.
LEMMA AfterType ==
    ASSUME NEW t, NEW base \in Fields, NEW updates \in Seq(Updates)
    PROVE  After(t, base, updates) \in Fields
<1>1. PICK f : Through(t, base, updates, f)
  BY ThroughExists
<1>2. After(t, base, updates) = f[Len(updates)]
  BY <1>1, AfterIs
<1> QED
  BY <1>1, <1>2 DEF Through

\* The updates of other tokens leave a row alone.
LEMMA AfterNone ==
    ASSUME NEW t, NEW base \in Fields, NEW updates \in Seq(Updates),
           \A n \in 1..Len(updates) : updates[n].token # t
    PROVE  After(t, base, updates) = base
<1> DEFINE f == [n \in 0..Len(updates) |-> base]
<1>1. \A n \in 1..Len(updates) : n \in 0..Len(updates) /\ n - 1 \in 0..Len(updates)
  OBVIOUS
<1>2. Through(t, base, updates, f)
  BY <1>1 DEF Through
<1>3. After(t, base, updates) = f[Len(updates)]
  <2> HIDE DEF f
  <2> QED
    BY <1>2, AfterIs
<1> QED
  BY <1>3

\* The last update reaches the row last,
LEMMA AfterAppend ==
    ASSUME NEW t, NEW base \in Fields, NEW updates \in Seq(Updates), NEW u \in Updates
    PROVE  After(t, base, Append(updates, u))
              = IF u.token # t THEN After(t, base, updates)
                ELSE apply(After(t, base, updates), u.values)
<1> DEFINE L == Len(updates)
           more == Append(updates, u)
           last == IF u.token # t THEN After(t, base, updates)
                   ELSE apply(After(t, base, updates), u.values)
<1>1. PICK f : Through(t, base, updates, f)
  BY ThroughExists
<1>2. After(t, base, updates) = f[L]
  BY <1>1, AfterIs
<1>3. /\ L \in Nat /\ more \in Seq(Updates) /\ Len(more) = L + 1
      /\ \A n \in 1..L : more[n] = updates[n]
      /\ more[L + 1] = u
  BY AppendProperties
<1>4. last \in Fields
  BY AfterType, FieldsType DEF Updates
<1> DEFINE g == [n \in 0..(L + 1) |-> IF n <= L THEN f[n] ELSE last]
<1> HIDE DEF L, more, last
<1>5. Through(t, base, more, g)
  <2>1. /\ f \in [0..L -> Fields] /\ f[0] = base
        /\ \A n \in 1..L :
              f[n] = IF updates[n].token # t THEN f[n - 1] ELSE apply(f[n - 1], updates[n].values)
    BY <1>1 DEF Through, L
  <2>2. g \in [0..(L + 1) -> Fields] /\ g[0] = base
    <3>1. \A n \in 0..(L + 1) : n <= L => n \in 0..L
      BY <1>3
    <3> QED
      BY <1>3, <1>4, <2>1, <3>1
  <2>3. ASSUME NEW n \in 1..(L + 1)
        PROVE  g[n] = IF more[n].token # t THEN g[n - 1] ELSE apply(g[n - 1], more[n].values)
    <3>1. n \in 0..(L + 1) /\ n - 1 \in 0..(L + 1) /\ n - 1 <= L
      BY <1>3
    <3>2. g[n - 1] = f[n - 1]
      BY <3>1
    <3>3. CASE n <= L
      <4>1. n \in 1..L /\ g[n] = f[n]
        BY <1>3, <3>1, <3>3
      <4> QED
        BY <1>3, <2>1, <3>2, <4>1
    <3>4. CASE n = L + 1
      <4>1. g[n] = last /\ g[n - 1] = f[L] /\ more[n] = u
        BY <1>3, <3>1, <3>2, <3>4
      <4> QED
        BY <1>2, <4>1 DEF last
    <3> QED
      BY <1>3, <3>3, <3>4
  <2> QED
    BY <1>3, <2>2, <2>3 DEF Through
<1>6. After(t, base, more) = g[Len(more)]
  <2> HIDE DEF g
  <2> QED
    BY <1>3, <1>5, AfterIs
<1> QED
  BY <1>3, <1>6 DEF last, more

\* and the first one first.
LEMMA AfterTail ==
    ASSUME NEW t, NEW base \in Fields, NEW updates \in Seq(Updates), updates # <<>>
    PROVE  After(t, base, updates)
              = After(t, IF Head(updates).token # t THEN base
                         ELSE apply(base, Head(updates).values), Tail(updates))
<1> DEFINE L == Len(updates)
           rest == Tail(updates)
           first == IF Head(updates).token # t THEN base ELSE apply(base, Head(updates).values)
<1>1. PICK f : Through(t, base, updates, f)
  BY ThroughExists
<1>2. After(t, base, updates) = f[L]
  BY <1>1, AfterIs
<1>3. /\ L \in Nat \ {0} /\ rest \in Seq(Updates) /\ Len(rest) = L - 1
      /\ \A n \in 1..(L - 1) : rest[n] = updates[n + 1]
      /\ Head(updates) = updates[1] /\ Head(updates) \in Updates
  BY HeadTailProperties
<1>4. first \in Fields
  BY <1>3, FieldsType DEF Updates
<1> DEFINE g == [n \in 0..(L - 1) |-> f[n + 1]]
<1>5. Through(t, first, rest, g)
  <2> HIDE DEF L, rest, first
  <2>1. /\ f \in [0..L -> Fields] /\ f[0] = base
        /\ \A n \in 1..L :
              f[n] = IF updates[n].token # t THEN f[n - 1] ELSE apply(f[n - 1], updates[n].values)
    BY <1>1 DEF Through, L
  <2>2. \A n \in 0..(L - 1) : n + 1 \in 0..L /\ n + 1 \in 1..L
    BY <1>3
  <2>3. g \in [0..(L - 1) -> Fields]
    BY <2>1, <2>2
  <2>4. g[0] = first
    <3>1. 1 \in 1..L /\ 0 \in 0..(L - 1)
      BY <1>3
    <3>2. f[1] = IF updates[1].token # t THEN f[1 - 1] ELSE apply(f[1 - 1], updates[1].values)
      BY <2>1, <3>1
    <3> QED
      BY <1>3, <2>1, <3>1, <3>2 DEF first
  <2>5. ASSUME NEW n \in 1..(L - 1)
        PROVE  g[n] = IF rest[n].token # t THEN g[n - 1] ELSE apply(g[n - 1], rest[n].values)
    <3>1. n \in 0..(L - 1) /\ n - 1 \in 0..(L - 1) /\ n + 1 \in 1..L
          /\ (n + 1) - 1 = n /\ (n - 1) + 1 = n
      BY <1>3
    <3>2. g[n] = f[n + 1] /\ g[n - 1] = f[n] /\ rest[n] = updates[n + 1]
      BY <1>3, <3>1
    <3> QED
      BY <2>1, <3>1, <3>2
  <2> QED
    BY <1>3, <2>3, <2>4, <2>5 DEF Through
<1> HIDE DEF L, rest, first
<1>6. After(t, first, rest) = g[Len(rest)]
  <2> HIDE DEF g
  <2> QED
    BY <1>3, <1>4, <1>5, AfterIs
<1>7. g[Len(rest)] = f[L]
  BY <1>3
<1> QED
  BY <1>2, <1>6, <1>7 DEF first, rest

\* Rows that are alike stay alike.
LEMMA AfterAlike ==
    ASSUME NEW t, NEW a \in Fields, NEW b \in Fields, NEW updates \in Seq(Updates), Alike(a, b)
    PROVE  Alike(After(t, a, updates), After(t, b, updates))
<1> DEFINE L == Len(updates)
<1>1. PICK f : Through(t, a, updates, f)
  BY ThroughExists
<1>2. PICK g : Through(t, b, updates, g)
  BY ThroughExists
<1>3. After(t, a, updates) = f[L] /\ After(t, b, updates) = g[L]
  BY <1>1, <1>2, AfterIs
<1> DEFINE T == {n \in 0..L : Alike(f[n], g[n])}
<1>4. L \in Nat /\ 0 \in T
  BY <1>1, <1>2 DEF Through
<1>5. ASSUME NEW n \in 0 .. L - 1, n \in T
      PROVE  n + 1 \in T
  <2>1. n + 1 \in 1..L /\ n + 1 \in 0..L /\ n \in 0..L /\ (n + 1) - 1 = n
    BY <1>4
  <2>2. f[n] \in Fields /\ g[n] \in Fields /\ updates[n + 1].values \in Fields
    BY <1>1, <1>2, <2>1, UpdateAt DEF Through
  <2>3. /\ f[n + 1] = IF updates[n + 1].token # t THEN f[n]
                      ELSE apply(f[n], updates[n + 1].values)
        /\ g[n + 1] = IF updates[n + 1].token # t THEN g[n]
                      ELSE apply(g[n], updates[n + 1].values)
    BY <1>1, <1>2, <2>1 DEF Through
  <2>4. Alike(f[n], g[n])
    BY <1>5
  <2>5. Alike(apply(f[n], updates[n + 1].values), apply(g[n], updates[n + 1].values))
    BY <2>2, <2>4, ApplyAlike
  <2>6. Alike(f[n + 1], g[n + 1])
    BY <2>3, <2>4, <2>5
  <2> QED
    BY <2>1, <2>6
<1>6. 0..L \subseteq T
  <2> HIDE DEF T, L
  <2> QED
    BY <1>4, <1>5, AllUpTo
<1>7. Alike(f[L], g[L])
  BY <1>4, <1>6
<1> QED
  BY <1>3, <1>7

-----------------------------------------------------------------------------
(* Types *)

Places == {"idle", "select", "count", "throttle", "first", "enrich", "send", "order", "done"}

\* Every event is about a token.
LEMMA AboutType == \A e \in Events : About[e] \in Tokens
BY IngestAssumption

\* Before anything has happened.
LEMMA TypeInit == Init => TypeOK
<1> SUFFICES ASSUME Init PROVE TypeOK
  OBVIOUS
<1>1. WriterTypeOK
  BY BlankType, WriterAssumption DEF Init, WriterInit, WriterTypeOK
<1>2. /\ look \in [Events -> 0..MaxLooks] /\ chain \in [Tokens -> 1..MaxLooks]
      /\ newest \in [Tokens -> 0..MaxLooks]
  BY IngestAssumption DEF Init
<1> QED
  BY <1>1, <1>2 DEF Init, TypeOK

\* What is sent is of the right kind, and finds room.
LEMMA SendType ==
    ASSUME WriterTypeOK, NEW t \in Tokens, NEW values \in Fields, send(t, values)
    PROVE  /\ channel' \in Seq(Updates) /\ Len(channel') <= Channel
           /\ Len(channel') = Len(channel) + 1
           /\ \A i \in 1..Len(channel) : channel'[i] = channel[i]
           /\ channel'[Len(channel) + 1] = Update(t, values)
           /\ serial' \in [Tokens -> Fields]
<1>1. channel \in Seq(Updates) /\ serial \in [Tokens -> Fields]
  BY DEF WriterTypeOK, Updates
<1>2. Update(t, values) \in Updates
  BY DEF Update, Updates
<1>3. channel' = Append(channel, Update(t, values)) /\ Len(channel) < Channel
  BY DEF send
<1>4. /\ channel' \in Seq(Updates) /\ Len(channel') = Len(channel) + 1
      /\ \A i \in 1..Len(channel) : channel'[i] = channel[i]
      /\ channel'[Len(channel) + 1] = Update(t, values)
  BY <1>1, <1>2, <1>3, AppendProperties
<1>5. Len(channel) \in Nat
  BY <1>1
<1>6. apply(serial[t], values) \in Fields
  BY <1>1, FieldsType
<1> QED
  BY <1>1, <1>3, <1>4, <1>5, <1>6, WriterAssumption DEF send

\* The writer keeps to its types.
LEMMA WriterType == WriterTypeOK /\ WriterStep => WriterTypeOK'
<1> SUFFICES ASSUME WriterTypeOK, WriterStep PROVE WriterTypeOK'
  OBVIOUS
<1> USE DEF WriterTypeOK
<1>0. channel \in Seq(Updates)
  BY DEF Updates
<1>1. CASE Drain
  <2> DEFINE u == Head(channel)
  <2>1. u \in Updates /\ Tail(channel) \in Seq(Updates) /\ Len(Tail(channel)) = Len(channel) - 1
    BY <1>0, <1>1, HeadTailProperties DEF Drain
  <2>2. Len(Tail(channel)) <= Channel
    <3>1. Len(channel) \in Nat /\ Len(channel) <= Channel
      OBVIOUS
    <3> QED
      BY <2>1, <3>1, WriterAssumption
  <2>3. u.token \in Tokens /\ u.values \in Fields
    BY <2>1 DEF Updates
  <2>4. merge(IF u.token \in DOMAIN pending THEN pending[u.token] ELSE Blank, u.values) \in Fields
    BY <2>3, BlankType, FieldsType
  <2>5. DOMAIN pending' \subseteq Tokens /\ \A t \in DOMAIN pending' : pending'[t] \in Fields
    BY <1>1, <2>3, <2>4 DEF Drain
  <2> QED
    BY <1>1, <2>1, <2>2, <2>5 DEF Drain, Updates
<1>2. CASE StartFlush
  BY <1>2 DEF StartFlush
<1>3. CASE Flush
  <2>1. \A t \in DOMAIN batch \cap rows : apply(table[t], batch[t]) \in Fields
    BY FieldsType
  <2> QED
    BY <1>3, <2>1 DEF Flush
<1>4. CASE FlushRefused
  BY <1>4 DEF FlushRefused
<1> QED
  BY <1>1, <1>2, <1>3, <1>4 DEF WriterStep

\* What CountSwap and SendEnriched send.
One == [Blank EXCEPT !.txs = 1]
Found(e) ==
    [price |-> look[e], supply |-> look[e], txs |-> 0,
     init |-> IF e \in Creations THEN look[e] ELSE 0]

\* A count touches neither the price nor the initial pool.
LEMMA OneType == One \in Fields /\ One.price = 0 /\ One.init = 0
BY DEF One, Blank, Fields

\* What an enrichment sends is what it saw.
LEMMA FoundType ==
    ASSUME TypeOK, NEW e \in Events
    PROVE  /\ Found(e) \in Fields /\ Found(e).price = look[e]
           /\ Found(e).init = IF e \in Creations THEN look[e] ELSE 0
BY IngestAssumption DEF TypeOK, Found, Fields

\* One step for each action.
LEMMA TypeStep == TypeOK /\ [Next]_vars => TypeOK'
<1> SUFFICES ASSUME TypeOK, [Next]_vars PROVE TypeOK'
  OBVIOUS
<1> USE AboutType, IngestAssumption DEF TypeOK, Goto, deskvars, outside
<1>1. ASSUME NEW e \in Events, InsertToken(e) PROVE TypeOK'
  BY <1>1 DEF InsertToken, WriterTypeOK
<1>2. ASSUME NEW e \in Events, SeeSwap(e) PROVE TypeOK'
  BY <1>2 DEF SeeSwap, WriterTypeOK, writervars
<1>3. ASSUME NEW e \in Events, SelectToken(e) PROVE TypeOK'
  BY <1>3 DEF SelectToken, WriterTypeOK, writervars
<1>4. ASSUME NEW e \in Events, CountSwap(e) PROVE TypeOK'
  <2>1. send(About[e], One)
    BY <1>4 DEF CountSwap, One
  <2>2. /\ channel' \in Seq(Updates) /\ Len(channel') <= Channel
        /\ serial' \in [Tokens -> Fields]
    BY <2>1, OneType, SendType
  <2> QED
    BY <1>4, <2>2 DEF CountSwap, WriterTypeOK, Updates
<1>5. ASSUME NEW e \in Events, Throttle(e) PROVE TypeOK'
  <2>1. since[About[e]] \in {None} \cup 0..(Threshold - 1)
    OBVIOUS
  <2>2. pc' \in [Events -> Places] /\ since' \in [Tokens -> {None} \cup 0..(Threshold - 1)]
    BY <1>5, <2>1 DEF Throttle, Places
  <2> QED
    BY <1>5, <2>2 DEF Throttle, WriterTypeOK, writervars, Places
<1>6. ASSUME NEW e \in Events, FirstThrottle(e) PROVE TypeOK'
  BY <1>6 DEF FirstThrottle, WriterTypeOK, writervars
<1>7. ASSUME NEW e \in Events, Enrich(e) PROVE TypeOK'
  <2>1. chain[About[e]] \in 0..MaxLooks
    OBVIOUS
  <2>2. look' \in [Events -> 0..MaxLooks] /\ crossed' \subseteq Tokens
    BY <1>7, <2>1 DEF Enrich
  <2> QED
    BY <1>7, <2>2 DEF Enrich, WriterTypeOK, writervars
<1>8. ASSUME NEW e \in Events, EnrichError(e) PROVE TypeOK'
  BY <1>8 DEF EnrichError, WriterTypeOK, writervars
<1>9. ASSUME NEW e \in Events, SendEnriched(e) PROVE TypeOK'
  <2>1. send(About[e], Found(e))
    BY <1>9 DEF SendEnriched, Found
  <2>2. /\ channel' \in Seq(Updates) /\ Len(channel') <= Channel
        /\ serial' \in [Tokens -> Fields]
    BY <2>1, FoundType, SendType
  <2>3. newest' \in [Tokens -> 0..MaxLooks]
    BY <1>9 DEF SendEnriched
  <2> QED
    BY <1>9, <2>2, <2>3 DEF SendEnriched, WriterTypeOK, Updates
<1>10. ASSUME NEW e \in Events, Order(e) PROVE TypeOK'
  BY <1>10 DEF Order, WriterTypeOK, writervars
<1>11. ASSUME NEW t \in Tokens, OpenTrade(t) \/ CloseTrade(t) PROVE TypeOK'
  BY <1>11 DEF OpenTrade, CloseTrade, WriterTypeOK, writervars, taskvars
<1>12. ASSUME NEW t \in Tokens, ChainMoves(t) PROVE TypeOK'
  <2>1. chain' \in [Tokens -> 1..MaxLooks]
    BY <1>12 DEF ChainMoves
  <2> QED
    BY <1>12, <2>1 DEF ChainMoves, WriterTypeOK, writervars, taskvars
<1>13. CASE WriterStep /\ UNCHANGED <<taskvars, since, deskvars, outside>>
  BY <1>13, WriterType DEF taskvars
<1>14. CASE UNCHANGED vars
  BY <1>14 DEF vars, writervars, taskvars, WriterTypeOK
<1> QED
  BY <1>1, <1>2, <1>3, <1>4, <1>5, <1>6, <1>7, <1>8, <1>9, <1>10, <1>11, <1>12, <1>13, <1>14
     DEF Next, TaskStep

\* Every variable keeps to its kind: the channel stays within its capacity, and the
\* throttle below its threshold, whatever events come in whatever order.
THEOREM IngestTypeCorrect == Spec => []TypeOK
  BY TypeInit, TypeStep, PTL DEF Spec
-----------------------------------------------------------------------------
(* The inductive invariant *)

\* Whatever is under way is about a token that has a row, and the writer has a
\* statement under way only while it waits for it.
RowInv ==
    /\ \A e \in Events :
          pc[e] \in {"count", "throttle", "first", "enrich", "send", "order"} => About[e] \in rows
    /\ \A i \in 1..Len(channel) : channel[i].token \in rows
    /\ DOMAIN pending \subseteq rows /\ DOMAIN batch \subseteq rows
    /\ writer = "drain" => batch = <<>>

\* The creation that inserted the row of its token, unless its enrichment failed.
Winner(e) == e \in Creations /\ (pc[e] \in {"enrich", "send", "order"} \/ e \in ordered)

OnceInv ==
    /\ \A e \in Creations : pc[e] \in {"idle", "enrich", "send", "order", "done"}
    /\ \A e \in ordered : pc[e] = "done"
    /\ \A e \in Events : Winner(e) => About[e] \in rows
    /\ \A e, o \in Events : Winner(e) /\ Winner(o) /\ About[e] = About[o] => e = o

\* An initial pool that is under way is what the winner has sent.
Sent(e) == pc[e] = "order" \/ e \in ordered
PoolOf(t, v) == v = 0 \/ \E e \in Creations : About[e] = t /\ Sent(e) /\ v = look[e]

PoolInv ==
    /\ \A t \in DOMAIN pending : PoolOf(t, pending[t].init)
    /\ \A i \in 1..Len(channel) : PoolOf(channel[i].token, channel[i].values.init)

SerialInv == \A t \in Tokens \ lost : Alike(Outlook(t), serial[t])

\* Of a token whose enrichments do not overlap, at most one has seen a price that it
\* has not sent, and that is no older than the last that was sent.
FreshInv ==
    /\ \A t \in Tokens : newest[t] <= chain[t]
    /\ \A e \in Events : pc[e] = "send" => look[e] # 0 /\ look[e] <= chain[About[e]]
    /\ \A t \in Tokens \ crossed : serial[t].price = newest[t]
    /\ \A e \in Events : pc[e] = "send" /\ About[e] \notin crossed =>
          /\ newest[About[e]] <= look[e]
          /\ \A o \in Events : pc[o] = "send" /\ About[o] = About[e] => o = e

\* An order follows on the update with its price; the trades of a token follow on
\* the order for its creation, which has sent the initial pool.
Priced(t) == serial[t].price # 0 /\ serial[t].init # 0

PricedInv ==
    /\ \A e \in Events : Sent(e) => Priced(About[e])
    /\ \A t \in Tokens : desk[t] # "none" => Priced(t)
    /\ \A e \in Swaps : pc[e] \notin {"idle", "done"} => desk[About[e]] # "none"

IngestInv ==
    TypeOK /\ RowInv /\ OnceInv /\ PoolInv /\ SerialInv /\ FreshInv /\ PricedInv

\* At the start nothing is under way, and no row differs from its history.
LEMMA InvInit == Init => IngestInv
<1> SUFFICES ASSUME Init PROVE IngestInv
  OBVIOUS
<1> USE DEF Init, WriterInit
<1>1. TypeOK
  BY TypeInit
<1>2. RowInv /\ OnceInv /\ PoolInv
  BY DEF RowInv, OnceInv, PoolInv, Winner, Events
<1>3. SerialInv
  <2>1. ASSUME NEW t \in Tokens PROVE Outlook(t) = serial[t]
    <3>1. Waiting(batch, t) = Blank /\ Waiting(pending, t) = Blank
      BY DEF Waiting
    <3>2. apply(apply(table[t], Blank), Blank) = Blank
      BY BlankType, ApplyBlank
    <3>3. channel \in Seq(Updates) /\ \A n \in 1..Len(channel) : channel[n].token # t
      OBVIOUS
    <3>4. After(t, Blank, channel) = Blank
      BY <3>3, BlankType, AfterNone
    <3> QED
      BY <3>1, <3>2, <3>4 DEF Outlook
  <2> QED
    BY <2>1 DEF SerialInv, Alike
<1>4. FreshInv
  BY DEF FreshInv, Blank
<1>5. PricedInv
  BY DEF PricedInv, Sent, Events
<1> QED
  BY <1>1, <1>2, <1>3, <1>4, <1>5 DEF IngestInv

\* Rows are never deleted, and whatever sets out for one finds it there.
LEMMA RowStep == TypeOK /\ RowInv /\ [Next]_vars => RowInv'
<1> SUFFICES ASSUME TypeOK, RowInv, [Next]_vars PROVE RowInv'
  OBVIOUS
<1> USE AboutType DEF RowInv, Goto, deskvars, outside
<1>0. /\ channel \in Seq(Updates) /\ Len(channel) \in Nat
      /\ WriterTypeOK /\ pc \in [Events -> Places]
  BY DEF TypeOK, WriterTypeOK, Updates, Places
<1>1. ASSUME NEW e \in Events, InsertToken(e) PROVE RowInv'
  BY <1>0, <1>1 DEF InsertToken
<1>2. ASSUME NEW e \in Events, SeeSwap(e) PROVE RowInv'
  BY <1>0, <1>2 DEF SeeSwap, writervars
<1>3. ASSUME NEW e \in Events, SelectToken(e) PROVE RowInv'
  BY <1>0, <1>3 DEF SelectToken, writervars
<1>4. ASSUME NEW e \in Events, CountSwap(e) PROVE RowInv'
  <2>1. /\ Len(channel') = Len(channel) + 1
        /\ \A i \in 1..Len(channel) : channel'[i] = channel[i]
        /\ channel'[Len(channel) + 1] = Update(About[e], One)
    BY <1>0, <1>4, OneType, SendType DEF CountSwap, One
  <2>2. \A i \in 1..Len(channel') : channel'[i].token \in rows
    BY <1>0, <1>4, <2>1 DEF CountSwap, Update
  <2> QED
    BY <1>0, <1>4, <2>2 DEF CountSwap
<1>5. ASSUME NEW e \in Events, Throttle(e) PROVE RowInv'
  BY <1>0, <1>5 DEF Throttle, writervars
<1>6. ASSUME NEW e \in Events, FirstThrottle(e) PROVE RowInv'
  BY <1>0, <1>6 DEF FirstThrottle, writervars
<1>7. ASSUME NEW e \in Events, Enrich(e) PROVE RowInv'
  BY <1>0, <1>7 DEF Enrich, writervars
<1>8. ASSUME NEW e \in Events, EnrichError(e) PROVE RowInv'
  BY <1>0, <1>8 DEF EnrichError, writervars
<1>9. ASSUME NEW e \in Events, SendEnriched(e) PROVE RowInv'
  <2>1. /\ Len(channel') = Len(channel) + 1
        /\ \A i \in 1..Len(channel) : channel'[i] = channel[i]
        /\ channel'[Len(channel) + 1] = Update(About[e], Found(e))
    BY <1>0, <1>9, FoundType, SendType DEF SendEnriched, Found
  <2>2. \A i \in 1..Len(channel') : channel'[i].token \in rows
    BY <1>0, <1>9, <2>1 DEF SendEnriched, Update
  <2> QED
    BY <1>0, <1>9, <2>2 DEF SendEnriched
<1>10. ASSUME NEW e \in Events, Order(e) PROVE RowInv'
  BY <1>0, <1>10 DEF Order, writervars
<1>11. ASSUME NEW t \in Tokens, OpenTrade(t) \/ CloseTrade(t) \/ ChainMoves(t) PROVE RowInv'
  BY <1>11 DEF OpenTrade, CloseTrade, ChainMoves, writervars, taskvars
<1>12. CASE WriterStep /\ UNCHANGED <<taskvars, since, deskvars, outside>>
  <2>1. CASE Drain
    <3>1. /\ channel # <<>> /\ channel' = Tail(channel)
          /\ DOMAIN pending' = DOMAIN pending \cup {Head(channel).token}
          /\ UNCHANGED <<rows, batch, writer, pc>>
      BY <1>12, <2>1 DEF Drain, taskvars
    <3>2. /\ Head(channel) = channel[1] /\ Len(Tail(channel)) = Len(channel) - 1
          /\ \A i \in 1..(Len(channel) - 1) : Tail(channel)[i] = channel[i + 1]
      BY <1>0, <3>1, HeadTailProperties
    <3>3. Len(channel) # 0
      BY <1>0, <3>1, EmptySeq
    <3>4. channel[1].token \in rows
      BY <1>0, <3>3
    <3>5. \A i \in 1..Len(channel') : channel'[i].token \in rows
      BY <1>0, <3>1, <3>2
    <3> QED
      BY <3>1, <3>2, <3>4, <3>5
  <2>2. CASE StartFlush
    BY <1>12, <2>2 DEF StartFlush, taskvars
  <2>3. CASE Flush
    BY <1>12, <2>3 DEF Flush, taskvars
  <2>4. CASE FlushRefused
    BY <1>12, <2>4 DEF FlushRefused, taskvars
  <2> QED
    BY <1>12, <2>1, <2>2, <2>3, <2>4 DEF WriterStep
<1>13. CASE UNCHANGED vars
  BY <1>13 DEF vars, writervars, taskvars
<1> QED
  BY <1>1, <1>2, <1>3, <1>4, <1>5, <1>6, <1>7, <1>8, <1>9, <1>10, <1>11, <1>12, <1>13
     DEF Next, TaskStep

\* A creation wins only if the row was not there, and then it is.
LEMMA OnceStep == TypeOK /\ OnceInv /\ [Next]_vars => OnceInv'
<1> SUFFICES ASSUME TypeOK, OnceInv, [Next]_vars PROVE OnceInv'
  OBVIOUS
<1> USE AboutType, IngestAssumption DEF OnceInv, Winner, Goto, deskvars, outside
<1>0. pc \in [Events -> Places] /\ Creations \subseteq Events /\ ordered \subseteq Events
  BY DEF TypeOK, Places, Events
<1>1. ASSUME NEW e \in Events, InsertToken(e) PROVE OnceInv'
  <2>1. /\ e \in Creations /\ pc[e] = "idle" /\ e \notin ordered
        /\ rows' = rows \cup {About[e]} /\ ordered' = ordered
        /\ pc' = [pc EXCEPT ![e] = IF About[e] \in rows THEN "done" ELSE "enrich"]
    BY <1>1 DEF InsertToken
  <2>2. \A o \in Events : Winner(o)' => Winner(o) \/ (o = e /\ About[e] \notin rows)
    BY <1>0, <2>1
  <2> QED
    BY <1>0, <2>1, <2>2
<1>2. ASSUME NEW e \in Events,
             SeeSwap(e) \/ SelectToken(e) \/ CountSwap(e) \/ Throttle(e) \/ FirstThrottle(e)
      PROVE  OnceInv'
  <2>1. e \notin Creations
    BY <1>2 DEF SeeSwap, SelectToken, CountSwap, Throttle, FirstThrottle
  <2>2. /\ rows' = rows /\ ordered' = ordered /\ pc[e] # "done"
        /\ \E place \in Places : pc' = [pc EXCEPT ![e] = place]
    BY <1>2 DEF SeeSwap, SelectToken, CountSwap, Throttle, FirstThrottle, writervars, Places
  <2> QED
    BY <1>0, <2>1, <2>2
<1>3. ASSUME NEW e \in Events, Enrich(e) \/ EnrichError(e) \/ SendEnriched(e) PROVE OnceInv'
  <2>1. /\ rows' = rows /\ ordered' = ordered /\ pc[e] \in {"enrich", "send"}
        /\ \E place \in {"send", "order", "done"} : pc' = [pc EXCEPT ![e] = place]
    BY <1>3 DEF Enrich, EnrichError, SendEnriched, writervars
  <2>2. \A o \in Events : Winner(o)' => Winner(o)
    BY <1>0, <2>1
  <2> QED
    BY <1>0, <2>1, <2>2
<1>4. ASSUME NEW e \in Events, Order(e) PROVE OnceInv'
  <2>1. /\ rows' = rows /\ ordered' = ordered \cup {e} /\ pc[e] = "order"
        /\ pc' = [pc EXCEPT ![e] = "done"]
    BY <1>4 DEF Order, writervars
  <2>2. \A o \in Events : Winner(o)' => Winner(o)
    BY <1>0, <2>1
  <2> QED
    BY <1>0, <2>1, <2>2
<1>5. ASSUME NEW t \in Tokens, OpenTrade(t) \/ CloseTrade(t) \/ ChainMoves(t) PROVE OnceInv'
  BY <1>5 DEF OpenTrade, CloseTrade, ChainMoves, writervars, taskvars
<1>6. CASE WriterStep /\ UNCHANGED <<taskvars, since, deskvars, outside>>
  BY <1>6 DEF WriterStep, Drain, StartFlush, Flush, FlushRefused, taskvars
<1>7. CASE UNCHANGED vars
  BY <1>7 DEF vars, writervars, taskvars
<1> QED
  BY <1>1, <1>2, <1>3, <1>4, <1>5, <1>6, <1>7 DEF Next, TaskStep

\* What was sent of a pool stays what it was.
LEMMA PoolKept ==
    ASSUME TypeOK, OnceInv, [Next]_vars, NEW t, NEW v, PoolOf(t, v)
    PROVE  PoolOf(t, v)'
<1> USE DEF PoolOf, Sent, Goto, deskvars, outside
<1> SUFFICES ASSUME NEW e \in Creations, Sent(e) PROVE Sent(e)' /\ look'[e] = look[e]
  OBVIOUS
<1>1. /\ e \in Events /\ pc[e] \in {"order", "done"} /\ pc \in [Events -> Places]
      /\ (e \in ordered => pc[e] = "done") /\ look \in [Events -> 0..MaxLooks]
  BY DEF OnceInv, TypeOK, Places, Events
<1>2. ASSUME NEW o \in Events, InsertToken(o) \/ SeeSwap(o) \/ SelectToken(o) \/ CountSwap(o)
      PROVE  Sent(e)' /\ look'[e] = look[e]
  BY <1>1, <1>2 DEF InsertToken, SeeSwap, SelectToken, CountSwap
<1>3. ASSUME NEW o \in Events, Throttle(o) \/ FirstThrottle(o)
      PROVE  Sent(e)' /\ look'[e] = look[e]
  BY <1>1, <1>3 DEF Throttle, FirstThrottle
<1>4. ASSUME NEW o \in Events, Enrich(o) \/ EnrichError(o) \/ SendEnriched(o) \/ Order(o)
      PROVE  Sent(e)' /\ look'[e] = look[e]
  BY <1>1, <1>4 DEF Enrich, EnrichError, SendEnriched, Order
<1>5. ASSUME NEW u \in Tokens, OpenTrade(u) \/ CloseTrade(u) \/ ChainMoves(u)
      PROVE  Sent(e)' /\ look'[e] = look[e]
  BY <1>5 DEF OpenTrade, CloseTrade, ChainMoves, taskvars
<1>6. CASE UNCHANGED <<taskvars, since, deskvars, outside>>
  BY <1>6 DEF taskvars
<1>7. CASE UNCHANGED vars
  BY <1>7 DEF vars, taskvars
<1> QED
  BY <1>2, <1>3, <1>4, <1>5, <1>6, <1>7 DEF Next, TaskStep

\* The initial pool of a token is what one look found, whichever updates meet.
LEMMA OnePool ==
    ASSUME OnceInv, NEW t, NEW v, NEW w, PoolOf(t, v), PoolOf(t, w)
    PROVE  v = 0 \/ w = 0 \/ v = w
BY DEF OnceInv, PoolOf, Sent, Winner, Events

\* An update that is sent joins those under way.
LEMMA PoolSend ==
    ASSUME TypeOK, OnceInv, PoolInv, [Next]_vars, NEW t \in Tokens, NEW values \in Fields,
           send(t, values), pending' = pending, PoolOf(t, values.init)'
    PROVE  PoolInv'
<1>1. WriterTypeOK /\ Len(channel) \in Nat
  BY DEF TypeOK, WriterTypeOK
<1>2. /\ Len(channel') = Len(channel) + 1
      /\ \A i \in 1..Len(channel) : channel'[i] = channel[i]
      /\ channel'[Len(channel) + 1] = Update(t, values)
  BY <1>1, SendType
<1>3. \A u \in DOMAIN pending : PoolOf(u, pending[u].init)'
  BY PoolKept DEF PoolInv
<1>4. ASSUME NEW i \in 1..Len(channel')
      PROVE  PoolOf(channel[i].token, channel[i].values.init)'
  <2>1. CASE i <= Len(channel)
    <3>1. i \in 1..Len(channel)
      BY <1>1, <1>2, <2>1
    <3>2. PoolOf(channel[i].token, channel[i].values.init)
      BY <3>1 DEF PoolInv
    <3>3. PICK u, v : u = channel[i].token /\ v = channel[i].values.init
      OBVIOUS
    <3>4. PoolOf(u, v)'
      BY <3>2, <3>3, PoolKept
    <3>5. channel'[i] = channel[i]
      BY <1>2, <3>1
    <3> QED
      BY <3>3, <3>4, <3>5
  <2>2. CASE i = Len(channel) + 1
    BY <1>2, <2>2 DEF Update, PoolOf
  <2> QED
    BY <1>1, <1>2, <2>1, <2>2
<1> QED
  BY <1>3, <1>4 DEF PoolInv, PoolOf

Quiet == UNCHANGED <<table, channel, pending, batch, serial, lost>>

\* Only a task that sends, and the writer, touch what is under way.
LEMMA StepKinds ==
    ASSUME [Next]_vars
    PROVE  \/ Quiet
           \/ \E e \in Events : CountSwap(e) \/ SendEnriched(e)
           \/ WriterStep /\ UNCHANGED <<taskvars, since, deskvars, outside>>
<1> USE DEF Quiet, writervars
<1>1. ASSUME NEW e \in Events, InsertToken(e) \/ SeeSwap(e) \/ SelectToken(e) PROVE Quiet
  BY <1>1 DEF InsertToken, SeeSwap, SelectToken
<1>2. ASSUME NEW e \in Events, Throttle(e) \/ FirstThrottle(e) PROVE Quiet
  BY <1>2 DEF Throttle, FirstThrottle
<1>3. ASSUME NEW e \in Events, Enrich(e) \/ EnrichError(e) \/ Order(e) PROVE Quiet
  BY <1>3 DEF Enrich, EnrichError, Order
<1>4. ASSUME NEW t \in Tokens, OpenTrade(t) \/ CloseTrade(t) \/ ChainMoves(t) PROVE Quiet
  BY <1>4 DEF OpenTrade, CloseTrade, ChainMoves
<1>5. CASE UNCHANGED vars
  BY <1>5 DEF vars
<1> QED
  BY <1>1, <1>2, <1>3, <1>4, <1>5 DEF Next, TaskStep

\* Every initial pool under way is the one that the winner has sent.
LEMMA PoolStep == TypeOK /\ OnceInv /\ PoolInv /\ [Next]_vars => PoolInv'
<1> SUFFICES ASSUME TypeOK, OnceInv, PoolInv, [Next]_vars PROVE PoolInv'
  OBVIOUS
<1>0. /\ channel \in Seq(Updates) /\ Len(channel) \in Nat
      /\ pc \in [Events -> Places] /\ DOMAIN pending \subseteq Tokens
      /\ \A t \in DOMAIN pending : pending[t] \in Fields
  BY DEF TypeOK, WriterTypeOK, Updates, Places
<1>1. ASSUME NEW t, NEW v, PoolOf(t, v) PROVE PoolOf(t, v)'
  BY <1>1, PoolKept
<1>2. \A t \in DOMAIN pending : \A v : v = pending[t].init => PoolOf(t, v)'
  BY <1>1 DEF PoolInv
<1>3. \A i \in 1..Len(channel) : \A t, v :
         t = channel[i].token /\ v = channel[i].values.init => PoolOf(t, v)'
  BY <1>1 DEF PoolInv
<1>4. CASE Quiet
  BY <1>2, <1>3, <1>4 DEF Quiet, PoolInv
<1>5. ASSUME NEW e \in Events, CountSwap(e) PROVE PoolInv'
  <2>1. send(About[e], One) /\ pending' = pending
    BY <1>5 DEF CountSwap, One
  <2>2. PoolOf(About[e], One.init)'
    BY OneType DEF PoolOf
  <2> QED
    BY <2>1, <2>2, AboutType, OneType, PoolSend
<1>6. ASSUME NEW e \in Events, SendEnriched(e) PROVE PoolInv'
  <2>1. send(About[e], Found(e)) /\ pending' = pending /\ look' = look /\ pc'[e] = "order"
    BY <1>0, <1>6 DEF SendEnriched, Found, Goto
  <2>2. Found(e).init = 0 \/ (e \in Creations /\ Found(e).init = look[e])
    BY FoundType
  <2>3. PICK found : found = Found(e)
    OBVIOUS
  <2>4. PoolOf(About[e], found.init)'
    BY <2>1, <2>2, <2>3 DEF PoolOf, Sent
  <2> QED
    BY <2>1, <2>3, <2>4, AboutType, FoundType, PoolSend
<1>7. CASE WriterStep /\ UNCHANGED <<taskvars, since, deskvars, outside>>
  <2>1. CASE Drain
    <3> DEFINE t == Head(channel).token
               new == Head(channel).values
               old == IF t \in DOMAIN pending THEN pending[t] ELSE Blank
    <3>1. /\ channel # <<>> /\ channel' = Tail(channel)
          /\ pending' = [u \in DOMAIN pending \cup {t} |->
                            IF u # t THEN pending[u] ELSE merge(old, new)]
      BY <2>1 DEF Drain
    <3>2. /\ Head(channel) = channel[1] /\ Len(Tail(channel)) = Len(channel) - 1
          /\ \A i \in 1..(Len(channel) - 1) : Tail(channel)[i] = channel[i + 1]
          /\ Len(channel) # 0
      BY <1>0, <3>1, HeadTailProperties, EmptySeq
    <3>3. \A i \in 1..Len(channel') : \A u, v :
             u = channel'[i].token /\ v = channel'[i].values.init => PoolOf(u, v)'
      <4>1. \A i \in 1..Len(channel') : i + 1 \in 1..Len(channel) /\ channel'[i] = channel[i + 1]
        BY <1>0, <3>1, <3>2
      <4> QED
        BY <1>3, <4>1
    <3>4. \A u, v : u = t /\ v = new.init => PoolOf(u, v)'
      BY <1>0, <1>3, <3>2
    <3>5. \A u, v : u = t /\ v = old.init => PoolOf(u, v)'
      <4>1. CASE t \in DOMAIN pending
        BY <1>2, <4>1
      <4>2. CASE t \notin DOMAIN pending
        BY <4>2 DEF Blank, PoolOf
      <4> QED
        BY <4>1, <4>2
    <3>6. merge(old, new).init \in {old.init, new.init}
      BY DEF merge, Or
    <3>7. \A u \in DOMAIN pending' : \A v : v = pending'[u].init => PoolOf(u, v)'
      <4> HIDE DEF t, new, old
      <4> QED
        BY <1>2, <3>1, <3>4, <3>5, <3>6
    <3> QED
      BY <3>3, <3>7 DEF PoolInv
  <2>2. CASE StartFlush
    BY <1>2, <1>3, <2>2 DEF StartFlush, PoolInv
  <2>3. CASE Flush \/ FlushRefused
    BY <1>2, <1>3, <2>3 DEF Flush, FlushRefused, PoolInv
  <2> QED
    BY <1>7, <2>1, <2>2, <2>3 DEF WriterStep
<1> QED
  BY <1>4, <1>5, <1>6, <1>7, StepKinds

\* What the writer holds back of a token is of the right kind.
LEMMA WaitingType ==
    ASSUME WriterTypeOK, NEW t \in Tokens
    PROVE  /\ table[t] \in Fields /\ serial[t] \in Fields
           /\ Waiting(batch, t) \in Fields /\ Waiting(pending, t) \in Fields
           /\ apply(table[t], Waiting(batch, t)) \in Fields
           /\ apply(apply(table[t], Waiting(batch, t)), Waiting(pending, t)) \in Fields
<1>1. /\ table[t] \in Fields /\ serial[t] \in Fields
      /\ Waiting(batch, t) \in Fields /\ Waiting(pending, t) \in Fields
  BY BlankType DEF WriterTypeOK, Waiting
<1> QED
  BY <1>1, FieldsType

\* To send an update is to write it, as far as its row will tell.
LEMMA SerialSend ==
    ASSUME TypeOK, SerialInv, NEW u \in Tokens, NEW values \in Fields, send(u, values),
           UNCHANGED <<table, pending, batch, lost>>
    PROVE  SerialInv'
<1> SUFFICES ASSUME NEW t \in Tokens \ lost PROVE Alike(Outlook(t)', serial'[t])
  BY DEF SerialInv
<1> DEFINE base == apply(apply(table[t], Waiting(batch, t)), Waiting(pending, t))
<1>1. WriterTypeOK /\ channel \in Seq(Updates) /\ serial \in [Tokens -> Fields]
  BY DEF TypeOK, WriterTypeOK, Updates
<1>2. Update(u, values) \in Updates /\ base \in Fields /\ serial[t] \in Fields
  BY <1>1, WaitingType DEF Update, Updates
<1>3. channel' = Append(channel, Update(u, values))
      /\ serial' = [serial EXCEPT ![u] = apply(@, values)]
  BY DEF send
<1>4. Outlook(t) = After(t, base, channel) /\ Outlook(t)' = After(t, base, channel')
  BY DEF Outlook, Waiting
<1>5. Alike(Outlook(t), serial[t]) /\ After(t, base, channel) \in Fields
  BY <1>1, <1>2, AfterType DEF SerialInv
<1> HIDE DEF base
<1>6. Outlook(t)' = IF u # t THEN Outlook(t) ELSE apply(Outlook(t), values)
  <2>1. After(t, base, channel')
           = IF Update(u, values).token # t THEN After(t, base, channel)
             ELSE apply(After(t, base, channel), Update(u, values).values)
    BY <1>1, <1>2, <1>3, AfterAppend
  <2> QED
    BY <1>4, <2>1 DEF Update
<1>7. CASE u # t
  BY <1>1, <1>3, <1>5, <1>6, <1>7
<1>8. CASE u = t
  BY <1>1, <1>2, <1>3, <1>4, <1>5, <1>6, <1>8, ApplyAlike
<1> QED
  BY <1>7, <1>8

\* Drain merges two updates of which no two disagree about the initial pool.
LEMMA SerialDrain ==
    ASSUME TypeOK, OnceInv, PoolInv, SerialInv, Drain
    PROVE  SerialInv'
<1> SUFFICES ASSUME NEW t \in Tokens \ lost PROVE Alike(Outlook(t)', serial[t])
  BY DEF SerialInv, Drain
<1> DEFINE row == apply(table[t], Waiting(batch, t))
           u == Head(channel).token
           new == Head(channel).values
           old == Waiting(pending, t)
<1>1. WriterTypeOK /\ channel \in Seq(Updates)
  BY DEF TypeOK, WriterTypeOK, Updates
<1>2. row \in Fields /\ old \in Fields /\ serial[t] \in Fields /\ apply(row, old) \in Fields
  BY <1>1, WaitingType
<1>3. /\ channel # <<>> /\ channel' = Tail(channel)
      /\ table' = table /\ batch' = batch
      /\ pending' = [v \in DOMAIN pending \cup {u} |->
                        IF v # u THEN pending[v]
                        ELSE merge(IF u \in DOMAIN pending THEN pending[u] ELSE Blank, new)]
  BY DEF Drain
<1>4. /\ Head(channel) = channel[1] /\ Head(channel) \in Updates
      /\ Tail(channel) \in Seq(Updates) /\ Len(channel) \in Nat /\ Len(channel) # 0
  BY <1>1, <1>3, HeadTailProperties, EmptySeq
<1>5. new \in Fields
  BY <1>4 DEF Updates
<1>6. Waiting(pending, t)' = IF t # u THEN old ELSE merge(old, new)
  BY <1>3 DEF Waiting
<1>7. Outlook(t) = After(t, apply(row, old), channel)
  BY DEF Outlook
<1>8. Outlook(t)' = After(t, apply(row, IF t # u THEN old ELSE merge(old, new)), Tail(channel))
  BY <1>3, <1>6 DEF Outlook, Waiting
<1>9. Outlook(t) = After(t, IF u # t THEN apply(row, old) ELSE apply(apply(row, old), new),
                         Tail(channel))
  BY <1>1, <1>2, <1>3, <1>7, AfterTail
<1>10. Alike(Outlook(t), serial[t])
  BY DEF SerialInv
<1>11. t = u => old.init = 0 \/ new.init = 0 \/ old.init = new.init
  <2> SUFFICES ASSUME t = u PROVE old.init = 0 \/ new.init = 0 \/ old.init = new.init
    OBVIOUS
  <2>1. PoolOf(t, new.init)
    BY <1>4 DEF PoolInv
  <2>2. PoolOf(t, old.init)
    BY DEF PoolInv, PoolOf, Waiting, Blank
  <2> QED
    BY <2>1, <2>2, OnePool
<1>12. merge(old, new) \in Fields
  BY <1>2, <1>5, FieldsType
<1> HIDE DEF row, u, new, old
<1>13. CASE t # u
  BY <1>8, <1>9, <1>10, <1>13
<1>14. CASE t = u
  <2>1. Alike(apply(row, merge(old, new)), apply(apply(row, old), new))
    BY <1>2, <1>5, <1>11, <1>14, MergeIsApply
  <2>2. apply(row, merge(old, new)) \in Fields /\ apply(apply(row, old), new) \in Fields
    BY <1>2, <1>5, <1>12, FieldsType
  <2>3. Alike(Outlook(t)', Outlook(t))
    BY <1>4, <1>8, <1>9, <1>14, <2>1, <2>2, AfterAlike
  <2> QED
    BY <1>10, <2>3 DEF Alike
<1> QED
  BY <1>13, <1>14

\* The order in which the updates of a token reach its row is that in which they
\* were sent, through the map and the batch.
LEMMA SerialStep ==
    TypeOK /\ RowInv /\ OnceInv /\ PoolInv /\ SerialInv /\ [Next]_vars => SerialInv'
<1> SUFFICES ASSUME TypeOK, RowInv, OnceInv, PoolInv, SerialInv, [Next]_vars PROVE SerialInv'
  OBVIOUS
<1>0. WriterTypeOK
  BY DEF TypeOK
<1>1. CASE Quiet
  BY <1>1 DEF Quiet, SerialInv, Outlook, Waiting
<1>2. ASSUME NEW e \in Events, CountSwap(e) PROVE SerialInv'
  <2>1. send(About[e], One) /\ UNCHANGED <<table, pending, batch, lost>>
    BY <1>2 DEF CountSwap, One
  <2> QED
    BY <2>1, AboutType, OneType, SerialSend
<1>3. ASSUME NEW e \in Events, SendEnriched(e) PROVE SerialInv'
  <2>1. send(About[e], Found(e)) /\ UNCHANGED <<table, pending, batch, lost>>
    BY <1>3 DEF SendEnriched, Found
  <2> QED
    BY <2>1, AboutType, FoundType, SerialSend
<1>4. CASE Drain
  BY <1>4, SerialDrain
<1>5. CASE StartFlush
  <2>1. batch = <<>> /\ batch' = pending /\ pending' = <<>>
        /\ UNCHANGED <<table, channel, serial, lost>>
    BY <1>5 DEF StartFlush, RowInv
  <2>2. ASSUME NEW t \in Tokens PROVE Outlook(t)' = Outlook(t)
    <3>1. /\ Waiting(batch, t) = Blank /\ Waiting(batch, t)' = Waiting(pending, t)
          /\ Waiting(pending, t)' = Blank
      BY <2>1 DEF Waiting
    <3>2. table[t] \in Fields /\ apply(table[t], Waiting(pending, t)) \in Fields
      BY <1>0, WaitingType, FieldsType
    <3>3. /\ apply(table[t], Blank) = table[t]
          /\ apply(apply(table[t], Waiting(pending, t)), Blank)
                = apply(table[t], Waiting(pending, t))
      BY <3>2, ApplyBlank
    <3> QED
      BY <2>1, <3>1, <3>3 DEF Outlook
  <2> QED
    BY <2>1, <2>2 DEF SerialInv
<1>6. CASE Flush
  <2>1. /\ batch' = <<>> /\ DOMAIN batch \subseteq rows
        /\ \A t \in Tokens : table'[t] = IF t \in DOMAIN batch \cap rows
                                         THEN apply(table[t], batch[t]) ELSE table[t]
        /\ UNCHANGED <<pending, channel, serial, lost>>
    BY <1>6 DEF Flush, RowInv
  <2>2. ASSUME NEW t \in Tokens PROVE Outlook(t)' = Outlook(t)
    <3>1. table[t] \in Fields /\ apply(table[t], Waiting(batch, t)) \in Fields
      BY <1>0, WaitingType
    <3>2. table'[t] = apply(table[t], Waiting(batch, t))
      BY <2>1, <3>1, ApplyBlank DEF Waiting
    <3>3. Waiting(batch, t)' = Blank /\ Waiting(pending, t)' = Waiting(pending, t)
      BY <2>1 DEF Waiting
    <3>4. apply(table'[t], Blank) = table'[t]
      BY <3>1, <3>2, ApplyBlank
    <3> QED
      BY <2>1, <3>2, <3>3, <3>4 DEF Outlook
  <2> QED
    BY <2>1, <2>2 DEF SerialInv
<1>7. CASE FlushRefused
  <2>1. /\ batch' = <<>> /\ lost' = lost \cup DOMAIN batch
        /\ UNCHANGED <<table, pending, channel, serial>>
    BY <1>7 DEF FlushRefused
  <2>2. ASSUME NEW t \in Tokens \ lost' PROVE Outlook(t)' = Outlook(t)
    <3>1. Waiting(batch, t)' = Blank /\ Waiting(batch, t) = Blank
          /\ Waiting(pending, t)' = Waiting(pending, t)
      BY <2>1, <2>2 DEF Waiting
    <3> QED
      BY <2>1, <3>1 DEF Outlook
  <2> QED
    BY <2>1, <2>2 DEF SerialInv
<1> QED
  BY <1>1, <1>2, <1>3, <1>4, <1>5, <1>6, <1>7, StepKinds DEF WriterStep

\* To send changes the history of one token.
LEMMA SerialAt ==
    ASSUME TypeOK, NEW u \in Tokens, NEW values, send(u, values)
    PROVE  /\ serial'[u] = apply(serial[u], values)
           /\ \A t \in Tokens \ {u} : serial'[t] = serial[t]
BY DEF send, TypeOK, WriterTypeOK

\* Where enrichments of a token do not overlap, what one has seen is news when it is
\* sent: no other has been sent since.
LEMMA FreshStep == TypeOK /\ FreshInv /\ [Next]_vars => FreshInv'
<1> SUFFICES ASSUME TypeOK, FreshInv, [Next]_vars PROVE FreshInv'
  OBVIOUS
<1> USE AboutType, IngestAssumption DEF Goto, deskvars, outside
<1>0. /\ pc \in [Events -> Places] /\ look \in [Events -> 0..MaxLooks]
      /\ chain \in [Tokens -> 1..MaxLooks] /\ newest \in [Tokens -> 0..MaxLooks]
      /\ serial \in [Tokens -> Fields] /\ crossed \subseteq Tokens
  BY DEF TypeOK, WriterTypeOK, Places
<1> DEFINE Same == UNCHANGED <<look, chain, newest, crossed, serial>>
<1>1. ASSUME Same, \A e \in Events : pc'[e] = "send" => pc[e] = "send" PROVE FreshInv'
  BY <1>1 DEF FreshInv
<1>2. ASSUME NEW e \in Events, InsertToken(e) \/ SeeSwap(e) \/ SelectToken(e) PROVE FreshInv'
  <2>1. Same /\ \E place \in Places \ {"send"} : pc' = [pc EXCEPT ![e] = place]
    BY <1>2 DEF InsertToken, SeeSwap, SelectToken, writervars, Places
  <2> QED
    BY <1>0, <1>1, <2>1
<1>3. ASSUME NEW e \in Events, Throttle(e) \/ FirstThrottle(e) \/ EnrichError(e) \/ Order(e)
      PROVE  FreshInv'
  <2>1. Same /\ \E place \in Places \ {"send"} : pc' = [pc EXCEPT ![e] = place]
    BY <1>3 DEF Throttle, FirstThrottle, EnrichError, Order, writervars, Places
  <2> QED
    BY <1>0, <1>1, <2>1
<1>4. ASSUME NEW e \in Events, CountSwap(e) PROVE FreshInv'
  <2>1. /\ UNCHANGED <<look, chain, newest, crossed>> /\ send(About[e], One)
        /\ pc' = [pc EXCEPT ![e] = "throttle"]
    BY <1>4 DEF CountSwap, One
  <2>2. \A t \in Tokens : serial'[t].price = serial[t].price
    <3>1. apply(serial[About[e]], One).price = serial[About[e]].price
      BY OneType DEF apply, Or
    <3> QED
      BY <2>1, <3>1, SerialAt
  <2> QED
    BY <1>0, <2>1, <2>2 DEF FreshInv
<1>5. ASSUME NEW e \in Events, Enrich(e) PROVE FreshInv'
  <2> DEFINE t == About[e]
  <2>1. /\ UNCHANGED <<chain, newest, serial>>
        /\ look' = [look EXCEPT ![e] = chain[t]] /\ pc' = [pc EXCEPT ![e] = "send"]
        /\ crossed' = crossed \cup
              {u \in {t} : \E o \in Events : About[o] = u /\ pc[o] = "send"}
    BY <1>5 DEF Enrich, writervars
  <2>2. look'[e] = chain[t] /\ chain[t] # 0 /\ newest[t] <= chain[t]
    BY <1>0, <2>1 DEF FreshInv
  <2>3. \A o \in Events : o # e => look'[o] = look[o] /\ pc'[o] = pc[o]
    BY <1>0, <2>1
  <2>4. \A o \in Events : pc'[o] = "send" => look'[o] # 0 /\ look'[o] <= chain[About[o]]
    BY <1>0, <2>2, <2>3 DEF FreshInv
  <2>5. \A u \in Tokens : newest[u] <= chain[u] /\ (u \notin crossed' => serial[u].price = newest[u])
    BY <2>1 DEF FreshInv
  <2>6. t \notin crossed' => \A o \in Events : About[o] = t => pc[o] # "send"
    BY <2>1
  <2>7. ASSUME NEW d \in Events, pc'[d] = "send", About[d] \notin crossed'
        PROVE  /\ newest[About[d]] <= look'[d]
               /\ \A o \in Events : pc'[o] = "send" /\ About[o] = About[d] => o = d
    <3>1. CASE d = e
      BY <2>2, <2>3, <2>6, <2>7, <3>1
    <3>2. CASE d # e
      <4>1. pc[d] = "send" /\ About[d] \notin crossed /\ look'[d] = look[d]
        BY <2>1, <2>3, <2>7, <3>2
      <4>2. About[d] # t
        BY <2>6, <2>7, <4>1
      <4> QED
        BY <2>3, <4>1, <4>2 DEF FreshInv
    <3> QED
      BY <3>1, <3>2
  <2> QED
    BY <2>1, <2>4, <2>5, <2>7 DEF FreshInv
<1>6. ASSUME NEW e \in Events, SendEnriched(e) PROVE FreshInv'
  <2> DEFINE t == About[e]
  <2>1. /\ UNCHANGED <<chain, look, crossed>> /\ send(t, Found(e)) /\ pc[e] = "send"
        /\ newest' = [newest EXCEPT ![t] = IF look[e] > @ THEN look[e] ELSE @]
        /\ pc' = [pc EXCEPT ![e] = "order"]
    BY <1>6 DEF SendEnriched, Found
  <2>2. look[e] # 0 /\ look[e] <= chain[t] /\ newest[t] <= chain[t]
    BY <2>1 DEF FreshInv
  <2>3. \A u \in Tokens : u # t => newest'[u] = newest[u] /\ serial'[u] = serial[u]
    BY <1>0, <2>1, SerialAt
  <2>4. newest'[t] = IF look[e] > newest[t] THEN look[e] ELSE newest[t]
    BY <1>0, <2>1
  <2>5. serial'[t].price = look[e]
    <3>1. serial'[t] = apply(serial[t], Found(e))
      BY <2>1, SerialAt
    <3> QED
      BY <2>2, <3>1, FoundType DEF apply, Or
  <2>6. t \notin crossed => newest'[t] = look[e]
    <3>1. t \notin crossed => newest[t] <= look[e]
      BY <2>1 DEF FreshInv
    <3>2. newest[t] \in Nat /\ look[e] \in Nat
      BY <1>0
    <3> QED
      BY <2>4, <3>1, <3>2
  <2>7. \A u \in Tokens : newest'[u] <= chain[u]
    BY <2>2, <2>3, <2>4 DEF FreshInv
  <2>8. \A u \in Tokens \ crossed : serial'[u].price = newest'[u]
    BY <2>3, <2>5, <2>6 DEF FreshInv
  <2>9. ASSUME NEW d \in Events, pc'[d] = "send", About[d] \notin crossed
        PROVE  /\ newest'[About[d]] <= look[d]
               /\ \A o \in Events : pc'[o] = "send" /\ About[o] = About[d] => o = d
    <3>1. d # e /\ pc[d] = "send"
      BY <1>0, <2>1, <2>9
    <3>2. About[d] # t
      BY <2>1, <2>9, <3>1 DEF FreshInv
    <3> QED
      BY <1>0, <2>1, <2>3, <2>9, <3>1, <3>2 DEF FreshInv
  <2>10. \A o \in Events : pc'[o] = "send" => look[o] # 0 /\ look[o] <= chain[About[o]]
    BY <1>0, <2>1 DEF FreshInv
  <2> QED
    BY <2>1, <2>7, <2>8, <2>9, <2>10 DEF FreshInv
<1>7. ASSUME NEW t \in Tokens, OpenTrade(t) \/ CloseTrade(t) PROVE FreshInv'
  BY <1>1, <1>7 DEF OpenTrade, CloseTrade, writervars, taskvars
<1>8. ASSUME NEW t \in Tokens, ChainMoves(t) PROVE FreshInv'
  <2>1. /\ UNCHANGED <<pc, look, newest, crossed, serial>>
        /\ chain' = [chain EXCEPT ![t] = @ + 1]
    BY <1>8 DEF ChainMoves, writervars, taskvars
  <2>2. \A u \in Tokens : chain[u] <= chain'[u] /\ chain[u] \in Nat /\ chain'[u] \in Nat
    BY <1>0, <2>1
  <2>3. /\ \A u \in Tokens : newest[u] \in Nat
        /\ \A e \in Events : look[e] \in Nat
    BY <1>0
  <2>4. \A u \in Tokens : newest[u] <= chain'[u]
    BY <2>2, <2>3 DEF FreshInv
  <2>5. \A e \in Events : pc[e] = "send" => look[e] # 0 /\ look[e] <= chain'[About[e]]
    BY <2>2, <2>3 DEF FreshInv
  <2> QED
    BY <2>1, <2>4, <2>5 DEF FreshInv
<1>9. CASE WriterStep /\ UNCHANGED <<taskvars, since, deskvars, outside>>
  BY <1>1, <1>9 DEF WriterStep, Drain, StartFlush, Flush, FlushRefused, taskvars
<1>10. CASE UNCHANGED vars
  BY <1>1, <1>10 DEF vars, writervars, taskvars
<1> QED
  BY <1>2, <1>3, <1>4, <1>5, <1>6, <1>7, <1>8, <1>9, <1>10 DEF Next, TaskStep

\* No update takes the price or the initial pool of a row away.
LEMMA PricedKept ==
    ASSUME NEW row \in Fields, NEW new \in Fields, row.price # 0, row.init # 0
    PROVE  apply(row, new).price # 0 /\ apply(row, new).init # 0
BY DEF Fields, apply, Or

\* The order for a creation follows on its price and its initial pool, the trade on
\* the order, and everything that the stream reports of the token on the trade.
LEMMA PricedStep == TypeOK /\ FreshInv /\ PricedInv /\ [Next]_vars => PricedInv'
<1> SUFFICES ASSUME TypeOK, FreshInv, PricedInv, [Next]_vars PROVE PricedInv'
  OBVIOUS
<1> USE AboutType, IngestAssumption DEF Goto, deskvars, outside
<1>0. /\ pc \in [Events -> Places] /\ look \in [Events -> 0..MaxLooks]
      /\ desk \in [Tokens -> {"none", "open", "over"}] /\ ordered \subseteq Events
      /\ serial \in [Tokens -> Fields] /\ Swaps \subseteq Events /\ Creations \subseteq Events
  BY DEF TypeOK, WriterTypeOK, Places, Events
<1> DEFINE Same == UNCHANGED <<desk, ordered, serial>>
<1>1. ASSUME Same, NEW e \in Events, NEW place \in Places \ {"order"},
             pc' = [pc EXCEPT ![e] = place], pc[e] # "order",
             e \in Swaps => place = "done" \/ desk[About[e]] # "none"
      PROVE  PricedInv'
  <2>1. \A o \in Events : Sent(o)' => Sent(o)
    BY <1>0, <1>1 DEF Sent
  <2>2. \A t \in Tokens : Priced(t)' <=> Priced(t)
    BY <1>1 DEF Priced
  <2> QED
    BY <1>0, <1>1, <2>1, <2>2 DEF PricedInv
<1>2. ASSUME NEW e \in Events, InsertToken(e) PROVE PricedInv'
  <2>1. Same /\ e \notin Swaps /\ pc[e] = "idle"
        /\ \E place \in {"done", "enrich"} : pc' = [pc EXCEPT ![e] = place]
    BY <1>2 DEF InsertToken
  <2> QED
    BY <1>1, <2>1 DEF Places
<1>3. ASSUME NEW e \in Events, SeeSwap(e) PROVE PricedInv'
  <2>1. Same /\ pc[e] = "idle"
        /\ pc' = [pc EXCEPT ![e] = IF desk[About[e]] = "open" THEN "select" ELSE "done"]
    BY <1>3 DEF SeeSwap, writervars
  <2> QED
    BY <1>1, <2>1 DEF Places
<1>4. ASSUME NEW e \in Events,
             SelectToken(e) \/ Throttle(e) \/ FirstThrottle(e) \/ Enrich(e) \/ EnrichError(e)
      PROVE  PricedInv'
  <2>1. Same /\ pc[e] \in {"select", "throttle", "first", "enrich"}
        /\ \E place \in Places \ {"order"} : pc' = [pc EXCEPT ![e] = place]
    BY <1>4 DEF SelectToken, Throttle, FirstThrottle, Enrich, EnrichError, writervars, Places
  <2>2. e \in Swaps => desk[About[e]] # "none"
    BY <2>1 DEF PricedInv
  <2> QED
    BY <1>1, <2>1, <2>2
<1>5. ASSUME NEW e \in Events, CountSwap(e) \/ SendEnriched(e) PROVE PricedInv'
  <2>1. PICK new \in Fields, place \in {"throttle", "order"} :
           /\ send(About[e], new) /\ pc' = [pc EXCEPT ![e] = place]
           /\ UNCHANGED <<desk, ordered>> /\ pc[e] \notin {"idle", "done"}
           /\ place = "order" => new = Found(e) /\ pc[e] = "send"
           /\ pc[e] # "order"
    <3>1. CASE CountSwap(e)
      BY <3>1, OneType DEF CountSwap, One
    <3>2. CASE SendEnriched(e)
      BY <3>2, FoundType DEF SendEnriched, Found
    <3> QED
      BY <1>5, <3>1, <3>2
  <2>2. /\ serial'[About[e]] = apply(serial[About[e]], new)
        /\ \A t \in Tokens \ {About[e]} : serial'[t] = serial[t]
    BY <2>1, SerialAt
  <2>3. \A t \in Tokens : Priced(t) => Priced(t)'
    BY <1>0, <2>2, PricedKept DEF Priced
  <2>4. place = "order" => Priced(About[e])'
    <3> SUFFICES ASSUME place = "order" PROVE Priced(About[e])'
      OBVIOUS
    <3>1. new = Found(e) /\ look[e] # 0
      BY <2>1 DEF FreshInv
    <3>2. serial'[About[e]].price # 0
      BY <2>2, <3>1, FoundType DEF apply, Or
    <3>3. CASE e \in Creations
      <4>1. serial'[About[e]].init # 0
        BY <2>2, <3>1, <3>3, FoundType DEF apply, Or
      <4> QED
        BY <3>2, <4>1 DEF Priced
    <3>4. CASE e \in Swaps
      BY <2>1, <2>3, <3>4 DEF PricedInv
    <3> QED
      BY <3>3, <3>4 DEF Events
  <2>5. \A o \in Events : Sent(o)' => Sent(o) \/ (o = e /\ place = "order")
    BY <1>0, <2>1 DEF Sent
  <2>6. \A o \in Swaps : pc'[o] \notin {"idle", "done"} => pc[o] \notin {"idle", "done"}
    BY <1>0, <2>1
  <2> QED
    BY <1>0, <2>1, <2>3, <2>4, <2>5, <2>6 DEF PricedInv
<1>6. ASSUME NEW e \in Events, Order(e) PROVE PricedInv'
  <2>1. /\ UNCHANGED <<desk, serial>> /\ pc[e] = "order" /\ ordered' = ordered \cup {e}
        /\ pc' = [pc EXCEPT ![e] = "done"]
    BY <1>6 DEF Order, writervars
  <2>2. \A o \in Events : Sent(o)' => Sent(o)
    BY <1>0, <2>1 DEF Sent
  <2>3. \A t \in Tokens : Priced(t)' <=> Priced(t)
    BY <2>1 DEF Priced
  <2> QED
    BY <1>0, <2>1, <2>2, <2>3 DEF PricedInv
<1>7. ASSUME NEW t \in Tokens, OpenTrade(t) \/ CloseTrade(t) PROVE PricedInv'
  <2>1. /\ UNCHANGED <<pc, serial, ordered>>
        /\ \E state \in {"open", "over"} : desk' = [desk EXCEPT ![t] = state]
        /\ desk[t] = "none" => \E e \in ordered : About[e] = t
    BY <1>7 DEF OpenTrade, CloseTrade, writervars, taskvars
  <2>2. Priced(t)
    BY <1>0, <2>1 DEF PricedInv, Sent
  <2>3. \A u \in Tokens : desk'[u] # "none" => desk[u] # "none" \/ u = t
    BY <1>0, <2>1
  <2>4. \A u \in Tokens : desk[u] # "none" => desk'[u] # "none"
    BY <1>0, <2>1
  <2>5. /\ \A u \in Tokens : Priced(u)' <=> Priced(u)
        /\ \A e \in Events : Sent(e)' <=> Sent(e)
    BY <2>1 DEF Priced, Sent
  <2> QED
    BY <1>0, <2>1, <2>2, <2>3, <2>4, <2>5 DEF PricedInv
<1>8. CASE UNCHANGED <<pc, desk, ordered, serial>>
  BY <1>8 DEF PricedInv, Priced, Sent
<1>9. ASSUME NEW t \in Tokens, ChainMoves(t) PROVE PricedInv'
  BY <1>8, <1>9 DEF ChainMoves, writervars, taskvars
<1>10. CASE WriterStep /\ UNCHANGED <<taskvars, since, deskvars, outside>>
  BY <1>8, <1>10 DEF WriterStep, Drain, StartFlush, Flush, FlushRefused, taskvars
<1>11. CASE UNCHANGED vars
  BY <1>8, <1>11 DEF vars, writervars, taskvars
<1> QED
  BY <1>2, <1>3, <1>4, <1>5, <1>6, <1>7, <1>9, <1>10, <1>11 DEF Next, TaskStep

-----------------------------------------------------------------------------
(* What follows *)

\* The invariant holds whatever the scheduler, the chain and the database do.
LEMMA IngestInvariant == Spec => []IngestInv
<1>1. IngestInv /\ [Next]_vars => IngestInv'
  BY TypeStep, RowStep, OnceStep, PoolStep, SerialStep, FreshStep, PricedStep DEF IngestInv
<1> QED
  BY InvInit, <1>1, PTL DEF Spec

\* A token is handed to the desk for its creation once, however often the stream
\* reports that creation: only one task inserts the row.
THEOREM OrderedOnceHolds == Spec => []OrderedOnce
<1>1. IngestInv => OrderedOnce
  BY DEF IngestInv, OnceInv, OrderedOnce, Winner, Events
<1> QED
  BY IngestInvariant, <1>1, PTL

\* Coalescing the updates of a token in the writer's map gives the row that writing
\* each at once would have given, for any capacity and any size of a batch.
THEOREM AsIfSerialHolds == Spec => []AsIfSerial
<1>1. IngestInv => AsIfSerial
  BY DEF IngestInv, SerialInv, AsIfSerial, Alike
<1> QED
  BY IngestInvariant, <1>1, PTL

\* Nothing is left to reach the row of a token that is settled.
LEMMA OutlookSettled ==
    ASSUME TypeOK, NEW t \in Tokens, Settled(t)
    PROVE  Outlook(t) = table[t]
<1>1. WriterTypeOK /\ channel \in Seq(Updates)
  BY DEF TypeOK, WriterTypeOK, Updates
<1>2. Waiting(batch, t) = Blank /\ Waiting(pending, t) = Blank
  BY DEF Settled, Waiting
<1>3. table[t] \in Fields
  BY <1>1 DEF WriterTypeOK
<1>4. apply(apply(table[t], Blank), Blank) = table[t]
  BY <1>3, ApplyBlank
<1>5. \A n \in 1..Len(channel) : channel[n].token # t
  BY <1>1 DEF Settled
<1>6. After(t, table[t], channel) = table[t]
  BY <1>1, <1>3, <1>5, AfterNone
<1> QED
  BY <1>2, <1>4, <1>6 DEF Outlook

\* Once all that was sent of a token is written, its row has the newest price that an
\* enrichment has sent, unless enrichments overlapped or a batch was refused.
THEOREM PriceIsNewestHolds == Spec => []PriceIsNewest
<1>1. IngestInv => PriceIsNewest
  <2> SUFFICES ASSUME IngestInv, NEW t \in Tokens \ (lost \cup crossed), Settled(t)
               PROVE  table[t].price = newest[t]
    BY DEF PriceIsNewest
  <2>1. Outlook(t) = table[t]
    BY OutlookSettled DEF IngestInv
  <2>2. Outlook(t).price = serial[t].price
    BY DEF IngestInv, SerialInv, Alike
  <2>3. serial[t].price = newest[t]
    BY DEF IngestInv, FreshInv
  <2> QED
    BY <2>1, <2>2, <2>3
<1> QED
  BY IngestInvariant, <1>1, PTL

\* The desk gets a token only with its price and its initial pool written or under way.
THEOREM OrderedIsPricedHolds == Spec => []OrderedIsPriced
<1>1. IngestInv => OrderedIsPriced
  <2> SUFFICES ASSUME IngestInv, NEW e \in ordered, About[e] \notin lost
               PROVE  Outlook(About[e]).price # 0 /\ Outlook(About[e]).init # 0
    BY DEF OrderedIsPriced
  <2>1. e \in Events /\ About[e] \in Tokens
    BY AboutType DEF IngestInv, TypeOK
  <2>2. Priced(About[e])
    BY <2>1 DEF IngestInv, PricedInv, Sent
  <2>3. Alike(Outlook(About[e]), serial[About[e]])
    BY <2>1 DEF IngestInv, SerialInv
  <2> QED
    BY <2>2, <2>3 DEF Priced, Alike
<1> QED
  BY IngestInvariant, <1>1, PTL
===============================================================================
