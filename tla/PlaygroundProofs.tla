-------------------------- MODULE PlaygroundProofs --------------------------
(* Proofs about Playground, for any number of requests, pieces, edits and  *)
(* pages and a queue of any length.                                        *)
EXTENDS Playground, SequenceTheorems, FiniteSetTheorems, WellFoundedInduction, TLAPS

-----------------------------------------------------------------------------
(* The inductive invariant.                                                *)

Piece   == Nat \X Nat
MsgKey  == {"user", "assistant"} \X Nat
Msg     == [from : {"user", "assistant"}, id : Nat,
            status : {"none", "loading", "streaming", "complete", "error"},
            text : Seq(Piece), edited : BOOLEAN]
Req     == [phase : {"headers", "sent", "open", "over"}, got : Nat,
            whole : BOOLEAN, raced : BOOLEAN]
Filling == {"append", "complete", "error", "answer"}
Upd     == [op : Filling \cup {"set", "computed", "remove"}, gen : Nat,
            val : Seq(Msg) \cup Seq(Piece) \cup MsgKey]
Flag    == [req : BOOLEAN, str : BOOLEAN]
Box     == [queue : Seq(Upd), latest : Seq(Msg), saving : BOOLEAN]

\* The conversation that the next render will show.
Coming == Rendered(box.queue, msgs, gen)

Shapes ==
    /\ mounted \in BOOLEAN /\ synced \in BOOLEAN
    /\ msgs \in Seq(Msg) /\ stored \in Seq(Msg)
    /\ ui \in Flag /\ want \in Flag /\ box \in Box
    /\ reqs \in Seq(Req) /\ gen \in 0..Len(reqs) /\ cgen = gen
    /\ buf \in [gen : Nat, text : Seq(Piece)] /\ buf.gen = gen
    /\ editing # <<>> => editing \in MsgKey /\ editing[2] <= Len(reqs)

\* A save is due unless the storage has the latest conversation, or failed.
Due == mounted /\ synced /\ ~box.saving => stored = Trim(box.latest)

\* What waits to be rendered belongs to the generation; only the first update can
\* have been computed at once, and then it is the latest conversation.
Sane(b, ms, g) ==
    /\ \A i \in DOMAIN b.queue :
        IF b.queue[i].op = "computed" THEN i = 1 /\ b.queue[i].val = b.latest
        ELSE b.queue[i].op \in Filling /\ b.queue[i].gen = g
    /\ (b.queue # <<>> /\ b.queue[1].op = "computed") \/ b.latest = ms

Queued == Sane(box, msgs, gen)

\* Is all that arrives of the answer r to be found in its message?
Plain(r, q) == ~q.raced /\ ~Stutters(r, q.got)

InOrder(t) == \A j, k \in DOMAIN t : j < k => t[j][2] < t[k][2]

\* What the text t may hold of the answer r, as far as request q has got.
Parts(t, r, q) ==
    /\ \A k \in DOMAIN t : t[k][1] = r
    /\ ~q.raced => InOrder(t)
    /\ Plain(r, q) => \A k \in DOMAIN t : t[k][2] = k

\* OwnAnswer, for a message m; as long as its answer may grow it is pending.
Ours(m, rq, g) ==
    /\ m.id \in DOMAIN rq
    /\ m.from = "user" => ~Pending(m)
    /\ m.from = "assistant" =>
        /\ Parts(m.text, m.id, rq[m.id])
        /\ Plain(m.id, rq[m.id]) /\ m.status = "complete" /\ rq[m.id].whole /\ ~m.edited =>
                Len(m.text) = rq[m.id].got
        /\ m.id = g /\ rq[m.id].phase # "over" => Pending(m)

\* A pending message that no answer will end was left by an edit.
Waits(m, rq) == Pending(m) => rq[m.id].raced

\* Only the last message may be waiting for its answer.
Talk(ms, rq, g) ==
    \A i \in DOMAIN ms : Ours(ms[i], rq, g) /\ (i # Len(ms) => Waits(ms[i], rq))

Talks == \A ms \in {msgs, box.latest, stored, Coming} : Talk(ms, reqs, gen)

\* The flags end with the answer, and nothing is buffered or queued without them.
Flags ==
    /\ want.req => ui.req
    /\ ui.str => ui.req
    /\ want.str => want.req
    /\ \A r \in DOMAIN reqs : reqs[r].phase = "sent" => r = gen
    /\ gen # 0 /\ reqs[gen].phase # "over" => want.req
    /\ gen # 0 /\ reqs[gen].phase \in {"headers", "sent"} =>
            ~want.str /\ buf.text = <<>> /\ reqs[gen].got = 0
    /\ box.queue # <<>> => ui.req
    /\ buf.text # <<>> => want.req

Open(ms, g) == ms # <<>> /\ ms[Len(ms)].from = "assistant" /\ ms[Len(ms)].id = g

\* The message being filled is the last one, and is not the one in the editor.
Live ==
    IF ui.req
      THEN /\ gen # 0 /\ Open(msgs, gen) /\ Open(box.latest, gen) /\ Open(Coming, gen)
           /\ Pending(Last(msgs))
           /\ want.req <=> Pending(Last(Coming))
           /\ editing # <<"assistant", gen>>
      ELSE \A i \in DOMAIN msgs : Waits(msgs[i], reqs)

\* The pieces b, which are buffered, come after those of the text t, which is
\* rendered or queued; of a plain answer the two make up what has arrived.
Arrived(t, b, r, q) ==
    /\ \A k \in DOMAIN b : b[k][1] = r
    /\ ~q.raced =>
        /\ \A k \in DOMAIN t : t[k][2] <= q.got
        /\ \A k \in DOMAIN b : b[k][2] <= q.got
        /\ \A j \in DOMAIN t, k \in DOMAIN b : t[j][2] < b[k][2]
        /\ InOrder(b)
    /\ Plain(r, q) =>
        /\ \A k \in DOMAIN b : b[k][2] = Len(t) + k
        /\ Len(t) + Len(b) = q.got

Buffered == want.req => Arrived(Last(Coming).text, buf.text, gen, reqs[gen])

Away ==
    ~mounted =>
        /\ gen = 0 /\ ui = Off /\ want = Off /\ buf.text = <<>> /\ box.queue = <<>>
        /\ editing = <<>>
        /\ \A r \in DOMAIN reqs : reqs[r].phase = "over" /\ ~reqs[r].whole

\* The inductive invariant.  Talks is OwnAnswer for whatever may become visible;
\* Live and Buffered make it inductive for the answer that is being filled, and
\* Due and Queued are Saved with updates still waiting.
ChatInv ==
    /\ Shapes /\ Coming \in Seq(Msg)
    /\ Due /\ Queued
    /\ Talks
    /\ Flags /\ Live /\ Buffered
    /\ Away

-----------------------------------------------------------------------------
(* Induction, with a set in the place of the predicate.                    *)

LEMMA LeastNumber ==
  ASSUME NEW T \in SUBSET Nat, T # {}
  PROVE  \E x \in T : \A y \in T : x <= y
  <1>1. IsWellFoundedOn(OpToRel(<, Nat), Nat)
    BY NatLessThanWellFounded
  <1>2. PICK x \in T : \A y \in T : ~(<<y, x>> \in OpToRel(<, Nat))
    BY <1>1, WFMin
  <1>3. \A y \in T : y < x => <<y, x>> \in OpToRel(<, Nat)
    BY DEF OpToRel
  <1>4. \A y \in T : ~(y < x)
    BY <1>2, <1>3
  <1>5. \A y \in T : y \in Nat /\ x \in Nat
    OBVIOUS
  <1>6. \A y \in T : x <= y
    BY <1>4, <1>5
  <1> QED BY <1>6

\* Induction along 0..n, for a set in the place of the predicate.
LEMMA Induct ==
  ASSUME NEW n \in Nat, NEW T, 0 \in T, \A i \in 1..n : i - 1 \in T => i \in T
  PROVE  \A i \in 0..n : i \in T
  <1> DEFINE B == {i \in 0..n : i \notin T}
  <1> SUFFICES ASSUME B # {} PROVE FALSE
    OBVIOUS
  <1>1. B \in SUBSET Nat
    OBVIOUS
  <1> HIDE DEF B
  <1>2. PICK x \in B : \A y \in B : x <= y
    BY <1>1, LeastNumber
  <1>3. x \in 0..n /\ x \notin T /\ x # 0
    BY DEF B
  <1>4. x - 1 \notin B
    BY <1>2, <1>3, <1>1
  <1>5. x - 1 \in T
    BY <1>3, <1>4 DEF B
  <1> QED BY <1>3, <1>5

\* The conversation after the first i updates of q, for every i.
Steps(f, q, ms, g, n) ==
    f = [i \in 0..n |-> IF i = 0 THEN ms ELSE Evaluate(q[i], f[i - 1], g)]

LEMMA StepsExist ==
  ASSUME NEW q, Len(q) \in Nat, NEW ms, NEW g
  PROVE  \E f : Steps(f, q, ms, g, Len(q))
  <1> DEFINE T == {n \in 0..Len(q) : \E f : Steps(f, q, ms, g, n)}
  <1>1. 0 \in T
    <2>1. Steps([i \in 0..0 |-> ms], q, ms, g, 0)
      BY DEF Steps
    <2> QED BY <2>1
  <1>2. ASSUME NEW i \in 1..Len(q), i - 1 \in T PROVE i \in T
    <2>1. PICK f : Steps(f, q, ms, g, i - 1)
      BY <1>2
    <2> DEFINE h == [k \in 0..i |-> IF k = i THEN Evaluate(q[i], f[i - 1], g) ELSE f[k]]
    <2>2. ASSUME NEW k \in 0..i PROVE h[k] = IF k = 0 THEN ms ELSE Evaluate(q[k], h[k - 1], g)
      <3>1. CASE k = i
        BY <3>1
      <3>2. CASE k # i
        <4>1. k \in 0..(i - 1) /\ h[k] = f[k]
          BY <3>2
        <4>2. f[k] = IF k = 0 THEN ms ELSE Evaluate(q[k], f[k - 1], g)
          BY <4>1, <2>1 DEF Steps
        <4>3. k # 0 => h[k - 1] = f[k - 1]
          BY <4>1
        <4> QED BY <4>1, <4>2, <4>3
      <3> QED BY <3>1, <3>2
    <2>3. Steps(h, q, ms, g, i)
      BY <2>2 DEF Steps
    <2> QED BY <2>3
  <1> HIDE DEF T
  <1>3. \A i \in 0..Len(q) : i \in T
    BY <1>1, <1>2, Induct
  <1>4. Len(q) \in T
    BY <1>3
  <1> QED BY <1>4 DEF T

LEMMA RenderedSteps ==
  ASSUME NEW q, Len(q) \in Nat, NEW ms, NEW g
  PROVE  \E f : /\ Steps(f, q, ms, g, Len(q))
                /\ Rendered(q, ms, g) = f[Len(q)]
  <1> DEFINE f == CHOOSE h : Steps(h, q, ms, g, Len(q))
  <1>1. Steps(f, q, ms, g, Len(q))
    BY StepsExist
  <1>2. Rendered(q, ms, g) = f[Len(q)]
    BY DEF Rendered, Steps
  <1> QED BY <1>1, <1>2

LEMMA RenderedEmpty ==
  ASSUME NEW ms, NEW g
  PROVE  Rendered(<<>>, ms, g) = ms
  <1>1. Len(<<>>) = 0
    OBVIOUS
  <1>2. PICK f : Steps(f, <<>>, ms, g, Len(<<>>)) /\ Rendered(<<>>, ms, g) = f[Len(<<>>)]
    BY <1>1, RenderedSteps
  <1>3. f[0] = ms
    BY <1>1, <1>2 DEF Steps
  <1> QED BY <1>1, <1>2, <1>3

LEMMA RenderedAppend ==
  ASSUME NEW S, NEW q \in Seq(S), NEW u \in S, NEW ms, NEW g
  PROVE  Rendered(Append(q, u), ms, g) = Evaluate(u, Rendered(q, ms, g), g)
  <1> DEFINE n == Len(q)
             p == Append(q, u)
  <1>1. n \in Nat /\ Len(p) = n + 1 /\ p[n + 1] = u /\ \A i \in 1..n : p[i] = q[i]
    BY AppendProperties, LenProperties
  <1>2. PICK f : Steps(f, q, ms, g, n) /\ Rendered(q, ms, g) = f[n]
    BY <1>1, RenderedSteps
  <1>3. PICK h : Steps(h, p, ms, g, n + 1) /\ Rendered(p, ms, g) = h[n + 1]
    <2>1. Len(p) \in Nat
      BY <1>1
    <2> HIDE DEF p
    <2>2. \E h : Steps(h, p, ms, g, Len(p)) /\ Rendered(p, ms, g) = h[Len(p)]
      BY <2>1, RenderedSteps
    <2> QED BY <1>1, <2>2
  <1> HIDE DEF p, n
  <1> DEFINE T == {i \in 0..n : h[i] = f[i]}
  <1>4. 0 \in T
    BY <1>1, <1>2, <1>3 DEF Steps
  <1>5. ASSUME NEW i \in 1..n, i - 1 \in T PROVE i \in T
    <2>1. f[i] = Evaluate(q[i], f[i - 1], g)
      BY <1>1, <1>2 DEF Steps
    <2>2. h[i] = Evaluate(p[i], h[i - 1], g)
      BY <1>1, <1>3 DEF Steps
    <2>3. h[i - 1] = f[i - 1] /\ p[i] = q[i]
      BY <1>1, <1>5
    <2> QED BY <2>1, <2>2, <2>3, <1>1
  <1> HIDE DEF T
  <1>6. \A i \in 0..n : i \in T
    BY <1>1, <1>4, <1>5, Induct
  <1>7. h[n] = f[n]
    BY <1>1, <1>6 DEF T
  <1>8. h[n + 1] = Evaluate(p[n + 1], h[n], g)
    BY <1>1, <1>3 DEF Steps
  <1> QED BY <1>1, <1>2, <1>3, <1>7, <1>8 DEF p

LEMMA RenderedOne ==
  ASSUME NEW u, NEW ms, NEW g
  PROVE  Rendered(Append(<<>>, u), ms, g) = Evaluate(u, ms, g)
  <1> DEFINE e == <<>>
  <1>1. e \in Seq({u}) /\ u \in {u}
    BY EmptySeq
  <1>2. Rendered(e, ms, g) = ms
    BY RenderedEmpty
  <1> HIDE DEF e
  <1>3. Rendered(Append(e, u), ms, g) = Evaluate(u, Rendered(e, ms, g), g)
    BY ONLY <1>1, RenderedAppend
  <1> QED BY <1>2, <1>3 DEF e

\* Where nothing in the queue belongs to the generation, only a conversation that
\* was computed at once can come out of it.
LEMMA RenderedOther ==
  ASSUME NEW S, NEW q \in Seq(S), NEW ms, NEW g, NEW L,
         \A i \in DOMAIN q :
            \/ q[i].op = "computed" /\ q[i].val = L
            \/ q[i].op \in {"append", "complete", "error", "answer"} /\ q[i].gen # g
  PROVE  Rendered(q, ms, g) \in {ms, L}
  <1> DEFINE n == Len(q)
  <1>1. n \in Nat /\ DOMAIN q = 1..n
    BY LenProperties
  <1>2. PICK f : Steps(f, q, ms, g, n) /\ Rendered(q, ms, g) = f[n]
    BY <1>1, RenderedSteps
  <1> HIDE DEF n
  <1> DEFINE T == {i \in 0..n : f[i] \in {ms, L}}
  <1>3. 0 \in T
    BY <1>1, <1>2 DEF Steps
  <1>4. ASSUME NEW i \in 1..n, i - 1 \in T PROVE i \in T
    <2>1. f[i] = Evaluate(q[i], f[i - 1], g)
      BY <1>1, <1>2 DEF Steps
    <2>2. Evaluate(q[i], f[i - 1], g) \in {f[i - 1], L}
      <3>1. i \in DOMAIN q
        BY <1>1
      <3>2. CASE q[i].op = "computed" /\ q[i].val = L
        BY <3>2 DEF Evaluate
      <3>3. CASE q[i].op \in {"append", "complete", "error", "answer"} /\ q[i].gen # g
        BY <3>3 DEF Evaluate
      <3> QED BY <3>1, <3>2, <3>3
    <2> QED BY <2>1, <2>2, <1>4
  <1> HIDE DEF T
  <1>5. \A i \in 0..n : i \in T
    BY <1>1, <1>3, <1>4, Induct
  <1> QED BY <1>1, <1>2, <1>5 DEF T

LEMMA WithoutSubset ==
  ASSUME NEW S, NEW ms \in Seq(S), NEW key
  PROVE  /\ Without(ms, key) \in Seq(S)
         /\ \A j \in DOMAIN Without(ms, key) : \E i \in DOMAIN ms : Without(ms, key)[j] = ms[i]
  <1> DEFINE R == {ms[i] : i \in DOMAIN ms}
             n == Len(ms)
             Kept(f, k) == f = [i \in 0..k |->
                IF i = 0 THEN <<>>
                ELSE IF Key(ms[i]) = key THEN f[i - 1] ELSE Append(f[i - 1], ms[i])]
  <1>1. n \in Nat /\ DOMAIN ms = 1..n /\ R \subseteq S
    BY LenProperties
  <1> HIDE DEF n, R
  <1>2. \E f : Kept(f, n)
    <2> DEFINE T == {k \in 0..n : \E f : Kept(f, k)}
    <2>1. 0 \in T
      <3>1. Kept([i \in 0..0 |-> <<>>], 0)
        OBVIOUS
      <3> HIDE DEF Kept
      <3> QED BY <3>1, <1>1
    <2>2. ASSUME NEW i \in 1..n, i - 1 \in T PROVE i \in T
      <3>1. PICK f : Kept(f, i - 1)
        BY <2>2
      <3> DEFINE v == IF Key(ms[i]) = key THEN f[i - 1] ELSE Append(f[i - 1], ms[i])
                 h == [k \in 0..i |-> IF k = i THEN v ELSE f[k]]
      <3>2. ASSUME NEW k \in 0..i
            PROVE  h[k] = IF k = 0 THEN <<>>
                          ELSE IF Key(ms[k]) = key THEN h[k - 1] ELSE Append(h[k - 1], ms[k])
        <4>1. CASE k = i
          BY <4>1, <1>1
        <4>2. CASE k # i
          <5>1. k \in 0..(i - 1) /\ h[k] = f[k]
            BY <4>2, <1>1
          <5>2. f[k] = IF k = 0 THEN <<>>
                       ELSE IF Key(ms[k]) = key THEN f[k - 1] ELSE Append(f[k - 1], ms[k])
            BY <5>1, <3>1, <1>1
          <5>3. k # 0 => h[k - 1] = f[k - 1]
            BY <5>1, <1>1
          <5> QED BY <5>1, <5>2, <5>3
        <4> QED BY <4>1, <4>2
      <3>3. Kept(h, i)
        BY <3>2
      <3> HIDE DEF Kept, h
      <3> QED BY <3>3, <1>1
    <2> HIDE DEF T
    <2>3. n \in T
      BY <1>1, <2>1, <2>2, Induct
    <2> QED BY <2>3 DEF T
  <1> DEFINE f == CHOOSE h : Kept(h, n)
  <1>3. Kept(f, n)
    BY <1>2
  <1>4. Without(ms, key) = f[n]
    BY DEF Without, n
  <1> HIDE DEF f
  <1> DEFINE T == {i \in 0..n : f[i] \in Seq(R)}
  <1>5. 0 \in T
    BY <1>1, <1>3
  <1>6. ASSUME NEW i \in 1..n, i - 1 \in T PROVE i \in T
    <2>1. f[i - 1] \in Seq(R) /\ ms[i] \in R
      BY <1>6, <1>1 DEF R
    <2>2. f[i] = IF Key(ms[i]) = key THEN f[i - 1] ELSE Append(f[i - 1], ms[i])
      <3>1. i \in 0..n /\ i # 0
        BY <1>1
      <3>2. f = [k \in 0..n |->
                IF k = 0 THEN <<>>
                ELSE IF Key(ms[k]) = key THEN f[k - 1] ELSE Append(f[k - 1], ms[k])]
        BY <1>3
      <3> HIDE DEF T
      <3> QED BY ONLY <3>1, <3>2
    <2>3. Append(f[i - 1], ms[i]) \in Seq(R)
      BY <2>1, AppendProperties
    <2>4. f[i] \in Seq(R)
      BY <2>1, <2>2, <2>3
    <2> QED BY <2>4, <1>1
  <1> HIDE DEF T
  <1>7. f[n] \in Seq(R)
    <2>1. n \in T
      BY <1>1, <1>5, <1>6, Induct
    <2> QED BY <2>1 DEF T
  <1>8. \A j \in DOMAIN f[n] : f[n][j] \in R
    BY <1>7, LenProperties, ElementOfSeq
  <1>9. f[n] \in Seq(S)
    BY <1>1, <1>7, SeqMonotonic
  <1> QED BY <1>4, <1>8, <1>9 DEF R

-----------------------------------------------------------------------------
(* Messages and conversations.                                             *)

LEMMA SeqFacts ==
  ASSUME NEW S, NEW s \in Seq(S)
  PROVE  /\ Len(s) \in Nat /\ DOMAIN s = 1..Len(s)
         /\ \A i \in DOMAIN s : s[i] \in S
         /\ s # <<>> => Len(s) \in DOMAIN s
         /\ Len(s) = 0 <=> s = <<>>
  BY LenProperties, ElementOfSeq, EmptySeq

\* A concatenation, index by index.
LEMMA Joined ==
  ASSUME NEW S, NEW a \in Seq(S), NEW b \in Seq(S), NEW t, t = a \o b
  PROVE  /\ t \in Seq(S) /\ Len(t) = Len(a) + Len(b) /\ DOMAIN t = 1..(Len(a) + Len(b))
         /\ Len(a) \in Nat /\ Len(b) \in Nat
         /\ DOMAIN a = 1..Len(a) /\ DOMAIN b = 1..Len(b)
         /\ \A k \in DOMAIN t :
              \/ k \in DOMAIN a /\ t[k] = a[k]
              \/ k - Len(a) \in DOMAIN b /\ t[k] = b[k - Len(a)] /\ Len(a) + (k - Len(a)) = k
  <1>2. t \in Seq(S) /\ Len(t) = Len(a) + Len(b)
    BY ConcatProperties
  <1>3. \A i \in 1 .. Len(a) + Len(b) : t[i] = IF i <= Len(a) THEN a[i] ELSE b[i - Len(a)]
    BY ConcatProperties
  <1>4. /\ Len(a) \in Nat /\ Len(b) \in Nat
        /\ DOMAIN a = 1..Len(a) /\ DOMAIN b = 1..Len(b) /\ DOMAIN t = 1..Len(t)
    BY <1>2, SeqFacts
  <1>5. ASSUME NEW k \in DOMAIN t
        PROVE  \/ k \in DOMAIN a /\ t[k] = a[k]
               \/ k - Len(a) \in DOMAIN b /\ t[k] = b[k - Len(a)] /\ Len(a) + (k - Len(a)) = k
    <2>1. CASE k <= Len(a)
      BY <1>2, <1>3, <1>4, <2>1
    <2>2. CASE ~(k <= Len(a))
      BY <1>2, <1>3, <1>4, <2>2
    <2> QED BY <2>1, <2>2
  <1> QED BY <1>2, <1>4, <1>5

\* What is appended of a chunk is its end.
LEMMA ChunkEnd ==
  ASSUME NEW t \in Seq(Piece), NEW b \in Seq(Piece), NEW e, e = Appendable(t, b)
  PROVE  \E n \in 0..Len(b) :
            /\ e \in Seq(Piece) /\ Len(e) = Len(b) - n
            /\ \A k \in DOMAIN e : n + k \in DOMAIN b /\ e[k] = b[n + k]
            /\ ~Repeats(b, t) => n = 0
  <1> DEFINE cut == {k \in DOMAIN b : Len(Words(SubSeq(b, 1, k))) <= Len(Words(t))}
             n == Cardinality(cut)
  <1>1. Len(b) \in Nat /\ DOMAIN b = 1..Len(b) /\ \A k \in DOMAIN b : b[k] \in Piece
    BY SeqFacts
  <1>2. CASE ~Repeats(b, t)
    <2>1. e = b
      BY <1>2 DEF Appendable
    <2>2. 0 \in 0..Len(b) /\ Len(e) = Len(b) - 0 /\ \A k \in DOMAIN e : 0 + k = k
      BY <1>1, <2>1
    <2> QED BY <2>1, <2>2
  <1>3. CASE Repeats(b, t)
    <2>1. e = SubSeq(b, n + 1, Len(b))
      BY <1>3 DEF Appendable
    <2>2. cut \subseteq 1..Len(b)
      BY <1>1
    <2> HIDE DEF cut
    <2>3. n \in 0..Len(b)
      <3>1. IsFiniteSet(1..Len(b)) /\ Cardinality(1..Len(b)) = Len(b)
        <4>1. 1 \in Int /\ Len(b) \in Int /\ (1 > Len(b) => Len(b) = 0) /\ Len(b) - 1 + 1 = Len(b)
          BY <1>1
        <4>2. /\ IsFiniteSet(1..Len(b))
              /\ Cardinality(1..Len(b)) = IF 1 > Len(b) THEN 0 ELSE Len(b) - 1 + 1
          BY ONLY <4>1, FS_Interval
        <4> QED BY <4>1, <4>2
      <3>2. IsFiniteSet(cut) /\ n <= Len(b)
        BY <2>2, <3>1, FS_Subset
      <3>3. n \in Nat
        BY <3>2, FS_CardinalityType
      <3> QED BY <1>1, <3>2, <3>3
    <2> HIDE DEF n
    <2>4. /\ e \in Seq(Piece)
          /\ Len(e) = IF n + 1 <= Len(b) THEN Len(b) - (n + 1) + 1 ELSE 0
          /\ \A i \in 1 .. Len(b) - (n + 1) + 1 : e[i] = b[(n + 1) + i - 1]
      <3>1. \A i \in (n + 1) .. Len(b) : b[i] \in Piece
        BY <1>1, <2>3
      <3>2. n + 1 \in Int /\ Len(b) \in Int
        BY <1>1, <2>3
      <3> QED BY <2>1, <3>1, <3>2, SubSeqProperties
    <2>5. Len(e) = Len(b) - n /\ DOMAIN e = 1..(Len(b) - n)
      <3>1. Len(e) = Len(b) - n
        <4>1. n \in 0..Len(b) /\ Len(b) \in Nat
              /\ Len(e) = IF n + 1 <= Len(b) THEN Len(b) - (n + 1) + 1 ELSE 0
          BY <1>1, <2>3, <2>4
        <4>2. CASE n + 1 <= Len(b)
          BY ONLY <4>1, <4>2
        <4>3. CASE n = Len(b)
          BY ONLY <4>1, <4>3
        <4> QED BY ONLY <4>1, <4>2, <4>3
      <3> QED BY <2>4, <3>1, SeqFacts
    <2>6. ASSUME NEW k \in DOMAIN e PROVE n + k \in DOMAIN b /\ e[k] = b[n + k]
      <3>1. k \in 1..(Len(b) - n) /\ n \in Nat /\ Len(b) \in Nat
        BY <1>1, <2>3, <2>5
      <3>2. k \in 1 .. Len(b) - (n + 1) + 1 /\ (n + 1) + k - 1 = n + k /\ n + k \in 1..Len(b)
        BY ONLY <3>1
      <3>3. e[k] = b[(n + 1) + k - 1]
        BY <2>4, <3>2
      <3> QED BY <1>1, <3>2, <3>3
    <2> QED BY <1>3, <2>3, <2>4, <2>5, <2>6
  <1> QED BY <1>2, <1>3

\* Consecutive pieces of an answer are a run.
LEMMA IsRun ==
  ASSUME NEW r \in Nat, NEW a \in Nat, NEW t \in Seq(Piece),
         \A k \in DOMAIN t : t[k][1] = r /\ t[k][2] = a + k
  PROVE  t = Run(r, a + 1, a + Len(t))
  <1> DEFINE n == Len(t)
             f == [k \in 1..n |-> <<r, a + k>>]
  <1>1. n \in Nat /\ DOMAIN t = 1..n /\ \A k \in DOMAIN t : t[k] \in Piece
    BY SeqFacts
  <1> HIDE DEF n
  <1>2. (a + n) - (a + 1) + 1 = n /\ \A k \in 1..n : (a + 1) + k - 1 = a + k
    BY <1>1
  <1>3. Run(r, a + 1, a + n) = f
    BY <1>2 DEF Run
  <1>4. ASSUME NEW k \in 1..n PROVE t[k] = <<r, a + k>>
    <2>1. t[k] \in Nat \X Nat /\ t[k][1] = r /\ t[k][2] = a + k
      BY <1>1 DEF Piece
    <2>2. \A x \in Nat \X Nat : x = <<x[1], x[2]>>
      OBVIOUS
    <2> QED BY ONLY <2>1, <2>2
  <1>5. t = [k \in 1..n |-> t[k]]
    BY <1>1
  <1> QED BY <1>3, <1>4, <1>5 DEF n

\* The pieces of a plain answer are appended as they come.
LEMMA NoRepeat ==
  ASSUME NEW r \in Nat, NEW a \in Nat, NEW t \in Seq(Piece), NEW b \in Seq(Piece), b # <<>>,
         \A k \in DOMAIN t : t[k][1] = r /\ t[k][2] = a + k,
         \A k \in DOMAIN b : b[k][1] = r /\ b[k][2] = a + Len(t) + k,
         ~Stutters(r, a + Len(t) + Len(b))
  PROVE  ~Repeats(b, t)
  <1> DEFINE n == Len(t)
             l == Len(b)
  <1>1. n \in Nat /\ l \in Nat /\ l # 0 /\ (n = 0 <=> t = <<>>) /\ a + n \in Nat
    BY SeqFacts
  <1>2. t = Run(r, a + 1, a + n)
    BY IsRun
  <1>3. b = Run(r, (a + n) + 1, (a + n) + l)
    BY <1>1, IsRun
  <1> HIDE DEF n, l
  <1>4. CASE n = 0
    BY <1>1, <1>4 DEF Repeats
  <1>5. CASE n # 0
    <2>1. /\ a + n + l \in 1..(a + n + l) /\ a + n \in 1..((a + n + l) - 1) /\ a + 1 \in 1..(a + n)
      BY <1>1, <1>5
    <2>2. ~Repeats(Run(r, (a + n) + 1, a + n + l), Run(r, a + 1, a + n))
      BY <2>1 DEF Stutters, n, l
    <2> QED BY <1>2, <1>3, <2>2
  <1> QED BY <1>4, <1>5

LEMMA StuttersMore ==
  ASSUME NEW r, NEW n \in Nat, ~Stutters(r, n + 1)
  PROVE  ~Stutters(r, n)
  <1>1. 1..n \subseteq 1..(n + 1)
    OBVIOUS
  <1> QED BY <1>1 DEF Stutters

\* A flush: what was buffered is part of the text.
LEMMA Piled ==
  ASSUME NEW r \in Nat, NEW q \in Req, NEW t \in Seq(Piece), NEW b \in Seq(Piece), b # <<>>,
         Parts(t, r, q), Arrived(t, b, r, q), NEW s, s = t \o Appendable(t, b)
  PROVE  /\ s \in Seq(Piece) /\ Parts(s, r, q) /\ Arrived(s, <<>>, r, q)
         /\ Plain(r, q) => Len(s) = q.got
  <1> DEFINE e == Appendable(t, b)
  <1>1. PICK n \in 0..Len(b) :
            /\ e \in Seq(Piece) /\ Len(e) = Len(b) - n
            /\ \A k \in DOMAIN e : n + k \in DOMAIN b /\ e[k] = b[n + k]
            /\ ~Repeats(b, t) => n = 0
    BY ONLY t \in Seq(Piece), b \in Seq(Piece), ChunkEnd
  <1> HIDE DEF e
  <1>2. /\ s \in Seq(Piece) /\ Len(s) = Len(t) + Len(e) /\ DOMAIN s = 1..(Len(t) + Len(e))
        /\ Len(t) \in Nat /\ Len(e) \in Nat /\ DOMAIN t = 1..Len(t) /\ DOMAIN e = 1..Len(e)
        /\ \A k \in DOMAIN s :
              \/ k \in DOMAIN t /\ s[k] = t[k]
              \/ k - Len(t) \in DOMAIN e /\ s[k] = e[k - Len(t)] /\ Len(t) + (k - Len(t)) = k
    <2>1. s = t \o e
      BY DEF e
    <2>2. e \in Seq(Piece)
      BY <1>1
    <2> QED BY ONLY t \in Seq(Piece), <2>1, <2>2, Joined
  <1>3. Len(b) \in Nat /\ DOMAIN b = 1..Len(b) /\ q.got \in Nat
    BY SeqFacts DEF Req
  <1>4. \A k \in DOMAIN s : s[k] \in Piece
    BY <1>2, SeqFacts
  <1>5. ASSUME NEW k \in DOMAIN s PROVE s[k][1] = r
    <2>1. (\A j \in DOMAIN t : t[j][1] = r) /\ (\A j \in DOMAIN b : b[j][1] = r)
      BY DEF Parts, Arrived
    <2>2. \A j \in DOMAIN e : e[j][1] = r
      BY <1>1, <2>1
    <2> QED BY <1>2, <2>1, <2>2
  <1>6. ASSUME ~q.raced PROVE \A k \in DOMAIN s : s[k][2] <= q.got
    <2>1. (\A j \in DOMAIN t : t[j][2] <= q.got) /\ (\A j \in DOMAIN b : b[j][2] <= q.got)
      BY <1>6 DEF Arrived
    <2>2. \A j \in DOMAIN e : e[j][2] <= q.got
      BY <1>1, <2>1
    <2> QED BY <1>2, <2>1, <2>2
  <1>7. ASSUME ~q.raced PROVE InOrder(s)
    <2> SUFFICES ASSUME NEW j \in DOMAIN s, NEW k \in DOMAIN s, j < k PROVE s[j][2] < s[k][2]
      BY DEF InOrder
    <2>1. CASE k \in DOMAIN t /\ s[k] = t[k]
      <3>1. j \in DOMAIN t
        BY <1>2, <2>1
      <3>2. s[j] = t[j]
        <4>1. ~(j - Len(t) \in DOMAIN e)
          BY <1>2, <3>1
        <4> QED BY <1>2, <4>1
      <3> QED BY <1>7, <2>1, <3>1, <3>2 DEF Parts, InOrder
    <2>2. CASE k - Len(t) \in DOMAIN e /\ s[k] = e[k - Len(t)]
      <3>1. n + (k - Len(t)) \in DOMAIN b /\ s[k] = b[n + (k - Len(t))]
        BY <1>1, <2>2
      <3>2. CASE j \in DOMAIN t /\ s[j] = t[j]
        BY <1>7, <3>1, <3>2 DEF Arrived
      <3>3. CASE j - Len(t) \in DOMAIN e /\ s[j] = e[j - Len(t)]
        <4>1. n + (j - Len(t)) \in DOMAIN b /\ s[j] = b[n + (j - Len(t))]
          BY <1>1, <3>3
        <4>2. n + (j - Len(t)) < n + (k - Len(t))
          BY <1>2, <1>3
        <4> QED BY <1>7, <3>1, <4>1, <4>2 DEF Arrived, InOrder
      <3> QED BY <1>2, <3>2, <3>3
    <2> QED BY <1>2, <2>1, <2>2
  <1>8. ASSUME Plain(r, q) PROVE (\A k \in DOMAIN s : s[k][2] = k) /\ Len(s) = q.got
    <2>1. /\ \A k \in DOMAIN t : t[k][1] = r /\ t[k][2] = k
          /\ \A k \in DOMAIN b : b[k][1] = r /\ b[k][2] = Len(t) + k
          /\ Len(t) + Len(b) = q.got
      BY <1>8 DEF Parts, Arrived
    <2>2. ~Repeats(b, t)
      <3>1. \A k \in DOMAIN t : k = 0 + k
        BY <1>2
      <3>2. 0 + Len(t) = Len(t) /\ 0 + Len(t) + Len(b) = q.got
        BY <1>2, <1>3, <2>1
      <3>3. ~Stutters(r, 0 + Len(t) + Len(b))
        BY <1>8, <3>2 DEF Plain
      <3>4. /\ \A k \in DOMAIN t : t[k][1] = r /\ t[k][2] = 0 + k
            /\ \A k \in DOMAIN b : b[k][1] = r /\ b[k][2] = 0 + Len(t) + k
        BY <2>1, <3>1, <3>2
      <3>5. 0 \in Nat
        OBVIOUS
      <3> QED BY <3>3, <3>4, <3>5, NoRepeat
    <2>3. n = 0 /\ Len(e) = Len(b)
      BY <1>1, <1>3, <2>2
    <2>4. \A k \in DOMAIN e : k \in DOMAIN b /\ e[k] = b[k]
      <3>1. \A k \in DOMAIN e : 0 + k = k
        BY <1>2
      <3> QED BY <1>1, <2>3, <3>1
    <2>5. ASSUME NEW k \in DOMAIN s PROVE s[k][2] = k
      <3>1. CASE k \in DOMAIN t /\ s[k] = t[k]
        BY <2>1, <3>1
      <3>2. CASE k - Len(t) \in DOMAIN e /\ s[k] = e[k - Len(t)] /\ Len(t) + (k - Len(t)) = k
        <4>1. k - Len(t) \in DOMAIN b /\ s[k] = b[k - Len(t)]
          BY <2>4, <3>2
        <4>2. b[k - Len(t)][2] = Len(t) + (k - Len(t))
          BY <2>1, <4>1
        <4> QED BY <3>2, <4>1, <4>2
      <3> QED BY <1>2, <3>1, <3>2
    <2> QED BY <1>2, <2>1, <2>3, <2>5
  <1>9. Parts(s, r, q)
    BY <1>5, <1>7, <1>8 DEF Parts
  <1>10. DOMAIN <<>> = {} /\ Len(<<>>) = 0
    BY EmptySeq
  <1>11. Arrived(s, <<>>, r, q)
    <2>1. Plain(r, q) => Len(s) + Len(<<>>) = q.got
      BY <1>3, <1>8, <1>10
    <2> QED BY <1>6, <1>10, <2>1 DEF Arrived, InOrder
  <1> QED BY <1>2, <1>8, <1>9, <1>11

\* Another piece is buffered.
LEMMA Grown ==
  ASSUME NEW r \in Nat, NEW q \in Req, NEW q2 \in Req, NEW t \in Seq(Piece), NEW b \in Seq(Piece),
         Parts(t, r, q), Arrived(t, b, r, q), q2.raced = q.raced, q2.got = q.got + 1,
         NEW c, c = Merged(b, <<<<r, q2.got>>>>)
  PROVE  c \in Seq(Piece) /\ Arrived(t, c, r, q2)
  <1> DEFINE n == q2.got
             p == <<r, n>>
             v == <<p>>
  <1>0. q.got \in Nat /\ n \in Nat /\ n = q.got + 1
    BY DEF Req
  <1> HIDE DEF n
  <1>1. p \in Piece /\ p[1] = r /\ p[2] = n
    BY <1>0 DEF Piece
  <1> HIDE DEF p
  <1>2. v \in Seq(Piece) /\ Len(v) = 1 /\ DOMAIN v = {1} /\ v[1] = p /\ v # <<>>
    BY <1>1
  <1> HIDE DEF v
  <1>3. Len(t) \in Nat /\ DOMAIN t = 1..Len(t) /\ \A k \in DOMAIN t : t[k] \in Piece
    BY SeqFacts
  <1>4. Len(b) \in Nat /\ DOMAIN b = 1..Len(b) /\ \A k \in DOMAIN b : b[k] \in Piece
    BY SeqFacts
  <1>5. \A x \in Piece : x[2] \in Nat
    BY DEF Piece
  <1>6. ASSUME ~q2.raced
        PROVE  /\ \A k \in DOMAIN t : t[k][2] <= q.got /\ t[k][2] < n /\ t[k][2] <= n
               /\ \A k \in DOMAIN b : b[k][2] <= q.got /\ b[k][2] < n /\ b[k][2] <= n
    <2>1. /\ \A k \in DOMAIN t : t[k][2] <= q.got
          /\ \A k \in DOMAIN b : b[k][2] <= q.got
      BY <1>6 DEF Arrived
    <2>2. \A x \in Nat : x <= q.got => x < n /\ x <= n
      BY <1>0
    <2> QED BY <1>3, <1>4, <1>5, <2>1, <2>2
  <1>7. ASSUME Plain(r, q2)
        PROVE  /\ Plain(r, q) /\ ~Repeats(v, b)
               /\ \A k \in DOMAIN b : b[k][2] = Len(t) + k
               /\ Len(t) + Len(b) = q.got
    <2>1. ~Stutters(r, n) /\ ~q.raced
      BY <1>7 DEF Plain, n
    <2>2. Plain(r, q)
      BY <1>0, <2>1, StuttersMore DEF Plain
    <2>3. (\A k \in DOMAIN b : b[k][2] = Len(t) + k) /\ Len(t) + Len(b) = q.got
      BY <2>2 DEF Arrived
    <2>4. \A k \in DOMAIN b : b[k][1] = r
      BY DEF Arrived
    <2>5. /\ \A k \in DOMAIN v : v[k][1] = r /\ v[k][2] = Len(t) + Len(b) + k
          /\ Len(t) + Len(b) + Len(v) = n
      BY <1>0, <1>1, <1>2, <2>3
    <2>6. ~Repeats(v, b)
      BY <1>2, <1>3, <2>1, <2>3, <2>4, <2>5, NoRepeat
    <2> QED BY <2>2, <2>3, <2>6
  <1>8. CASE Repeats(v, b)
    <2>1. c = v
      BY <1>8 DEF Merged, v, p, n
    <2>2. ~Plain(r, q2)
      BY <1>7, <1>8
    <2>3. \A k \in DOMAIN v : v[k] = p
      BY <1>2
    <2>4. InOrder(v)
      BY <1>2 DEF InOrder
    <2>5. \A k \in DOMAIN v : v[k][2] <= n
      BY <1>0, <1>1, <2>3
    <2> QED BY <1>1, <1>2, <1>6, <2>1, <2>2, <2>3, <2>4, <2>5 DEF Arrived, n
  <1>9. CASE ~Repeats(v, b)
    <2>1. c = b \o v
      BY <1>9 DEF Merged, v, p, n
    <2>2. /\ c \in Seq(Piece) /\ Len(c) = Len(b) + Len(v) /\ DOMAIN c = 1..(Len(b) + Len(v))
          /\ Len(b) \in Nat /\ Len(v) \in Nat
          /\ DOMAIN b = 1..Len(b) /\ DOMAIN v = 1..Len(v)
          /\ \A k \in DOMAIN c :
              \/ k \in DOMAIN b /\ c[k] = b[k]
              \/ k - Len(b) \in DOMAIN v /\ c[k] = v[k - Len(b)] /\ Len(b) + (k - Len(b)) = k
      <3>1. v \in Seq(Piece)
        BY <1>2
      <3> QED BY ONLY b \in Seq(Piece), <3>1, <2>1, Joined
    <2>3. \A k \in DOMAIN c : \/ k \in DOMAIN b /\ c[k] = b[k]
                              \/ k = Len(b) + 1 /\ c[k] = p
      BY <1>2, <1>4, <2>2
    <2>4. \A k \in DOMAIN c : c[k][1] = r
      BY <1>1, <2>3 DEF Arrived
    <2>5. ASSUME ~q2.raced
          PROVE  /\ \A k \in DOMAIN c : c[k][2] <= n
                 /\ \A j \in DOMAIN t, k \in DOMAIN c : t[j][2] < c[k][2]
                 /\ InOrder(c)
      <3>1. \A k \in DOMAIN c : c[k][2] <= n
        <4>1. (\A k \in DOMAIN b : b[k][2] <= n) /\ p[2] <= n
          BY <1>0, <1>1, <1>6, <2>5
        <4> QED BY <2>3, <4>1
      <3>2. \A j \in DOMAIN t, k \in DOMAIN c : t[j][2] < c[k][2]
        BY <1>1, <1>6, <2>3, <2>5 DEF Arrived
      <3>3. ASSUME NEW j \in DOMAIN c, NEW k \in DOMAIN c, j < k PROVE c[j][2] < c[k][2]
        <4>1. j \in DOMAIN b /\ c[j] = b[j]
          <5>1. j \in 1..(Len(b) + 1) /\ k \in 1..(Len(b) + 1) /\ Len(b) \in Nat
            BY <1>2, <1>4, <2>2
          <5>2. j # Len(b) + 1
            BY ONLY <3>3, <5>1
          <5> QED BY <2>3, <5>2
        <4>2. CASE k \in DOMAIN b /\ c[k] = b[k]
          BY <2>5, <3>3, <4>1, <4>2 DEF Arrived, InOrder
        <4>3. CASE c[k] = p
          BY <1>1, <1>6, <2>5, <4>1, <4>3
        <4> QED BY <2>3, <4>2, <4>3
      <3>4. InOrder(c)
        BY <3>3 DEF InOrder
      <3> QED BY <3>1, <3>2, <3>4
    <2>6. ASSUME Plain(r, q2)
          PROVE  (\A k \in DOMAIN c : c[k][2] = Len(t) + k) /\ Len(t) + Len(c) = n
      <3>1. Len(t) + (Len(b) + 1) = n /\ Len(c) = Len(b) + 1
        BY <1>0, <1>2, <1>3, <1>4, <1>7, <2>2, <2>6
      <3>2. \A k \in DOMAIN c : c[k][2] = Len(t) + k
        BY <1>1, <1>7, <2>3, <2>6, <3>1
      <3> QED BY <3>1, <3>2
    <2> QED BY <1>6, <2>2, <2>4, <2>5, <2>6 DEF Arrived, n
  <1> QED BY <1>8, <1>9

LEMMA ChangedMsg ==
  ASSUME NEW m \in Msg, NEW u, u.op \in Filling, u.val \in Seq(Piece)
  PROVE  /\ Changed(u, m) \in Msg
         /\ Changed(u, m).from = m.from /\ Changed(u, m).id = m.id
  <1>0. Appendable(m.text, u.val) \in Seq(Piece) /\ m.text \in Seq(Piece)
    BY ChunkEnd DEF Msg
  <1>1. m.text \o Appendable(m.text, u.val) \in Seq(Piece) /\ <<>> \in Seq(Piece)
    BY <1>0, ConcatProperties, EmptySeq
  <1>2. CASE u.op = "append"
    BY <1>1, <1>2 DEF Changed, Msg
  <1>3. CASE u.op = "complete"
    BY <1>3 DEF Changed, Msg
  <1>4. CASE u.op = "error"
    BY <1>1, <1>4 DEF Changed, Msg
  <1>5. CASE u.op = "answer"
    BY <1>5 DEF Changed, Msg
  <1> QED BY <1>2, <1>3, <1>4, <1>5 DEF Filling

LEMMA Evaluated ==
  ASSUME NEW ms \in Seq(Msg), NEW g, NEW h, Open(ms, h),
         NEW u, u.op \in Filling, u.val \in Seq(Piece), u.gen = g
  PROVE  /\ Evaluate(u, ms, g) \in Seq(Msg)
         /\ Len(Evaluate(u, ms, g)) = Len(ms)
         /\ Open(Evaluate(u, ms, g), h)
         /\ Last(ms) \in Msg
         /\ Last(Evaluate(u, ms, g)) = Changed(u, Last(ms))
         /\ \A i \in DOMAIN ms : i # Len(ms) => Evaluate(u, ms, g)[i] = ms[i]
  <1> DEFINE m == Changed(u, ms[Len(ms)])
  <1>1. Len(ms) \in DOMAIN ms /\ DOMAIN ms = 1..Len(ms) /\ Len(ms) \in Nat
    BY SeqFacts DEF Open
  <1>2. ms[Len(ms)] \in Msg /\ Last(ms) = ms[Len(ms)]
    BY <1>1, SeqFacts DEF Last
  <1>3. m \in Msg /\ m.from = ms[Len(ms)].from /\ m.id = ms[Len(ms)].id
    BY <1>2, ChangedMsg
  <1>4. Evaluate(u, ms, g) = UpdateLast(u, ms)
    BY DEF Evaluate, Filling
  <1>5. UpdateLast(u, ms) = [ms EXCEPT ![Len(ms)] = m]
    BY <1>2 DEF UpdateLast, Open
  <1> HIDE DEF m
  <1> DEFINE v == [ms EXCEPT ![Len(ms)] = m]
  <1>6. /\ v \in Seq(Msg) /\ Len(v) = Len(ms)
        /\ \A j \in 1..Len(ms) : v[j] = IF j = Len(ms) THEN m ELSE ms[j]
    BY <1>1, <1>3, ExceptSeq
  <1> HIDE DEF v
  <1>7. Last(v) = m /\ v[Len(v)] = m /\ v # <<>>
    <2>1. Len(v) \in 1..Len(ms)
      BY <1>1, <1>6
    <2>2. v[Len(v)] = m
      BY <1>6, <2>1
    <2>3. Len(v) # 0
      BY <2>1
    <2> QED BY <1>6, <2>2, <2>3, SeqFacts DEF Last
  <1>8. Open(v, h)
    BY <1>3, <1>7 DEF Open
  <1>9. Evaluate(u, ms, g) = v
    BY <1>4, <1>5 DEF v
  <1> QED BY <1>1, <1>2, <1>6, <1>7, <1>8, <1>9 DEF m

\* What becomes of the requests without disturbing a message that is not being
\* filled.
Follows(rq, g, rq2, g2) ==
    \A r \in DOMAIN rq :
        /\ r \in DOMAIN rq2
        /\ rq[r].raced => rq2[r].raced
        /\ Plain(r, rq2[r]) => Plain(r, rq[r])
        /\ rq2[r].whole => \/ rq[r].whole /\ rq2[r].got = rq[r].got
                           \/ r = g /\ rq[r].phase # "over"
        /\ r = g2 /\ rq2[r].phase # "over" => r = g /\ rq[r].phase # "over"

LEMMA OursKept ==
  ASSUME NEW m, NEW rq, NEW g, NEW rq2, NEW g2, Ours(m, rq, g), Follows(rq, g, rq2, g2)
  PROVE  Ours(m, rq2, g2) /\ (Waits(m, rq) => Waits(m, rq2))
  <1>1. m.id \in DOMAIN rq
    BY DEF Ours
  <1>2. /\ m.id \in DOMAIN rq2
        /\ rq[m.id].raced => rq2[m.id].raced
        /\ Plain(m.id, rq2[m.id]) => Plain(m.id, rq[m.id])
        /\ rq2[m.id].whole => \/ rq[m.id].whole /\ rq2[m.id].got = rq[m.id].got
                              \/ m.id = g /\ rq[m.id].phase # "over"
        /\ m.id = g2 /\ rq2[m.id].phase # "over" => m.id = g /\ rq[m.id].phase # "over"
    BY <1>1 DEF Follows
  <1>3. Pending(m) => m.status # "complete"
    BY DEF Pending
  <1> QED BY <1>1, <1>2, <1>3 DEF Ours, Waits, Parts

LEMMA TalkKept ==
  ASSUME NEW ms, NEW rq, NEW g, NEW rq2, NEW g2, Talk(ms, rq, g), Follows(rq, g, rq2, g2)
  PROVE  Talk(ms, rq2, g2)
  BY OursKept DEF Talk

\* Another last message.
LEMMA TalkLast ==
  ASSUME NEW ms \in Seq(Msg), NEW v \in Seq(Msg), NEW rq, NEW g, Talk(ms, rq, g),
         Len(v) = Len(ms), \A i \in DOMAIN ms : i # Len(ms) => v[i] = ms[i],
         Ours(Last(v), rq, g)
  PROVE  Talk(v, rq, g)
  BY SeqFacts DEF Talk, Last

\* A conversation in which nothing waits for its answer.
Ended(ms, rq, g) == \A i \in DOMAIN ms : Ours(ms[i], rq, g) /\ Waits(ms[i], rq)

LEMMA EndedKept ==
  ASSUME NEW ms, NEW rq, NEW g, NEW rq2, NEW g2, Ended(ms, rq, g), Follows(rq, g, rq2, g2)
  PROVE  Ended(ms, rq2, g2)
  BY OursKept DEF Ended

LEMMA EndedTalk ==
  ASSUME NEW ms, NEW rq, NEW g, Ended(ms, rq, g)
  PROVE  Talk(ms, rq, g)
  BY DEF Ended, Talk

LEMMA Asked ==
  ASSUME NEW ms \in Seq(Msg), NEW m \in Msg, NEW rq, NEW g,
         Ended(ms, rq, g), Ours(m, rq, g)
  PROVE  /\ ms \o <<m>> \in Seq(Msg) /\ Talk(ms \o <<m>>, rq, g)
         /\ ms \o <<m>> # <<>> /\ Last(ms \o <<m>>) = m
  <1>1. ms \o <<m>> = Append(ms, m)
    BY AppendIsConcat
  <1> DEFINE v == Append(ms, m)
  <1>2. /\ v \in Seq(Msg) /\ v # <<>> /\ Len(v) = Len(ms) + 1 /\ v[Len(ms) + 1] = m
        /\ \A i \in 1..Len(ms) : v[i] = ms[i]
    BY AppendProperties
  <1> HIDE DEF v
  <1>3. Len(ms) \in Nat /\ DOMAIN ms = 1..Len(ms) /\ DOMAIN v = 1..Len(v)
    BY <1>2, SeqFacts
  <1>4. Last(v) = m
    BY <1>2 DEF Last
  <1>5. ASSUME NEW i \in DOMAIN v PROVE Ours(v[i], rq, g) /\ (i # Len(v) => Waits(v[i], rq))
    BY <1>2, <1>3 DEF Ended
  <1>6. Talk(v, rq, g)
    BY <1>5 DEF Talk
  <1> QED BY <1>1, <1>2, <1>4, <1>6 DEF v

-----------------------------------------------------------------------------
(* Updates that are queued and updates that are rendered.                  *)

LEMMA PutBox ==
  ASSUME NEW b \in Box, NEW u \in Upd, NEW eager \in BOOLEAN,
         Sane(b, msgs, gen), u.op \in Filling, u.gen = gen,
         Evaluate(u, Rendered(b.queue, msgs, gen), gen) \in Seq(Msg)
  PROVE  /\ Put(b, u, gen, eager) \in Box
         /\ Sane(Put(b, u, gen, eager), msgs, gen)
         /\ Put(b, u, gen, eager).queue # <<>>
         /\ Rendered(Put(b, u, gen, eager).queue, msgs, gen)
              = Evaluate(u, Rendered(b.queue, msgs, gen), gen)
         /\ Put(b, u, gen, eager).latest
              \in {b.latest, Evaluate(u, Rendered(b.queue, msgs, gen), gen)}
         /\ \/ Put(b, u, gen, eager).saving
            \/ Put(b, u, gen, eager).latest = b.latest /\ ~b.saving
  <1> DEFINE c == Evaluate(u, Rendered(b.queue, msgs, gen), gen)
             p == Put(b, u, gen, eager)
  <1>0. b.queue \in Seq(Upd) /\ b.latest \in Seq(Msg) /\ b.saving \in BOOLEAN
    BY DEF Box
  <1>1. CASE eager /\ b.queue = <<>>
    <2> DEFINE k == Update("computed", 0, c)
    <2>1. c = Evaluate(u, msgs, gen)
      BY <1>1, RenderedEmpty
    <2>2. p = [queue |-> <<k>>, latest |-> c, saving |-> TRUE]
      BY <1>1, <2>1 DEF Put
    <2>3. k \in Upd /\ k.op = "computed" /\ k.val = c
      BY DEF Update, Upd, Filling
    <2> HIDE DEF k, c
    <2>4. <<k>> = Append(<<>>, k) /\ <<>> \in Seq(Upd)
      BY <2>3, EmptySeq
    <2>5. /\ <<k>> \in Seq(Upd) /\ <<k>> # <<>> /\ Len(<<k>>) = 1 /\ <<k>>[1] = k
          /\ DOMAIN <<k>> = {1}
      BY <2>3
    <2>6. Rendered(<<k>>, msgs, gen) = Evaluate(k, msgs, gen)
      BY ONLY <2>4, RenderedOne
    <2>7. Rendered(<<k>>, msgs, gen) = c
      BY <2>3, <2>6 DEF Evaluate
    <2>8. p \in Box
      BY <2>2, <2>5 DEF Box, c
    <2>9. p.queue = <<k>> /\ p.latest = c /\ p.saving
      BY <2>2
    <2>10. Sane(p, msgs, gen)
      BY <2>3, <2>5, <2>9 DEF Sane
    <2> QED BY <2>5, <2>7, <2>8, <2>9, <2>10 DEF c
  <1>2. CASE ~(eager /\ b.queue = <<>>)
    <2> DEFINE q == Append(b.queue, u)
    <2>1. p = [b EXCEPT !.queue = q]
      BY <1>2 DEF Put
    <2>2. /\ q \in Seq(Upd) /\ q # <<>> /\ Len(q) = Len(b.queue) + 1 /\ q[Len(q)] = u
          /\ \A i \in 1..Len(b.queue) : q[i] = b.queue[i]
      BY <1>0, AppendProperties
    <2>3. Rendered(q, msgs, gen) = c
      BY <1>0, RenderedAppend
    <2> HIDE DEF q, c
    <2>4. /\ p \in Box /\ p.queue = q /\ p.latest = b.latest /\ p.saving = b.saving
      BY <1>0, <2>1, <2>2 DEF Box
    <2>5. /\ Len(b.queue) \in Nat /\ DOMAIN b.queue = 1..Len(b.queue)
          /\ DOMAIN q = 1..Len(q) /\ (Len(b.queue) = 0 <=> b.queue = <<>>)
      BY <1>0, <2>2, SeqFacts
    <2>6. \A i \in DOMAIN q : (i \in DOMAIN b.queue /\ q[i] = b.queue[i]) \/ q[i] = u
      BY <2>2, <2>5
    <2>7. b.queue # <<>> => q[1] = b.queue[1]
      BY <2>2, <2>5
    <2>8. u.op # "computed"
      BY DEF Filling
    <2>9. Sane(p, msgs, gen)
      BY <2>2, <2>4, <2>6, <2>7, <2>8 DEF Sane
    <2> QED BY <2>2, <2>3, <2>4, <2>9, <1>0 DEF c
  <1> QED BY <1>1, <1>2

LEMMA ShowBox ==
  ASSUME NEW b \in Box, NEW g, NEW w, Show(b, g, w)
  PROVE  /\ msgs' = Rendered(b.queue, msgs, g) /\ ui' = w /\ want' = w
         /\ box'.queue = <<>>
         /\ msgs' \in Seq(Msg) => box' \in Box
         /\ (\E i \in DOMAIN b.queue : b.queue[i].op # "computed")
                => box'.latest = msgs' /\ box'.saving = TRUE
         /\ (\A i \in DOMAIN b.queue : b.queue[i].op = "computed")
                => box'.latest = b.latest /\ box'.saving = b.saving
  <1> DEFINE v == Rendered(b.queue, msgs, g)
             d == [b EXCEPT !.queue = <<>>]
             e == \E i \in DOMAIN b.queue : b.queue[i].op # "computed"
  <1>1. /\ msgs' = v /\ ui' = w /\ want' = w
        /\ box' = IF e THEN [d EXCEPT !.latest = v, !.saving = TRUE] ELSE d
    BY DEF Show, Persist
  <1>2. <<>> \in Seq(Upd)
    BY EmptySeq
  <1> HIDE DEF v, e
  <1>3. d \in Box /\ d.queue = <<>> /\ d.latest = b.latest /\ d.saving = b.saving
    BY <1>2 DEF Box
  <1>4. CASE e
    <2>1. box' = [queue |-> <<>>, latest |-> v, saving |-> TRUE]
      BY <1>1, <1>4, <1>3 DEF Box
    <2> QED BY <1>1, <1>2, <1>4, <2>1 DEF Box, e, v
  <1>5. CASE ~e
    BY <1>1, <1>3, <1>5 DEF e, v
  <1> QED BY <1>4, <1>5

\* A render of queued updates leaves the latest conversation on the screen.
LEMMA ShowSane ==
  ASSUME NEW b \in Box, NEW g, NEW w, Show(b, g, w), Sane(b, msgs, g)
  PROVE  /\ box'.latest = msgs'
         /\ box'.saving \/ (box'.latest = b.latest /\ ~b.saving)
  <1>0. b.queue \in Seq(Upd) /\ b.saving \in BOOLEAN
    BY DEF Box
  <1>1. CASE \E i \in DOMAIN b.queue : b.queue[i].op # "computed"
    BY <1>1, ShowBox
  <1>2. CASE \A i \in DOMAIN b.queue : b.queue[i].op = "computed"
    <2>1. /\ msgs' = Rendered(b.queue, msgs, g)
          /\ box'.latest = b.latest /\ box'.saving = b.saving
      BY <1>2, ShowBox
    <2>2. \A i \in DOMAIN b.queue : i = 1 /\ b.queue[i].val = b.latest
      BY <1>2 DEF Sane
    <2>3. Len(b.queue) \in Nat /\ DOMAIN b.queue = 1..Len(b.queue)
      BY <1>0, SeqFacts
    <2>4. CASE b.queue = <<>>
      BY <1>0, <2>1, <2>4, RenderedEmpty DEF Sane
    <2>5. CASE b.queue # <<>>
      <3>1. Len(b.queue) \in DOMAIN b.queue
        BY <1>0, <2>5, SeqFacts
      <3>2. Len(b.queue) = 1 /\ 1 \in DOMAIN b.queue
        BY <2>2, <3>1
      <3> DEFINE k == b.queue[1]
      <3>3. k \in Upd /\ k.op = "computed" /\ k.val = b.latest
        BY <1>0, <1>2, <2>2, <3>2, SeqFacts
      <3>4. b.queue = Append(<<>>, k)
        <4>1. /\ Append(<<>>, k) \in Seq(Upd) /\ Len(Append(<<>>, k)) = 1
              /\ Append(<<>>, k)[1] = k
          BY <3>3
        <4> QED BY <1>0, <3>2, <4>1, SeqEqual
      <3> HIDE DEF k
      <3>5. Rendered(b.queue, msgs, g) = Evaluate(k, msgs, g)
        BY ONLY <3>4, RenderedOne
      <3>6. Rendered(b.queue, msgs, g) = b.latest
        BY <3>3, <3>5 DEF Evaluate
      <3> QED BY <1>0, <2>1, <3>6
    <2> QED BY <2>4, <2>5
  <1> QED BY <1>1, <1>2

\* A click puts its own conversation in the place of everything that waits.
LEMMA ShowSet ==
  ASSUME NEW ms \in Seq(Msg), NEW g, NEW w, box \in Box,
         Show(Put(box, Update("set", 0, ms), gen, FALSE), g, w)
  PROVE  /\ msgs' = ms /\ ui' = w /\ want' = w
         /\ box' \in Box /\ box'.queue = <<>> /\ box'.latest = ms /\ box'.saving = TRUE
  <1> DEFINE u == Update("set", 0, ms)
             b == [box EXCEPT !.queue = Append(@, u)]
  <1>1. Put(box, u, gen, FALSE) = b
    BY DEF Put
  <1>2. u \in Upd /\ u.op = "set" /\ u.val = ms
    BY DEF Update, Upd
  <1> HIDE DEF u
  <1>3. box.queue \in Seq(Upd)
    BY DEF Box
  <1>4. /\ Append(box.queue, u) \in Seq(Upd)
        /\ Len(box.queue) + 1 \in DOMAIN Append(box.queue, u)
        /\ Append(box.queue, u)[Len(box.queue) + 1] = u
    BY <1>2, <1>3, AppendProperties, LenProperties
  <1>5. b \in Box /\ b.queue = Append(box.queue, u)
    BY <1>3, <1>4 DEF Box
  <1> HIDE DEF b
  <1>6. Show(b, g, w)
    BY <1>1 DEF u
  <1>7. Rendered(b.queue, msgs, g) = Evaluate(u, Rendered(box.queue, msgs, g), g)
    BY <1>2, <1>3, <1>5, RenderedAppend
  <1>8. Evaluate(u, Rendered(box.queue, msgs, g), g) = ms
    BY <1>2 DEF Evaluate
  <1>9. \E i \in DOMAIN b.queue : b.queue[i].op # "computed"
    BY <1>2, <1>4, <1>5
  <1>10. msgs' = ms
    BY <1>5, <1>6, <1>7, <1>8, ShowBox
  <1>11. msgs' \in Seq(Msg)
    BY <1>10
  <1>12. box' \in Box /\ box'.queue = <<>> /\ ui' = w /\ want' = w
    <2>1. msgs' \in Seq(Msg) => box' \in Box
      BY ONLY <1>5, <1>6, ShowBox
    <2>2. box'.queue = <<>>
      BY ONLY <1>5, <1>6, ShowBox
    <2>3. ui' = w /\ want' = w
      BY <1>6 DEF Show
    <2> QED BY <1>11, <2>1, <2>2, <2>3
  <1>13. box'.latest = msgs' /\ box'.saving = TRUE
    BY <1>5, <1>6, <1>9, ShowBox
  <1> QED BY <1>10, <1>12, <1>13

LEMMA ShowRemove ==
  ASSUME NEW key \in MsgKey, NEW w, box \in Box, msgs \in Seq(Msg), box.queue = <<>>,
         Show(Put(box, Update("remove", 0, key), gen, FALSE), gen, w)
  PROVE  /\ msgs' = Without(msgs, key) /\ ui' = w /\ want' = w
         /\ box' \in Box /\ box'.queue = <<>> /\ box'.latest = msgs' /\ box'.saving = TRUE
  <1> DEFINE u == Update("remove", 0, key)
             b == [box EXCEPT !.queue = Append(@, u)]
  <1>1. Put(box, u, gen, FALSE) = b
    BY DEF Put
  <1>2. u \in Upd /\ u.op = "remove" /\ u.val = key
    BY DEF Update, Upd
  <1> HIDE DEF u
  <1>3. box.queue \in Seq(Upd)
    BY DEF Box
  <1>4. /\ Append(box.queue, u) \in Seq(Upd)
        /\ Len(box.queue) + 1 \in DOMAIN Append(box.queue, u)
        /\ Append(box.queue, u)[Len(box.queue) + 1] = u
    BY <1>2, <1>3, AppendProperties, LenProperties
  <1>5. b \in Box /\ b.queue = Append(box.queue, u)
    BY <1>3, <1>4 DEF Box
  <1> HIDE DEF b
  <1>6. Show(b, gen, w)
    BY <1>1 DEF u
  <1>7. Rendered(b.queue, msgs, gen) = Evaluate(u, Rendered(box.queue, msgs, gen), gen)
    BY ONLY <1>2, <1>3, <1>5, RenderedAppend
  <1>8. Evaluate(u, Rendered(box.queue, msgs, gen), gen) = Without(msgs, key)
    BY <1>2, RenderedEmpty DEF Evaluate
  <1>9. \E i \in DOMAIN b.queue : b.queue[i].op # "computed"
    BY <1>2, <1>4, <1>5
  <1>10. Without(msgs, key) \in Seq(Msg)
    BY WithoutSubset
  <1>11. msgs' = Without(msgs, key)
    BY <1>5, <1>6, <1>7, <1>8, ShowBox
  <1>12. msgs' \in Seq(Msg)
    BY <1>10, <1>11
  <1>13. box' \in Box /\ box'.queue = <<>> /\ ui' = w /\ want' = w
    <2>1. msgs' \in Seq(Msg) => box' \in Box
      BY ONLY <1>5, <1>6, ShowBox
    <2>2. box'.queue = <<>>
      BY ONLY <1>5, <1>6, ShowBox
    <2>3. ui' = w /\ want' = w
      BY <1>6 DEF Show
    <2> QED BY <1>12, <2>1, <2>2, <2>3
  <1>14. box'.latest = msgs' /\ box'.saving = TRUE
    BY <1>5, <1>6, <1>9, ShowBox
  <1> QED BY <1>11, <1>13, <1>14

-----------------------------------------------------------------------------
(* Kinds of steps.                                                         *)

\* The invariant of a page that has nothing to render.
Rested ==
    /\ mounted = TRUE /\ Shapes /\ Flags
    /\ want = ui /\ box.queue = <<>> /\ box.latest = msgs
    /\ box.saving \/ ~synced \/ stored = Trim(msgs)
    /\ Talk(msgs, reqs, gen) /\ Talk(stored, reqs, gen)
    /\ IF ui.req THEN gen # 0 /\ Open(msgs, gen) /\ Pending(Last(msgs)) /\ editing # <<"assistant", gen>>
       ELSE \A i \in DOMAIN msgs : Waits(msgs[i], reqs)
    /\ ui.req =>
        /\ Arrived(Last(msgs).text, buf.text, gen, reqs[gen])

LEMMA RestedInv ==
  ASSUME Rested'
  PROVE  ChatInv'
  <1>1. Coming' = msgs'
    BY RenderedEmpty DEF Coming, Rested
  <1>2. Shapes' /\ Flags' /\ Due' /\ Away'
    BY DEF Rested, Due, Away
  <1>3. Coming' \in Seq(Msg) /\ DOMAIN (box'.queue) = {}
    BY <1>1, EmptySeq DEF Rested, Shapes
  <1>4. Queued'
    BY <1>3 DEF Rested, Queued, Sane
  <1>5. Talks'
    BY <1>1 DEF Rested, Talks
  <1>6. Live'
    BY <1>1 DEF Rested, Live
  <1>7. Buffered'
    BY <1>1 DEF Rested, Buffered
  <1> QED BY <1>2, <1>3, <1>4, <1>5, <1>6, <1>7 DEF ChatInv

\* A step that queues updates of the answer, or none: the conversation c will be
\* rendered.
LEMMA LaterStep ==
  ASSUME ChatInv, mounted, ui.req, NEW c \in Seq(Msg),
         UNCHANGED <<msgs, ui, gen, cgen, stored, synced, mounted, editing>>,
         box' \in Box, Sane(box', msgs, gen), Rendered(box'.queue, msgs, gen) = c,
         Talk(box'.latest, reqs', gen), Open(box'.latest, gen),
         box'.saving \/ (box'.latest = box.latest /\ ~box.saving),
         reqs' \in Seq(Req), Len(reqs') = Len(reqs), Follows(reqs, gen, reqs', gen),
         \A r \in DOMAIN reqs' : reqs'[r].phase = "sent" => r = gen,
         reqs'[gen].phase # "over" => want'.req,
         reqs'[gen].phase \in {"headers", "sent"} =>
            ~want'.str /\ buf'.text = <<>> /\ reqs'[gen].got = 0,
         buf' \in [gen : Nat, text : Seq(Piece)], buf'.gen = gen, buf'.text # <<>> => want'.req,
         want' \in Flag, want'.str => want'.req, want'.req <=> Pending(Last(c)),
         Talk(c, reqs', gen), Open(c, gen),
         want'.req =>
            /\ Arrived(Last(c).text, buf'.text, gen, reqs'[gen])
  PROVE  ChatInv'
  <1>1. Coming' = c
    BY DEF Coming
  <1>2. Shapes'
    BY DEF ChatInv, Shapes
  <1>3. Due'
    BY DEF ChatInv, Due, Box
  <1>4. Queued'
    BY DEF Queued
  <1>5. Talks'
    <2>1. Talk(msgs, reqs', gen) /\ Talk(stored, reqs', gen)
      BY TalkKept DEF ChatInv, Talks
    <2> QED BY <1>1, <2>1 DEF Talks
  <1>6. Flags'
    BY DEF ChatInv, Flags, Flag
  <1>7. Live'
    BY <1>1 DEF ChatInv, Live
  <1>8. Buffered'
    BY <1>1 DEF Buffered
  <1>9. Away'
    BY DEF Away
  <1> QED BY <1>1, <1>2, <1>3, <1>4, <1>5, <1>6, <1>7, <1>8, <1>9 DEF ChatInv

\* A step of a request that has been overtaken.
LEMMA OldStep ==
  ASSUME ChatInv, UNCHANGED <<screen, gen, cgen, buf, page, editing>>,
         reqs' \in Seq(Req), Len(reqs') = Len(reqs), Follows(reqs, gen, reqs', gen),
         \A r \in DOMAIN reqs' : reqs'[r].phase = "sent" => reqs[r].phase = "sent",
         \A r \in DOMAIN reqs' : reqs'[r].phase # "over" => reqs'[r].phase = reqs[r].phase,
         \A r \in DOMAIN reqs : reqs'[r].got = reqs[r].got /\ reqs'[r].raced = reqs[r].raced
                                /\ reqs'[r].whole = reqs[r].whole
  PROVE  ChatInv'
  <1>1. Coming' = Coming
    BY DEF Coming, screen
  <1>2. Shapes' /\ Coming' \in Seq(Msg) /\ Due' /\ Queued'
    BY <1>1 DEF ChatInv, Shapes, Due, Queued, screen, page
  <1>3. Talks'
    BY <1>1, TalkKept DEF ChatInv, Talks, screen, page
  <1>4. DOMAIN reqs' = DOMAIN reqs /\ (gen # 0 => gen \in DOMAIN reqs)
    BY SeqFacts DEF ChatInv, Shapes
  <1>5. Flags'
    BY <1>4 DEF ChatInv, Flags, screen, page
  <1>6. Talk(msgs, reqs, gen)
    BY DEF ChatInv, Talks
  <1>7. Live'
    BY <1>1, <1>4, <1>6 DEF ChatInv, Live, screen, page, Waits, Talk, Ours
  <1>8. want.req => gen # 0
    BY DEF ChatInv, Flags, Live
  <1>9. Buffered'
    BY <1>1, <1>4, <1>8 DEF ChatInv, Buffered, Arrived, Plain, screen, page
  <1>10. Away'
    BY <1>4 DEF ChatInv, Away, screen, page
  <1> QED BY <1>1, <1>2, <1>3, <1>5, <1>7, <1>9, <1>10 DEF ChatInv

-----------------------------------------------------------------------------
(* The answer that is being filled.                                        *)

\* The message being filled, as it will be rendered.
LEMMA LastComing ==
  ASSUME ChatInv, ui.req
  PROVE  /\ gen \in DOMAIN reqs /\ gen # 0 /\ gen \in Nat
         /\ Last(Coming) \in Msg /\ Ours(Last(Coming), reqs, gen)
         /\ Last(Coming).from = "assistant" /\ Last(Coming).id = gen
         /\ reqs[gen] \in Req
  <1>1. gen # 0 /\ Open(Coming, gen) /\ Coming \in Seq(Msg) /\ Talk(Coming, reqs, gen)
    BY DEF ChatInv, Live, Talks
  <1>2. Len(Coming) \in DOMAIN Coming
    BY <1>1, SeqFacts DEF Open
  <1>3. Last(Coming) = Coming[Len(Coming)] /\ Coming[Len(Coming)] \in Msg
    BY <1>1, <1>2, SeqFacts DEF Last
  <1>4. reqs \in Seq(Req) /\ gen \in 0..Len(reqs)
    BY DEF ChatInv, Shapes
  <1>5. gen \in DOMAIN reqs /\ reqs[gen] \in Req /\ gen \in Nat
    BY <1>1, <1>4, SeqFacts
  <1> QED BY <1>1, <1>2, <1>3, <1>5 DEF Talk, Open

LEMMA FlushBox ==
  ASSUME ChatInv, ui.req, NEW eager \in BOOLEAN, NEW b, b = Flush(gen, eager),
         NEW c, c = Rendered(b.queue, msgs, gen)
  PROVE  /\ b \in Box /\ Sane(b, msgs, gen) /\ c \in Seq(Msg) /\ b.latest \in {box.latest, c}
         /\ b.saving \/ (b.latest = box.latest /\ ~box.saving)
         /\ Talk(c, reqs, gen) /\ Open(c, gen) /\ (want.req <=> Pending(Last(c)))
         /\ want.req =>
              /\ Arrived(Last(c).text, <<>>, gen, reqs[gen])
              /\ Plain(gen, reqs[gen]) => Len(Last(c).text) = reqs[gen].got
  <1>0. /\ box \in Box /\ Sane(box, msgs, gen) /\ Coming \in Seq(Msg) /\ Talk(Coming, reqs, gen)
        /\ Open(Coming, gen) /\ (want.req <=> Pending(Last(Coming))) /\ box.saving \in BOOLEAN
        /\ buf.gen = gen /\ buf.text \in Seq(Piece) /\ gen \in Nat
    BY LastComing DEF ChatInv, Shapes, Queued, Talks, Live, Box
  <1>1. CASE buf.text = <<>>
    <2>1. b = box
      BY <1>1 DEF Flush
    <2>2. c = Coming
      BY <2>1 DEF Coming
    <2>3. want.req => Arrived(Last(c).text, <<>>, gen, reqs[gen])
      BY <1>1, <2>2 DEF ChatInv, Buffered
    <2>4. Last(Coming).text \in Seq(Piece)
      BY LastComing DEF Msg
    <2>5. Len(Last(c).text) \in Nat /\ Len(<<>>) = 0
      BY <2>2, <2>4, SeqFacts
    <2>6. want.req /\ Plain(gen, reqs[gen]) => Len(Last(c).text) = reqs[gen].got
      BY <2>3, <2>5 DEF Arrived
    <2> QED BY <1>0, <2>1, <2>2, <2>3, <2>6
  <1>2. CASE buf.text # <<>>
    <2> DEFINE u == Update("append", gen, buf.text)
               m == Last(Coming)
    <2>1. want.req
      BY <1>2 DEF ChatInv, Flags
    <2>2. b = Put(box, u, gen, eager)
      BY <1>0, <1>2 DEF Flush
    <2>3. u \in Upd /\ u.op = "append" /\ u.op \in Filling /\ u.gen = gen /\ u.val = buf.text
      BY <1>0 DEF Update, Upd, Filling
    <2> HIDE DEF u
    <2> DEFINE e == Evaluate(u, Coming, gen)
    <2>4. /\ e \in Seq(Msg) /\ Len(e) = Len(Coming) /\ Open(e, gen) /\ Last(e) = Changed(u, m)
          /\ \A i \in DOMAIN Coming : i # Len(Coming) => e[i] = Coming[i]
      <3>1. u.val \in Seq(Piece) /\ Coming \in Seq(Msg) /\ Open(Coming, gen)
        BY <1>0, <2>3
      <3> QED BY ONLY <2>3, <3>1, Evaluated
    <2> HIDE DEF e
    <2>5. /\ b \in Box /\ Sane(b, msgs, gen) /\ Rendered(b.queue, msgs, gen) = e
          /\ b.latest \in {box.latest, e}
          /\ b.saving \/ (b.latest = box.latest /\ ~box.saving)
      <3>1. Evaluate(u, Rendered(box.queue, msgs, gen), gen) = e
        BY DEF Coming, e
      <3> QED BY <1>0, <2>2, <2>3, <2>4, <3>1, PutBox
    <2>6. /\ m \in Msg /\ Ours(m, reqs, gen) /\ Pending(m) /\ m.from = "assistant" /\ m.id = gen
          /\ reqs[gen] \in Req /\ m.text \in Seq(Piece) /\ m.status # "error"
      BY <1>0, <2>1, LastComing DEF Pending, Msg
    <2> DEFINE t == m.text \o Appendable(m.text, buf.text)
    <2>7. Last(e) = [m EXCEPT !.text = t, !.status = "streaming"]
      BY <2>3, <2>4, <2>6 DEF Changed
    <2> HIDE DEF m, t
    <2>8. /\ Last(e).text = t /\ Last(e).status = "streaming"
          /\ Last(e).from = "assistant" /\ Last(e).id = gen
      BY <2>6, <2>7 DEF Msg
    <2>9. Arrived(m.text, buf.text, gen, reqs[gen]) /\ Parts(m.text, gen, reqs[gen])
      BY <2>1, <2>6 DEF ChatInv, Buffered, m, Ours
    <2>10. /\ Parts(t, gen, reqs[gen]) /\ Arrived(t, <<>>, gen, reqs[gen])
           /\ Plain(gen, reqs[gen]) => Len(t) = reqs[gen].got
      <3>1. t = m.text \o Appendable(m.text, buf.text)
        BY DEF t
      <3>2. gen \in Nat /\ buf.text \in Seq(Piece) /\ buf.text # <<>>
        BY <1>0, <1>2, <2>6 DEF Msg
      <3>3. reqs[gen] \in Req /\ m.text \in Seq(Piece)
        BY <2>6
      <3> QED BY ONLY <2>9, <3>1, <3>2, <3>3, Piled
    <2>13. Pending(Last(e)) /\ Last(e).status # "complete"
      BY <2>8 DEF Pending
    <2>14. Ours(Last(e), reqs, gen)
      <3>1. gen \in DOMAIN reqs
        BY LastComing
      <3> QED BY <2>8, <2>10, <2>13, <3>1 DEF Ours
    <2>15. Talk(e, reqs, gen)
      BY <1>0, <2>4, <2>14, TalkLast
    <2> QED BY <2>1, <2>4, <2>5, <2>8, <2>10, <2>13, <2>15
  <1> QED BY <1>1, <1>2

\* handleStreamComplete and handleStreamError of the current request.
LEMMA HandleStep ==
  ASSUME ChatInv, want.req, NEW op \in {"complete", "error"}, NEW st, st = FALSE,
         Handle(gen, op, st),
         reqs' \in Seq(Req), Len(reqs') = Len(reqs), Follows(reqs, gen, reqs', gen),
         \A r \in DOMAIN reqs' : reqs'[r].phase = "sent" => r = gen,
         reqs'[gen].phase = "over", reqs'[gen].raced = reqs[gen].raced,
         reqs'[gen].got = reqs[gen].got
  PROVE  ChatInv'
  <1>1. ui.req /\ mounted
    BY DEF ChatInv, Flags, Away, Off, Shapes
  <1>2. PICK eager \in BOOLEAN :
            Later(Put(Flush(gen, eager), Update(op, gen, <<>>), gen, FALSE), [req |-> FALSE, str |-> st])
    BY DEF Handle
  <1> DEFINE b == Flush(gen, eager)
             c == Rendered(b.queue, msgs, gen)
             u == Update(op, gen, <<>>)
             e == Evaluate(u, c, gen)
  <1>3. /\ b \in Box /\ Sane(b, msgs, gen) /\ c \in Seq(Msg) /\ b.latest \in {box.latest, c}
        /\ b.saving \/ (b.latest = box.latest /\ ~box.saving)
        /\ Talk(c, reqs, gen) /\ Open(c, gen) /\ Pending(Last(c))
        /\ Plain(gen, reqs'[gen]) => Len(Last(c).text) = reqs'[gen].got
    BY <1>1, FlushBox DEF Plain
  <1>4. gen \in Nat /\ gen \in DOMAIN reqs /\ gen # 0
    BY <1>1, LastComing
  <1>5. u \in Upd /\ u.op = op /\ u.op \in Filling /\ u.gen = gen /\ u.val = <<>> /\ u.val \in Seq(Piece)
    BY <1>4, EmptySeq DEF Update, Upd, Filling
  <1>6. box' = Put(b, u, gen, FALSE) /\ want' = [req |-> FALSE, str |-> FALSE]
        /\ UNCHANGED <<msgs, ui>>
    BY <1>2 DEF Later
  <1> HIDE DEF b, c, u
  <1>7. /\ e \in Seq(Msg) /\ Len(e) = Len(c) /\ Open(e, gen) /\ Last(e) = Changed(u, Last(c))
        /\ Last(c) \in Msg
        /\ \A i \in DOMAIN c : i # Len(c) => e[i] = c[i]
    <2>1. c \in Seq(Msg) /\ Open(c, gen)
      BY <1>3
    <2>2. u.op \in Filling /\ u.val \in Seq(Piece) /\ u.gen = gen
      BY <1>5
    <2> QED BY ONLY <2>1, <2>2, Evaluated
  <1> HIDE DEF e
  <1>8. /\ box' \in Box /\ Sane(box', msgs, gen) /\ Rendered(box'.queue, msgs, gen) = e
        /\ box'.latest \in {b.latest, e}
        /\ box'.saving \/ (box'.latest = b.latest /\ ~b.saving)
    BY <1>3, <1>5, <1>6, <1>7, PutBox DEF c, e
  <1>9. Talk(c, reqs', gen) /\ Talk(box.latest, reqs', gen) /\ Open(box.latest, gen)
    BY <1>1, <1>3, TalkKept DEF ChatInv, Talks, Live
  <1>10. Ours(Last(c), reqs', gen) /\ Last(c).from = "assistant" /\ Last(c).id = gen
    <2>1. Len(c) \in DOMAIN c /\ Last(c) = c[Len(c)]
      BY <1>3, SeqFacts DEF Open, Last
    <2> QED BY <1>3, <1>9, <2>1 DEF Talk, Open
  <1>11. /\ ~Pending(Last(e)) /\ Ours(Last(e), reqs', gen)
    <2>1. CASE op = "complete"
      <3>1. Last(e) = [Last(c) EXCEPT !.status = "complete"]
        BY <1>3, <1>5, <1>7, <2>1 DEF Changed
      <3>2. /\ Last(e).status = "complete" /\ Last(e).text = Last(c).text /\ Last(e).id = gen
            /\ Last(e).from = "assistant" /\ Last(e).edited = Last(c).edited
        BY <1>7, <1>10, <3>1 DEF Msg
      <3> QED BY <1>3, <1>10, <2>1, <3>2 DEF Ours, Pending
    <2>2. CASE op = "error"
      <3>1. Last(e) = [Last(c) EXCEPT !.text = <<>>, !.edited = FALSE, !.status = "error"]
        BY <1>5, <1>7, <2>2 DEF Changed
      <3>2. /\ Last(e).status = "error" /\ Last(e).text = <<>> /\ Last(e).id = gen
            /\ Last(e).from = "assistant"
        BY <1>7, <1>10, <3>1 DEF Msg
      <3> QED BY <1>10, <3>2 DEF Ours, Pending, Parts, InOrder
    <2> QED BY <2>1, <2>2
  <1>12. Talk(e, reqs', gen)
    BY <1>3, <1>7, <1>9, <1>11, TalkLast
  <1>13. Talk(box'.latest, reqs', gen) /\ Open(box'.latest, gen)
    BY <1>3, <1>7, <1>8, <1>9, <1>12
  <1>14. box'.saving \/ (box'.latest = box.latest /\ ~box.saving)
    BY <1>3, <1>8
  <1>15. /\ UNCHANGED <<msgs, ui, gen, cgen, stored, synced, mounted, editing>>
    BY <1>6 DEF Handle, page
  <1>16. buf' = [buf EXCEPT !.text = <<>>] /\ buf \in [gen : Nat, text : Seq(Piece)] /\ buf.gen = gen
    BY DEF Handle, Flushed, ChatInv, Shapes
  <1>17. buf' \in [gen : Nat, text : Seq(Piece)] /\ buf'.gen = gen /\ buf'.text = <<>>
    BY <1>16, EmptySeq
  <1>18. want' \in Flag /\ ~want'.req /\ ~want'.str
    BY <1>6 DEF Flag
  <1> QED BY <1>1, <1>7, <1>8, <1>11, <1>12, <1>13, <1>14, <1>15, <1>17, <1>18, LaterStep

-----------------------------------------------------------------------------
(* What comes back.                                                        *)

\* A step that changes one request.
LEMMA OneRequest ==
  ASSUME reqs \in Seq(Req), NEW r \in DOMAIN reqs, NEW q \in Req, reqs' = [reqs EXCEPT ![r] = q],
         q.raced = reqs[r].raced, q.got \in {reqs[r].got, reqs[r].got + 1},
         q.whole => \/ reqs[r].whole /\ q.got = reqs[r].got
                    \/ r = gen /\ reqs[r].phase # "over",
         q.phase # "over" => reqs[r].phase # "over"
  PROVE  /\ reqs' \in Seq(Req) /\ Len(reqs') = Len(reqs) /\ DOMAIN reqs' = DOMAIN reqs
         /\ \A k \in DOMAIN reqs : reqs'[k] = IF k = r THEN q ELSE reqs[k]
         /\ Follows(reqs, gen, reqs', gen)
  <1>1. DOMAIN reqs = 1..Len(reqs)
    BY SeqFacts
  <1>2. reqs' \in Seq(Req) /\ Len(reqs') = Len(reqs)
    BY <1>1, ExceptSeq
  <1>3. /\ DOMAIN reqs' = DOMAIN reqs
        /\ \A k \in DOMAIN reqs : reqs'[k] = IF k = r THEN q ELSE reqs[k]
    OBVIOUS
  <1>4. Plain(r, q) => Plain(r, reqs[r])
    <2>1. reqs[r] \in Req
      BY SeqFacts
    <2>2. reqs[r].got \in Nat
      BY <2>1 DEF Req
    <2> QED BY <2>2, StuttersMore DEF Plain
  <1>5. Follows(reqs, gen, reqs', gen)
    BY <1>3, <1>4 DEF Follows
  <1> QED BY <1>2, <1>3, <1>5

\* The state of the current request r.
LEMMA Current ==
  ASSUME ChatInv, NEW r \in DOMAIN reqs, r = gen, reqs[r].phase # "over"
  PROVE  /\ want.req /\ ui.req /\ mounted /\ gen # 0 /\ gen \in DOMAIN reqs
         /\ reqs \in Seq(Req) /\ reqs[gen] \in Req
         /\ reqs[gen].phase \in {"headers", "sent"} =>
              want.str = FALSE /\ buf.text = <<>> /\ reqs[gen].got = 0
  <1>1. reqs \in Seq(Req) /\ DOMAIN reqs = 1..Len(reqs) /\ reqs[r] \in Req /\ want \in Flag
    BY SeqFacts DEF ChatInv, Shapes
  <1>2. gen # 0
    BY <1>1
  <1>3. want.req /\ ui.req /\ (reqs[gen].phase \in {"headers", "sent"} =>
                               ~want.str /\ buf.text = <<>> /\ reqs[gen].got = 0)
    BY <1>2 DEF ChatInv, Flags
  <1>4. mounted
    BY DEF ChatInv, Away, Shapes
  <1> QED BY <1>1, <1>2, <1>3, <1>4 DEF Flag

\* A step of the current request that queues nothing.
LEMMA PlainStep ==
  ASSUME ChatInv, NEW r \in DOMAIN reqs, r = gen, reqs[r].phase # "over",
         UNCHANGED <<msgs, ui, box, gen, cgen, page, editing>>,
         NEW q \in Req, reqs' = [reqs EXCEPT ![r] = q], q.raced = reqs[r].raced,
         q.whole = reqs[r].whole, q.phase \in {"open", "over"},
         want' \in Flag, want'.req,
         buf' \in [gen : Nat, text : Seq(Piece)], buf'.gen = gen,
         q.got \in {reqs[r].got, reqs[r].got + 1}, Arrived(Last(Coming).text, buf'.text, gen, q)
  PROVE  ChatInv'
  <1>1. /\ want.req /\ ui.req /\ mounted /\ gen # 0 /\ gen \in DOMAIN reqs
        /\ reqs \in Seq(Req) /\ reqs[gen] \in Req
    BY Current
  <1>2. /\ reqs' \in Seq(Req) /\ Len(reqs') = Len(reqs) /\ DOMAIN reqs' = DOMAIN reqs
        /\ \A k \in DOMAIN reqs : reqs'[k] = IF k = gen THEN q ELSE reqs[k]
        /\ Follows(reqs, gen, reqs', gen)
    BY <1>1, OneRequest
  <1>3. reqs'[gen] = q
    BY <1>1, <1>2
  <1>4. \A k \in DOMAIN reqs' : reqs'[k].phase = "sent" => k = gen
    BY <1>2 DEF ChatInv, Flags
  <1>5. /\ UNCHANGED <<msgs, ui, gen, cgen, stored, synced, mounted, editing>> /\ box' = box
    BY DEF page
  <1>6. /\ box' \in Box /\ Sane(box', msgs, gen) /\ Rendered(box'.queue, msgs, gen) = Coming
        /\ Coming \in Seq(Msg) /\ Open(box'.latest, gen) /\ Open(Coming, gen)
        /\ Pending(Last(Coming)) /\ Talk(Coming, reqs, gen) /\ Talk(box'.latest, reqs, gen)
    BY <1>1, <1>5 DEF ChatInv, Shapes, Queued, Coming, Live, Talks
  <1>7. Talk(box'.latest, reqs', gen) /\ Talk(Coming, reqs', gen)
    BY <1>2, <1>6, TalkKept
  <1>8. box'.saving \/ (box'.latest = box.latest /\ ~box.saving)
    BY <1>5
  <1> HIDE DEF Coming
  <1> QED BY <1>1, <1>2, <1>3, <1>4, <1>5, <1>6, <1>7, <1>8, LaterStep

LEMMA HeadersInv ==
  ASSUME ChatInv, NEW r \in DOMAIN reqs, Headers(r)
  PROVE  ChatInv'
  <1>0. reqs \in Seq(Req) /\ reqs[r] \in Req /\ reqs[r].phase = "headers" /\ cgen = gen
    BY SeqFacts DEF ChatInv, Shapes, Headers
  <1>1. CASE r # gen
    <2> DEFINE q == [reqs[r] EXCEPT !.phase = "over"]
    <2>1. /\ reqs' = [reqs EXCEPT ![r] = q]
          /\ UNCHANGED <<screen, gen, cgen, buf, page, editing>>
      BY <1>0, <1>1 DEF Headers, Phase
    <2>2. q \in Req /\ q.phase = "over" /\ q.got = reqs[r].got /\ q.whole = reqs[r].whole
          /\ q.raced = reqs[r].raced
      BY <1>0 DEF Req
    <2> HIDE DEF q
    <2>3. /\ reqs' \in Seq(Req) /\ Len(reqs') = Len(reqs) /\ DOMAIN reqs' = DOMAIN reqs
          /\ \A k \in DOMAIN reqs : reqs'[k] = IF k = r THEN q ELSE reqs[k]
          /\ Follows(reqs, gen, reqs', gen)
      BY <1>0, <2>1, <2>2, OneRequest
    <2> QED BY <2>1, <2>2, <2>3, OldStep
  <1>2. CASE r = gen /\ Phase(r, "open") /\ Later(box, [want EXCEPT !.str = TRUE])
             /\ UNCHANGED <<gen, buf, timer, cgen, page, editing>>
    <2> DEFINE q == [reqs[r] EXCEPT !.phase = "open"]
    <2>1. reqs' = [reqs EXCEPT ![r] = q] /\ UNCHANGED <<msgs, ui, box, gen, cgen, page, editing, buf>>
      BY <1>2 DEF Phase, Later
    <2>2. q \in Req /\ q.phase = "open" /\ q.got = reqs[r].got /\ q.whole = reqs[r].whole
          /\ q.raced = reqs[r].raced
      BY <1>0 DEF Req
    <2> HIDE DEF q
    <2>3. want.req /\ want \in Flag /\ want' = [want EXCEPT !.str = TRUE]
      BY <1>0, <1>2, Current DEF ChatInv, Shapes, Later
    <2>4. want' \in Flag /\ want'.req
      BY <2>3 DEF Flag
    <2>5. /\ buf' \in [gen : Nat, text : Seq(Piece)] /\ buf'.gen = gen
          /\ Arrived(Last(Coming).text, buf'.text, gen, q)
      BY <1>2, <2>1, <2>2, <2>3 DEF ChatInv, Shapes, Buffered, Arrived, Plain
    <2> QED BY <1>0, <1>2, <2>1, <2>2, <2>4, <2>5, PlainStep
  <1>3. CASE r = gen /\ Phase(r, "over") /\ Handle(r, "error", want.str)
    <2> DEFINE q == [reqs[r] EXCEPT !.phase = "over"]
    <2>1. reqs' = [reqs EXCEPT ![r] = q]
      BY <1>3 DEF Phase
    <2>2. q \in Req /\ q.phase = "over" /\ q.whole = reqs[r].whole /\ q.raced = reqs[r].raced
          /\ q.got = reqs[r].got
      BY <1>0 DEF Req
    <2> HIDE DEF q
    <2>3. /\ reqs' \in Seq(Req) /\ Len(reqs') = Len(reqs) /\ DOMAIN reqs' = DOMAIN reqs
          /\ \A k \in DOMAIN reqs : reqs'[k] = IF k = r THEN q ELSE reqs[k]
          /\ Follows(reqs, gen, reqs', gen)
      BY <1>0, <2>1, <2>2, OneRequest
    <2>4. want.req /\ want.str = FALSE /\ gen \in DOMAIN reqs
      BY <1>0, <1>3, Current
    <2>5. \A k \in DOMAIN reqs' : reqs'[k].phase = "sent" => k = gen
      BY <2>2, <2>3 DEF ChatInv, Flags
    <2>6. Handle(gen, "error", want.str) /\ reqs'[gen] = q
      BY <1>3, <2>3, <2>4
    <2> QED BY <1>3, <2>2, <2>3, <2>4, <2>5, <2>6, HandleStep
  <1> QED BY <1>0, <1>1, <1>2, <1>3 DEF Headers

LEMMA StreamPieceInv ==
  ASSUME ChatInv, NEW r \in DOMAIN reqs, StreamPiece(r)
  PROVE  ChatInv'
  <1> DEFINE n == reqs[r].got + 1
             q == [reqs[r] EXCEPT !.got = n]
             t == Merged(buf.text, <<<<r, n>>>>)
  <1>0. /\ reqs \in Seq(Req) /\ reqs[r] \in Req /\ reqs[r].phase = "open" /\ r = gen /\ cgen = gen
        /\ buf \in [gen : Nat, text : Seq(Piece)] /\ buf.gen = gen
    BY SeqFacts DEF ChatInv, Shapes, StreamPiece, IsCurrent
  <1>1. /\ want.req /\ ui.req /\ gen \in Nat
    BY <1>0, Current DEF ChatInv, Shapes
  <1>2. /\ reqs' = [reqs EXCEPT ![r] = q] /\ buf' = [buf EXCEPT !.text = t]
        /\ UNCHANGED <<msgs, ui, box, want, gen, cgen, page, editing>>
    BY <1>0 DEF StreamPiece, screen
  <1>3. q \in Req /\ q.phase = "open" /\ q.whole = reqs[r].whole /\ q.raced = reqs[r].raced
        /\ q.got = n /\ n \in Nat /\ reqs[r].got \in Nat
    <2>1. reqs[r].got \in Nat /\ n \in Nat
      BY <1>0 DEF Req
    <2> HIDE DEF n
    <2>2. q \in Req
      BY ONLY <1>0, <2>1 DEF Req
    <2>3. /\ q.phase = reqs[r].phase /\ q.whole = reqs[r].whole /\ q.raced = reqs[r].raced
          /\ q.got = n
      BY ONLY <1>0 DEF Req
    <2> QED BY <1>0, <2>1, <2>2, <2>3
  <1>4. /\ Last(Coming).text \in Seq(Piece) /\ Parts(Last(Coming).text, gen, reqs[gen])
        /\ Arrived(Last(Coming).text, buf.text, gen, reqs[gen]) /\ buf.text \in Seq(Piece)
    BY <1>0, <1>1, LastComing DEF Msg, Ours, ChatInv, Buffered
  <1>5. t = Merged(buf.text, <<<<r, q.got>>>>)
    BY <1>3
  <1> HIDE DEF t, q, n
  <1>6. t \in Seq(Piece) /\ Arrived(Last(Coming).text, t, gen, q)
    <2>1. q.got = reqs[gen].got + 1 /\ q.raced = reqs[gen].raced /\ reqs[gen] \in Req
      BY <1>0, <1>3 DEF n
    <2>2. t = Merged(buf.text, <<<<gen, q.got>>>>)
      BY <1>0, <1>5
    <2> QED BY <1>1, <1>3, <1>4, <2>1, <2>2, Grown
  <1>8. buf' \in [gen : Nat, text : Seq(Piece)] /\ buf'.gen = gen /\ buf'.text = t
    BY <1>0, <1>2, <1>6
  <1>14. want' \in Flag /\ want'.req
    BY <1>1, <1>2 DEF ChatInv, Shapes
  <1> QED BY <1>0, <1>2, <1>3, <1>6, <1>8, <1>14, PlainStep DEF n

LEMMA StreamEndsInv ==
  ASSUME ChatInv, NEW r \in DOMAIN reqs, StreamEnds(r)
  PROVE  ChatInv'
  <1> DEFINE q == [reqs[r] EXCEPT !.phase = "over"]
  <1>0. reqs \in Seq(Req) /\ reqs[r] \in Req /\ reqs[r].phase = "open" /\ r = gen
    BY SeqFacts DEF ChatInv, Shapes, StreamEnds, IsCurrent
  <1>1. /\ reqs' = [reqs EXCEPT ![r] = q]
        /\ UNCHANGED <<msgs, ui, want, box, gen, cgen, buf, page, editing>>
    BY DEF StreamEnds, Phase, screen
  <1>2. q \in Req /\ q.phase = "over" /\ q.got = reqs[r].got /\ q.whole = reqs[r].whole
        /\ q.raced = reqs[r].raced
    BY <1>0 DEF Req
  <1> HIDE DEF q
  <1>3. want.req /\ want' \in Flag /\ want'.req
    BY <1>0, <1>1, Current DEF ChatInv, Shapes
  <1>4. /\ buf' \in [gen : Nat, text : Seq(Piece)] /\ buf'.gen = gen
        /\ Arrived(Last(Coming).text, buf'.text, gen, q)
    BY <1>0, <1>1, <1>2, <1>3 DEF ChatInv, Shapes, Buffered, Arrived, Plain
  <1> QED BY <1>0, <1>1, <1>2, <1>3, <1>4, PlainStep

\* The end of the current answer: by an error, or with all its pieces.
LEMMA OverStep ==
  ASSUME ChatInv, NEW r \in DOMAIN reqs, r = gen, reqs[r].phase # "over",
         NEW q \in Req, reqs' = [reqs EXCEPT ![r] = q], q.phase = "over",
         q.raced = reqs[r].raced, q.got = reqs[r].got,
         NEW op \in {"complete", "error"}, NEW st, st = FALSE, Handle(r, op, st)
  PROVE  ChatInv'
  <1>1. /\ want.req /\ gen \in DOMAIN reqs /\ reqs \in Seq(Req)
    BY Current
  <1>2. /\ reqs' \in Seq(Req) /\ Len(reqs') = Len(reqs) /\ DOMAIN reqs' = DOMAIN reqs
        /\ \A k \in DOMAIN reqs : reqs'[k] = IF k = r THEN q ELSE reqs[k]
        /\ Follows(reqs, gen, reqs', gen)
    BY <1>1, OneRequest
  <1>3. \A k \in DOMAIN reqs' : reqs'[k].phase = "sent" => k = gen
    BY <1>2 DEF ChatInv, Flags
  <1>4. reqs'[gen] = q /\ Handle(gen, op, st)
    BY <1>1, <1>2
  <1> QED BY <1>1, <1>2, <1>3, <1>4, HandleStep

LEMMA StreamDoneInv ==
  ASSUME ChatInv, NEW r \in DOMAIN reqs, StreamDone(r)
  PROVE  ChatInv'
  <1> DEFINE q == [reqs[r] EXCEPT !.phase = "over", !.whole = TRUE]
  <1>0. reqs \in Seq(Req) /\ reqs[r] \in Req /\ reqs[r].phase = "open" /\ r = gen
    BY SeqFacts DEF ChatInv, Shapes, StreamDone, IsCurrent
  <1>1. reqs' = [reqs EXCEPT ![r] = q] /\ Handle(r, "complete", FALSE)
    BY <1>0 DEF StreamDone
  <1>2. q \in Req /\ q.phase = "over" /\ q.raced = reqs[r].raced /\ q.got = reqs[r].got
    BY <1>0 DEF Req
  <1> HIDE DEF q
  <1> QED BY <1>0, <1>1, <1>2, OverStep

LEMMA StreamErrorInv ==
  ASSUME ChatInv, NEW r \in DOMAIN reqs, StreamError(r)
  PROVE  ChatInv'
  <1> DEFINE q == [reqs[r] EXCEPT !.phase = "over"]
  <1>0. reqs \in Seq(Req) /\ reqs[r] \in Req /\ reqs[r].phase = "open" /\ r = gen
    BY SeqFacts DEF ChatInv, Shapes, StreamError, IsCurrent
  <1>1. reqs' = [reqs EXCEPT ![r] = q] /\ Handle(r, "error", FALSE)
    BY DEF StreamError, Phase
  <1>2. q \in Req /\ q.phase = "over" /\ q.raced = reqs[r].raced /\ q.got = reqs[r].got
    BY <1>0 DEF Req
  <1> HIDE DEF q
  <1> QED BY <1>0, <1>1, <1>2, OverStep

LEMMA ResponseInv ==
  ASSUME ChatInv, NEW r \in DOMAIN reqs, Response(r)
  PROVE  ChatInv'
  <1>0. /\ reqs \in Seq(Req) /\ reqs[r] \in Req /\ reqs[r].phase = "sent" /\ r = gen
        /\ gen \in Nat
    BY SeqFacts DEF ChatInv, Shapes, Response, Flags
  <1>1. /\ want.req /\ ui.req /\ mounted /\ gen # 0 /\ gen \in DOMAIN reqs /\ want.str = FALSE
    BY <1>0, Current
  <1>2. CASE Phase(r, "over") /\ Handle(r, "error", want.str)
    <2> DEFINE q == [reqs[r] EXCEPT !.phase = "over"]
    <2>1. reqs' = [reqs EXCEPT ![r] = q] /\ Handle(r, "error", FALSE)
      BY <1>1, <1>2 DEF Phase
    <2>2. q \in Req /\ q.phase = "over" /\ q.raced = reqs[r].raced /\ q.got = reqs[r].got
      BY <1>0 DEF Req
    <2> HIDE DEF q
    <2> QED BY <1>0, <2>1, <2>2, OverStep
  <1>3. CASE /\ reqs' = [reqs EXCEPT ![r].phase = "over", ![r].got = 1, ![r].whole = TRUE]
             /\ \E eager \in BOOLEAN :
                  Later(Put(box, Update("answer", r, <<<<r, 1>>>>), gen, eager),
                        [want EXCEPT !.req = FALSE])
             /\ UNCHANGED <<gen, buf, timer, cgen, page, editing>>
    <2> DEFINE q == [reqs[r] EXCEPT !.phase = "over", !.got = 1, !.whole = TRUE]
               t == <<<<r, 1>>>>
               u == Update("answer", r, t)
               m == Last(Coming)
    <2>1. reqs' = [reqs EXCEPT ![r] = q]
      BY <1>0, <1>3
    <2>2. q \in Req /\ q.phase = "over" /\ q.raced = reqs[r].raced /\ q.got = 1
      BY <1>0 DEF Req
    <2> HIDE DEF q
    <2>3. PICK eager \in BOOLEAN : Later(Put(box, u, gen, eager), [want EXCEPT !.req = FALSE])
      BY <1>3
    <2>4. /\ t \in Seq(Piece) /\ Len(t) = 1 /\ DOMAIN t = {1} /\ t[1][1] = r /\ t[1][2] = 1
      BY <1>0 DEF Piece
    <2> HIDE DEF t
    <2>5. u \in Upd /\ u.op = "answer" /\ u.op \in Filling /\ u.gen = gen /\ u.val = t
      BY <1>0, <2>4 DEF Update, Upd, Filling
    <2> HIDE DEF u
    <2>6. /\ reqs' \in Seq(Req) /\ Len(reqs') = Len(reqs) /\ DOMAIN reqs' = DOMAIN reqs
          /\ \A k \in DOMAIN reqs : reqs'[k] = IF k = r THEN q ELSE reqs[k]
          /\ Follows(reqs, gen, reqs', gen)
      <3>1. reqs[r].got = 0
        BY <1>0, Current
      <3>2. q.got \in {reqs[r].got, reqs[r].got + 1}
        BY <2>2, <3>1
      <3> QED BY <1>0, <2>1, <2>2, <3>2, OneRequest
    <2>7. \A k \in DOMAIN reqs' : reqs'[k].phase = "sent" => k = gen
      BY <2>2, <2>6 DEF ChatInv, Flags
    <2>8. reqs'[gen] = q
      BY <1>0, <1>1, <2>6
    <2> DEFINE e == Evaluate(u, Coming, gen)
    <2>9. /\ box \in Box /\ Sane(box, msgs, gen) /\ Coming \in Seq(Msg) /\ Talk(Coming, reqs, gen)
          /\ Talk(box.latest, reqs, gen) /\ Open(Coming, gen) /\ Open(box.latest, gen)
          /\ buf \in [gen : Nat, text : Seq(Piece)] /\ buf.gen = gen /\ want \in Flag
      BY <1>1 DEF ChatInv, Shapes, Queued, Talks, Live
    <2>10. /\ e \in Seq(Msg) /\ Len(e) = Len(Coming) /\ Open(e, gen) /\ Last(e) = Changed(u, m)
           /\ m \in Msg
           /\ \A i \in DOMAIN Coming : i # Len(Coming) => e[i] = Coming[i]
      <3>1. u.val \in Seq(Piece) /\ Coming \in Seq(Msg) /\ Open(Coming, gen)
        BY <2>4, <2>5, <2>9
      <3> QED BY ONLY <2>5, <3>1, Evaluated
    <2> HIDE DEF e
    <2>11. /\ box' \in Box /\ Sane(box', msgs, gen) /\ Rendered(box'.queue, msgs, gen) = e
           /\ box'.latest \in {box.latest, e}
           /\ box'.saving \/ (box'.latest = box.latest /\ ~box.saving)
      <3>1. Evaluate(u, Rendered(box.queue, msgs, gen), gen) = e
        BY DEF Coming, e
      <3>2. box' = Put(box, u, gen, eager)
        BY <2>3 DEF Later
      <3> QED BY <2>5, <2>9, <2>10, <3>1, <3>2, PutBox
    <2>12. Last(e) = [m EXCEPT !.text = t, !.edited = FALSE, !.status = "complete"]
      BY <2>5, <2>10 DEF Changed
    <2>13. m.from = "assistant" /\ m.id = gen
      BY <1>1, LastComing
    <2>14. /\ Last(e).text = t /\ Last(e).status = "complete"
           /\ Last(e).from = "assistant" /\ Last(e).id = gen
      BY <2>10, <2>12, <2>13 DEF Msg
    <2>15. Ours(Last(e), reqs', gen) /\ ~Pending(Last(e))
      BY <1>0, <1>1, <2>2, <2>4, <2>6, <2>8, <2>14 DEF Ours, Pending, Parts, InOrder
    <2>16. Talk(Coming, reqs', gen) /\ Talk(box.latest, reqs', gen)
      BY <2>6, <2>9, TalkKept
    <2>17. Talk(e, reqs', gen)
      BY <2>9, <2>10, <2>15, <2>16, TalkLast
    <2>18. Talk(box'.latest, reqs', gen) /\ Open(box'.latest, gen)
      BY <2>9, <2>10, <2>11, <2>16, <2>17
    <2>19. want' \in Flag /\ ~want'.req /\ ~want'.str
      BY <1>1, <2>3, <2>9 DEF Later, Flag
    <2>20. UNCHANGED <<msgs, ui, gen, cgen, stored, synced, mounted, editing>> /\ buf' = buf
      BY <1>3, <2>3 DEF Later, page
    <2>21. buf.text = <<>>
      BY <1>0, Current
    <2> QED BY <1>1, <2>2, <2>6, <2>7, <2>8, <2>9, <2>10, <2>11, <2>15, <2>17, <2>18, <2>19,
               <2>20, <2>21, LaterStep
  <1> QED BY <1>2, <1>3 DEF Response

LEMMA FollowsSelf ==
  ASSUME NEW rq, NEW g
  PROVE  Follows(rq, g, rq, g)
  BY DEF Follows

LEMMA FlushTimerInv ==
  ASSUME ChatInv, FlushTimer
  PROVE  ChatInv'
  <1>1. PICK eager \in BOOLEAN : Later(Flush(gen, eager), want)
    BY DEF FlushTimer
  <1>2. /\ buf \in [gen : Nat, text : Seq(Piece)] /\ buf.gen = gen /\ reqs \in Seq(Req)
        /\ buf' = [buf EXCEPT !.text = <<>>] /\ mounted
        /\ UNCHANGED <<gen, cgen, reqs, page, editing>>
    BY DEF ChatInv, Shapes, FlushTimer, Flushed
  <1>3. Follows(reqs, gen, reqs', gen)
    BY <1>2, FollowsSelf
  <1>4. CASE buf.text = <<>>
    <2>1. UNCHANGED <<screen, buf>>
      BY <1>1, <1>2, <1>4 DEF Flush, Later, screen
    <2> QED BY <1>2, <1>3, <2>1, OldStep DEF ChatInv, Flags
  <1>5. CASE buf.text # <<>>
    <2> DEFINE b == Flush(gen, eager)
               c == Rendered(b.queue, msgs, gen)
    <2>1. want.req /\ ui.req
      BY <1>5 DEF ChatInv, Flags
    <2>2. /\ b \in Box /\ Sane(b, msgs, gen) /\ c \in Seq(Msg) /\ b.latest \in {box.latest, c}
          /\ b.saving \/ (b.latest = box.latest /\ ~box.saving)
          /\ Talk(c, reqs, gen) /\ Open(c, gen) /\ Pending(Last(c))
          /\ Arrived(Last(c).text, <<>>, gen, reqs[gen])
      BY <2>1, FlushBox
    <2>3. box' = b /\ UNCHANGED <<msgs, ui, want>>
      BY <1>1 DEF Later
    <2> HIDE DEF b
    <2>4. c = Rendered(box'.queue, msgs, gen)
      BY <2>3
    <2> HIDE DEF c
    <2>5. /\ Talk(box'.latest, reqs', gen) /\ Open(box'.latest, gen) /\ Talk(c, reqs', gen)
      BY <1>2, <2>1, <2>2, <2>3 DEF ChatInv, Talks, Live
    <2>6. buf' \in [gen : Nat, text : Seq(Piece)] /\ buf'.gen = gen /\ buf'.text = <<>>
      BY <1>2, EmptySeq
    <2>7. /\ want' \in Flag /\ want'.req /\ (want'.str => want'.req)
          /\ \A r \in DOMAIN reqs' : reqs'[r].phase = "sent" => r = gen
          /\ reqs'[gen].phase \in {"headers", "sent"} => ~want'.str /\ reqs'[gen].got = 0
      BY <1>2, <2>1, <2>3, LastComing DEF ChatInv, Shapes, Flags
    <2>9. Arrived(Last(c).text, buf'.text, gen, reqs'[gen])
      BY <1>2, <2>2, <2>6
    <2>10. UNCHANGED <<msgs, ui, gen, cgen, stored, synced, mounted, editing>>
      BY <1>2, <2>3 DEF page
    <2> QED BY <1>2, <1>3, <2>1, <2>2, <2>3, <2>4, <2>5, <2>6, <2>7, <2>9, <2>10, LaterStep
  <1> QED BY <1>4, <1>5

LEMMA Trimmed ==
  ASSUME NEW ms \in Seq(Msg), NEW rq, NEW g, Talk(ms, rq, g)
  PROVE  Trim(ms) \in Seq(Msg) /\ Talk(Trim(ms), rq, g)
  <1> DEFINE n == Len(ms)
             i == IF n > MaxStored THEN n - MaxStored + 1 ELSE 1
             t == Trim(ms)
  <1>1. n \in Nat /\ DOMAIN ms = 1..n /\ \A k \in DOMAIN ms : ms[k] \in Msg
    BY SeqFacts
  <1>2. t = SubSeq(ms, i, n)
    BY DEF Trim
  <1>3. i \in Nat /\ 1 <= i /\ i <= n + 1
    BY <1>1, PlaygroundAssumption
  <1> HIDE DEF n, i, t
  <1>4. \A k \in i..n : ms[k] \in Msg
    BY <1>1, <1>3
  <1>5. /\ t \in Seq(Msg) /\ Len(t) = IF i <= n THEN n - i + 1 ELSE 0
        /\ \A k \in 1..(n - i + 1) : t[k] = ms[i + k - 1]
    BY <1>1, <1>2, <1>3, <1>4, SubSeqProperties
  <1>6. Len(t) = n - i + 1 /\ DOMAIN t = 1..(n - i + 1)
    BY <1>1, <1>3, <1>5, SeqFacts
  <1>7. ASSUME NEW k \in DOMAIN t PROVE Ours(t[k], rq, g) /\ (k # Len(t) => Waits(t[k], rq))
    <2>1. i + k - 1 \in DOMAIN ms /\ t[k] = ms[i + k - 1]
      BY <1>1, <1>3, <1>5, <1>6
    <2>2. k # Len(t) => i + k - 1 # n
      BY <1>1, <1>3, <1>6
    <2> QED BY <2>1, <2>2 DEF Talk, n
  <1> QED BY <1>5, <1>7 DEF Talk, t

\* A step of the storage.
LEMMA CopyStep ==
  ASSUME ChatInv, UNCHANGED <<msgs, ui, want, gen, buf, cgen, reqs, mounted, editing>>,
         box' \in {box, [box EXCEPT !.saving = FALSE]},
         stored' \in Seq(Msg), Talk(stored', reqs, gen), synced' \in BOOLEAN,
         synced' => stored' = Trim(box.latest)
  PROVE  ChatInv'
  <1>1. box \in Box
    BY DEF ChatInv, Shapes
  <1>2. box' \in Box /\ box'.queue = box.queue /\ box'.latest = box.latest
    BY <1>1 DEF Box
  <1>3. Coming' = Coming
    BY <1>2 DEF Coming
  <1>4. Shapes' /\ Coming' \in Seq(Msg) /\ Due' /\ Away'
    BY <1>2, <1>3 DEF ChatInv, Shapes, Due, Away
  <1>5. Queued'
    BY <1>2 DEF ChatInv, Queued, Sane
  <1>6. Talks'
    BY <1>2, <1>3 DEF ChatInv, Talks
  <1>7. Flags'
    BY <1>2 DEF ChatInv, Flags
  <1>8. Live' /\ Buffered'
    BY <1>2, <1>3 DEF ChatInv, Live, Buffered
  <1> QED BY <1>4, <1>5, <1>6, <1>7, <1>8 DEF ChatInv

LEMMA SaveTimerInv ==
  ASSUME ChatInv, SaveTimer
  PROVE  ChatInv'
  <1>1. /\ box' = [box EXCEPT !.saving = FALSE]
        /\ UNCHANGED <<msgs, ui, want, gen, buf, cgen, reqs, mounted, editing>>
        /\ (stored' = Trim(box.latest) /\ synced' = TRUE) \/ (stored' = stored /\ synced' = FALSE)
    BY DEF SaveTimer, Save, chat
  <1>2. /\ box.latest \in Seq(Msg) /\ Talk(box.latest, reqs, gen)
        /\ stored \in Seq(Msg) /\ Talk(stored, reqs, gen)
    BY DEF ChatInv, Shapes, Talks, Box
  <1>3. stored' \in Seq(Msg) /\ Talk(stored', reqs, gen)
    BY <1>1, <1>2, Trimmed
  <1> QED BY <1>1, <1>3, CopyStep

LEMMA OtherTabInv ==
  ASSUME ChatInv, OtherTab
  PROVE  ChatInv'
  <1>1. /\ box' = box /\ stored' = <<>> /\ synced' = FALSE
        /\ UNCHANGED <<msgs, ui, want, gen, buf, cgen, reqs, mounted, editing>>
    BY DEF OtherTab, screen, chat
  <1>2. stored' \in Seq(Msg) /\ Talk(stored', reqs, gen)
    BY <1>1, EmptySeq DEF Talk
  <1> QED BY <1>1, <1>2, CopyStep

LEMMA RenderInv ==
  ASSUME ChatInv, Render
  PROVE  ChatInv'
  <1>1. /\ mounted = TRUE /\ Show(box, gen, want) /\ UNCHANGED <<chat, page, editing>>
        /\ box \in Box /\ Sane(box, msgs, gen) /\ Coming \in Seq(Msg)
    BY DEF Render, ChatInv, Shapes, Queued
  <1>2. msgs' = Coming /\ box'.queue = <<>> /\ box' \in Box
    <2>1. msgs' = Coming
      BY <1>1, ShowBox DEF Coming
    <2> QED BY <1>1, <2>1, ShowBox
  <1>3. ui' = want /\ want' = want
    BY <1>1 DEF Show
  <1>4. box'.latest = msgs' /\ (box'.saving \/ (box'.latest = box.latest /\ ~box.saving))
    BY <1>1, ShowSane
  <1>5. UNCHANGED <<gen, buf, cgen, reqs, mounted, stored, synced, editing>>
    BY <1>1 DEF chat, page
  <1>6. Shapes'
    BY <1>1, <1>2, <1>3, <1>5 DEF ChatInv, Shapes
  <1>7. box'.saving \/ ~synced' \/ stored' = Trim(msgs')
    BY <1>1, <1>4, <1>5 DEF ChatInv, Due
  <1>8. Talk(msgs', reqs', gen') /\ Talk(stored', reqs', gen')
    BY <1>2, <1>5 DEF ChatInv, Talks
  <1>9. Flags'
    BY <1>2, <1>3, <1>5 DEF ChatInv, Flags
  <1>10. IF ui'.req THEN gen' # 0 /\ Open(msgs', gen') /\ Pending(Last(msgs')) /\ editing' # <<"assistant", gen'>>
         ELSE \A i \in DOMAIN msgs' : Waits(msgs'[i], reqs')
    <2>1. CASE want.req
      <3>1. ui.req
        BY <2>1 DEF ChatInv, Flags
      <3> QED BY <1>2, <1>3, <1>5, <2>1, <3>1 DEF ChatInv, Live
    <2>2. CASE ~want.req /\ ui.req
      <3>1. ~Pending(Last(Coming)) /\ Talk(Coming, reqs, gen)
        BY <2>2 DEF ChatInv, Live, Talks
      <3>2. \A i \in DOMAIN Coming : Waits(Coming[i], reqs)
        BY <3>1 DEF Talk, Waits, Last
      <3> QED BY <1>2, <1>3, <1>5, <2>2, <3>2
    <2>3. CASE ~want.req /\ ~ui.req
      <3>1. box.queue = <<>>
        BY <2>3 DEF ChatInv, Flags
      <3>2. Coming = msgs
        BY <3>1, RenderedEmpty DEF Coming
      <3>3. \A i \in DOMAIN msgs : Waits(msgs[i], reqs)
        BY <2>3 DEF ChatInv, Live
      <3> QED BY <1>2, <1>3, <1>5, <2>3, <3>2, <3>3
    <2> QED BY <2>1, <2>2, <2>3
  <1>11. ui'.req =>
            /\ Arrived(Last(msgs').text, buf'.text, gen', reqs'[gen'])
    BY <1>2, <1>3, <1>5 DEF ChatInv, Buffered
  <1>12. mounted' = TRUE
    BY <1>1, <1>5
  <1>13. Rested'
    BY <1>2, <1>3, <1>4, <1>6, <1>7, <1>8, <1>9, <1>10, <1>11, <1>12 DEF Rested
  <1> QED BY <1>13, RestedInv

-----------------------------------------------------------------------------
(* Clicks.                                                                 *)

LEMMA FunSeq ==
  ASSUME NEW S, NEW n \in Nat, NEW f \in [1..n -> S]
  PROVE  f \in Seq(S) /\ Len(f) = n /\ DOMAIN f = 1..n
  <1>1. f \in Seq(S)
    BY SeqDef
  <1>2. DOMAIN f = 1..n /\ DOMAIN f = 1..Len(f) /\ Len(f) \in Nat
    BY <1>1, LenProperties
  <1> QED BY <1>1, <1>2

\* The requests after a send keep what holds of the messages there were.
LEMMA SendFollows ==
  ASSUME ChatInv, NEW ms, SendChat(ms)
  PROVE  /\ gen' = NextId /\ NextId \in Nat /\ NextId = Len(reqs) + 1 /\ Len(reqs) \in Nat
         /\ reqs' \in Seq(Req) /\ Len(reqs') = NextId /\ DOMAIN reqs' = 1..NextId
         /\ \A r \in DOMAIN reqs' : reqs'[r].phase = "sent" => r = NextId
         /\ reqs'[NextId].got = 0
         /\ Follows(reqs, gen, reqs', NextId)
  <1>0. reqs \in Seq(Req) /\ Len(reqs) \in Nat /\ NextId = Len(reqs) + 1 /\ DOMAIN reqs = 1..Len(reqs)
    BY SeqFacts DEF ChatInv, Shapes, NextId
  <1>1. gen' = NextId
    BY DEF SendChat
  <1>2. PICK phase \in {"headers", "sent"} :
            reqs' = Append(Aborted, [phase |-> phase, got |-> 0, whole |-> FALSE, raced |-> FALSE])
    BY DEF SendChat
  <1> DEFINE q == [phase |-> phase, got |-> 0, whole |-> FALSE, raced |-> FALSE]
  <1>3. \A r \in DOMAIN reqs : reqs[r] \in Req
    BY <1>0, SeqFacts
  <1>4. Aborted \in [1..Len(reqs) -> Req]
    BY <1>0, <1>3 DEF Aborted, Req
  <1>5. Aborted \in Seq(Req) /\ Len(Aborted) = Len(reqs) /\ q \in Req /\ q.got = 0
    BY <1>0, <1>4, FunSeq DEF Req
  <1> HIDE DEF q
  <1>6. /\ Len(reqs') = NextId /\ reqs' \in Seq(Req) /\ reqs'[NextId] = q
        /\ \A r \in 1..Len(reqs) : reqs'[r] = Aborted[r]
    BY <1>0, <1>2, <1>5, AppendProperties DEF q
  <1>7. DOMAIN reqs' = 1..NextId
    BY <1>6, SeqFacts
  <1>8. ASSUME NEW r \in DOMAIN reqs
        PROVE  /\ r \in DOMAIN reqs' /\ r # NextId /\ reqs'[r].phase # "sent"
               /\ reqs'[r].whole = reqs[r].whole /\ reqs'[r].got = reqs[r].got
               /\ reqs'[r].raced = reqs[r].raced
    <2>1. reqs'[r] = Aborted[r] /\ r \in DOMAIN reqs' /\ r # NextId
      BY <1>0, <1>6, <1>7
    <2>2. /\ Aborted[r].whole = reqs[r].whole /\ Aborted[r].got = reqs[r].got
          /\ Aborted[r].raced = reqs[r].raced /\ Aborted[r].phase # "sent"
      BY <1>3 DEF Aborted, Req
    <2> QED BY <2>1, <2>2
  <1>9. \A r \in DOMAIN reqs' : r = NextId \/ r \in DOMAIN reqs
    BY <1>0, <1>7
  <1>10. Follows(reqs, gen, reqs', NextId)
    BY <1>8 DEF Follows, Plain
  <1> QED BY <1>0, <1>1, <1>5, <1>6, <1>7, <1>8, <1>9, <1>10

\* A new request is sent with the conversation p and a message to fill.
LEMMA SendStep ==
  ASSUME ChatInv, mounted, NEW p \in Seq(Msg),
         SendChat(p \o <<Message("assistant", NextId, "loading")>>),
         Ended(p, reqs', gen'), editing' \in {editing, <<>>}
  PROVE  ChatInv'
  <1> DEFINE n == NextId
             m == Message("assistant", n, "loading")
             ms == p \o <<m>>
  <1>0. /\ reqs \in Seq(Req) /\ box \in Box /\ Len(reqs) \in Nat /\ n = Len(reqs) + 1 /\ n \in Nat
        /\ n # 0 /\ DOMAIN reqs = 1..Len(reqs) /\ n \notin DOMAIN reqs
    BY SeqFacts DEF ChatInv, Shapes, NextId
  <1>1. /\ gen' = n /\ cgen' = n /\ buf' = [gen |-> n, text |-> <<>>]
        /\ UNCHANGED <<stored, synced, mounted>>
        /\ Show(Put(box, Update("set", 0, ms), gen, FALSE), n, [req |-> TRUE, str |-> FALSE])
    BY DEF SendChat, Discard, Supersede, page
  <1>2. /\ reqs' \in Seq(Req) /\ Len(reqs') = n /\ DOMAIN reqs' = 1..n
        /\ \A r \in DOMAIN reqs' : reqs'[r].phase = "sent" => r = n
        /\ reqs'[n].got = 0 /\ Follows(reqs, gen, reqs', n)
    BY SendFollows
  <1>3. /\ m \in Msg /\ m.id = n /\ m.from = "assistant" /\ m.text = <<>> /\ Pending(m)
        /\ m.status # "complete"
    BY <1>0, EmptySeq DEF Message, Msg, Pending
  <1> HIDE DEF m
  <1>4. Ours(m, reqs', n)
    BY <1>0, <1>2, <1>3 DEF Ours, Parts, InOrder
  <1>5. ms \in Seq(Msg) /\ Talk(ms, reqs', n) /\ ms # <<>> /\ Last(ms) = m
    BY <1>1, <1>3, <1>4, Asked
  <1> HIDE DEF ms, n
  <1>6. Open(ms, n)
    BY <1>3, <1>5 DEF Open, Last
  <1>7. /\ msgs' = ms /\ box' \in Box /\ box'.queue = <<>> /\ box'.latest = ms
         /\ box'.saving = TRUE
    BY <1>0, <1>1, <1>5, ShowSet
  <1>8. ui' = [req |-> TRUE, str |-> FALSE] /\ want' = ui'
    BY <1>1 DEF Show
  <1>9. editing' # <<>> => editing' \in MsgKey /\ editing'[2] <= Len(reqs)
    BY DEF ChatInv, Shapes
  <1>10. editing' # <<"assistant", n>>
    <2>1. <<"assistant", n>>[2] = n /\ <<"assistant", n>> # <<>>
      OBVIOUS
    <2>2. ~(n <= Len(reqs))
      BY ONLY <1>0
    <2> QED BY ONLY <1>9, <2>1, <2>2
  <1>11. editing' # <<>> => editing' \in MsgKey /\ editing'[2] <= n
    BY <1>0, <1>9 DEF MsgKey
  <1>12. buf' \in [gen : Nat, text : Seq(Piece)] /\ buf'.gen = n /\ buf'.text = <<>>
    BY <1>0, <1>1, EmptySeq
  <1>13. ui' \in Flag /\ ui'.req /\ ~ui'.str
    BY <1>8 DEF Flag
  <1>14. n \in 0..Len(reqs')
    BY <1>0, <1>2
  <1>15. stored \in Seq(Msg) /\ Talk(stored, reqs', n)
    BY <1>2, TalkKept DEF ChatInv, Talks, Shapes
  <1>16. Shapes'
    <2>1. synced' \in BOOLEAN /\ mounted' \in BOOLEAN
      BY <1>1 DEF ChatInv, Shapes
    <2> QED BY <1>1, <1>2, <1>5, <1>7, <1>8, <1>11, <1>12, <1>13, <1>14, <1>15, <2>1 DEF Shapes
  <1>17. Flags'
    BY <1>1, <1>7, <1>8, <1>12, <1>13, <1>2 DEF Flags
  <1>18. Arrived(Last(ms).text, buf'.text, n, reqs'[n])
    BY <1>2, <1>3, <1>5, <1>12 DEF Arrived, InOrder
  <1>19. Rested'
    BY <1>0, <1>1, <1>3, <1>5, <1>6, <1>7, <1>8, <1>10, <1>13, <1>15, <1>16, <1>17, <1>18 DEF Rested
  <1> QED BY <1>19, RestedInv

LEMMA MessageMsg ==
  ASSUME NEW from \in {"user", "assistant"}, NEW id \in Nat, NEW status \in {"none", "loading"}
  PROVE  /\ Message(from, id, status) \in Msg
         /\ Message(from, id, status).from = from /\ Message(from, id, status).id = id
         /\ Message(from, id, status).status = status
  BY EmptySeq DEF Message, Msg

\* A page that does not generate: nothing is queued and nothing waits.
LEMMA IdlePage ==
  ASSUME ChatInv, Idle
  PROVE  /\ mounted /\ ~ui.req /\ ~want.req /\ ~want.str /\ ~ui.str /\ box.queue = <<>>
         /\ Ended(msgs, reqs, gen) /\ msgs \in Seq(Msg) /\ box \in Box /\ buf.text = <<>>
  <1>1. mounted /\ ~ui.req /\ ~ui.str
    BY DEF Idle, Generating
  <1>2. ~want.req /\ ~want.str /\ box.queue = <<>> /\ buf.text = <<>>
    BY <1>1 DEF ChatInv, Flags
  <1>3. Ended(msgs, reqs, gen)
    BY <1>1 DEF ChatInv, Live, Talks, Talk, Ended
  <1> QED BY <1>1, <1>2, <1>3 DEF ChatInv, Shapes

LEMMA HandleSendMessageInv ==
  ASSUME ChatInv, HandleSendMessage
  PROVE  ChatInv'
  <1> DEFINE u == Message("user", NextId, "none")
             a == Message("assistant", NextId, "loading")
             p == msgs \o <<u>>
  <1>1. mounted /\ msgs \in Seq(Msg) /\ Ended(msgs, reqs, gen) /\ SendChat(msgs \o <<u, a>>)
        /\ UNCHANGED editing
    BY IdlePage DEF HandleSendMessage
  <1>2. /\ Follows(reqs, gen, reqs', gen') /\ NextId \in Nat /\ NextId \in DOMAIN reqs'
    <2>1. /\ gen' = NextId /\ NextId \in Nat /\ NextId = Len(reqs) + 1 /\ Len(reqs) \in Nat
          /\ DOMAIN reqs' = 1..NextId /\ Follows(reqs, gen, reqs', NextId)
      BY <1>1, SendFollows
    <2> QED BY <2>1
  <1>3. u \in Msg /\ u.from = "user" /\ u.id = NextId /\ u.status = "none" /\ a \in Msg
    BY <1>2, MessageMsg
  <1> HIDE DEF u, a
  <1>4. msgs \o <<u, a>> = p \o <<a>>
    <2>1. <<u>> \in Seq(Msg) /\ <<a>> \in Seq(Msg)
      BY <1>3
    <2>2. Append(<<u>>, a) = <<u>> \o <<a>>
      BY <1>3, <2>1, AppendIsConcat
    <2>3. Append(<<u>>, a) = <<u, a>>
      <3>1. Len(<<u>>) = 1 /\ <<u>>[1] = u
        OBVIOUS
      <3>2. PICK s : s = Append(<<u>>, a)
        OBVIOUS
      <3>3. /\ s \in Seq(Msg) /\ Len(s) = Len(<<u>>) + 1 /\ s[Len(<<u>>) + 1] = a
            /\ \A i \in 1..Len(<<u>>) : s[i] = <<u>>[i]
        BY <1>3, <2>1, <3>2, AppendProperties
      <3>4. Len(s) = 2 /\ s[1] = u /\ s[2] = a
        BY <3>1, <3>3
      <3>5. <<u, a>> \in Seq(Msg) /\ Len(<<u, a>>) = 2 /\ <<u, a>>[1] = u /\ <<u, a>>[2] = a
        BY <1>3
      <3>6. \A i \in 1..2 : s[i] = <<u, a>>[i]
        BY <3>4, <3>5
      <3>7. s = <<u, a>>
        BY <3>3, <3>4, <3>5, <3>6, SeqEqual
      <3> QED BY <3>2, <3>7
    <2>4. (msgs \o <<u>>) \o <<a>> = msgs \o (<<u>> \o <<a>>)
      BY <1>1, <2>1, ConcatAssociative
    <2> QED BY <2>2, <2>3, <2>4, Zenon
  <1>5. Ended(msgs, reqs', gen')
    BY <1>1, <1>2, EndedKept
  <1>6. Ours(u, reqs', gen') /\ Waits(u, reqs') /\ ~Pending(u)
    BY <1>2, <1>3 DEF Ours, Waits, Pending
  <1>7. p \in Seq(Msg) /\ Talk(p, reqs', gen') /\ Last(p) = u
    BY <1>1, <1>3, <1>5, <1>6, Asked
  <1> HIDE DEF p
  <1>8. Ended(p, reqs', gen')
    <2>1. ASSUME NEW i \in DOMAIN p PROVE Ours(p[i], reqs', gen') /\ Waits(p[i], reqs')
      <3>1. CASE i = Len(p)
        BY <1>6, <1>7, <3>1 DEF Last
      <3>2. CASE i # Len(p)
        BY <1>7, <3>2 DEF Talk
      <3> QED BY <3>1, <3>2
    <2> QED BY <2>1 DEF Ended
  <1>9. SendChat(p \o <<Message("assistant", NextId, "loading")>>)
    BY <1>1, <1>4 DEF a
  <1> QED BY <1>1, <1>7, <1>8, <1>9, SendStep

\* The beginning of a conversation that has ended, or of one whose last message is
\* being filled.
LEMMA Beginning ==
  ASSUME NEW ms \in Seq(Msg), NEW k \in 0..Len(ms), NEW rq, NEW g,
         \A i \in 1..k : Ours(ms[i], rq, g) /\ Waits(ms[i], rq)
  PROVE  SubSeq(ms, 1, k) \in Seq(Msg) /\ Ended(SubSeq(ms, 1, k), rq, g)
  <1>1. Len(ms) \in Nat /\ k \in Nat /\ \A i \in 1..k : ms[i] \in Msg
    BY SeqFacts
  <1> DEFINE p == SubSeq(ms, 1, k)
  <1>2. /\ p \in Seq(Msg) /\ Len(p) = (IF 1 <= k THEN k - 1 + 1 ELSE 0)
        /\ \A i \in 1..(k - 1 + 1) : p[i] = ms[1 + i - 1]
    BY <1>1, SubSeqProperties
  <1> HIDE DEF p
  <1>3. Len(p) = k
    BY <1>1, <1>2
  <1>4. DOMAIN p = 1..k
    BY <1>2, <1>3, SeqFacts
  <1>5. \A i \in DOMAIN p : p[i] = ms[i]
    BY <1>1, <1>2, <1>4
  <1>6. Ended(p, rq, g)
    BY <1>4, <1>5 DEF Ended
  <1> QED BY <1>2, <1>6 DEF p

LEMMA HandleRegenerateMessageInv ==
  ASSUME ChatInv, HandleRegenerateMessage
  PROVE  ChatInv'
  <1>1. mounted /\ msgs \in Seq(Msg) /\ Ended(msgs, reqs, gen) /\ UNCHANGED editing
    BY IdlePage DEF HandleRegenerateMessage
  <1>2. PICK i \in DOMAIN msgs :
            SendChat(SubSeq(msgs, 1, IF msgs[i].from = "user" THEN i ELSE i - 1)
                       \o <<Message("assistant", NextId, "loading")>>)
    BY DEF HandleRegenerateMessage, Shown
  <1> DEFINE k == IF msgs[i].from = "user" THEN i ELSE i - 1
  <1>3. Len(msgs) \in Nat /\ DOMAIN msgs = 1..Len(msgs)
    BY <1>1, SeqFacts
  <1>4. k \in 0..Len(msgs)
    BY <1>3
  <1>5. SendChat(SubSeq(msgs, 1, k) \o <<Message("assistant", NextId, "loading")>>)
    BY <1>2
  <1> HIDE DEF k
  <1>6. Follows(reqs, gen, reqs', gen')
    BY <1>5, SendFollows
  <1>7. Ended(msgs, reqs', gen')
    BY <1>1, <1>6, EndedKept
  <1>8. \A j \in 1..k : Ours(msgs[j], reqs', gen') /\ Waits(msgs[j], reqs')
    BY <1>3, <1>4, <1>7 DEF Ended
  <1>9. SubSeq(msgs, 1, k) \in Seq(Msg) /\ Ended(SubSeq(msgs, 1, k), reqs', gen')
    BY <1>1, <1>4, <1>8, Beginning
  <1> QED BY <1>1, <1>5, <1>9, SendStep

\* A click of an idle page that only changes the conversation.
LEMMA IdleStep ==
  ASSUME ChatInv, Idle, UNCHANGED <<gen, buf, cgen, reqs, mounted, stored, synced>>,
         editing' \in {editing, <<>>}, msgs' \in Seq(Msg), Ended(msgs', reqs, gen),
         ui' = want, want' = want,
         box' \in Box, box'.queue = <<>>, box'.latest = msgs', box'.saving = TRUE
  PROVE  ChatInv'
  <1>1. mounted /\ ~ui.req /\ ~want.req /\ ~want.str /\ buf.text = <<>>
    BY IdlePage
  <1>2. Shapes'
    BY DEF ChatInv, Shapes
  <1>3. Flags'
    BY <1>1 DEF ChatInv, Flags
  <1>4. Talk(msgs', reqs', gen') /\ Talk(stored', reqs', gen') /\ \A i \in DOMAIN msgs' : Waits(msgs'[i], reqs')
    BY EndedTalk DEF ChatInv, Talks, Ended
  <1>5. ~ui'.req
    BY <1>1
  <1>6. mounted' = TRUE
    BY <1>1 DEF ChatInv, Shapes
  <1>7. Rested'
    BY <1>2, <1>3, <1>4, <1>5, <1>6 DEF Rested
  <1> QED BY <1>7, RestedInv

LEMMA HandleDeleteMessageInv ==
  ASSUME ChatInv, HandleDeleteMessage
  PROVE  ChatInv'
  <1>1. PICK i \in DOMAIN msgs : Change(Update("remove", 0, Key(msgs[i])))
    BY DEF HandleDeleteMessage, Shown
  <1>2. Idle /\ UNCHANGED <<editing, reqs>>
    BY DEF HandleDeleteMessage
  <1>3. box \in Box /\ msgs \in Seq(Msg) /\ box.queue = <<>> /\ Ended(msgs, reqs, gen)
    BY <1>2, IdlePage
  <1>4. Key(msgs[i]) \in MsgKey
    <2>1. msgs[i] \in Msg
      BY <1>3, SeqFacts
    <2> QED BY <2>1 DEF Key, MsgKey, Msg
  <1>5. /\ Show(Put(box, Update("remove", 0, Key(msgs[i])), gen, FALSE), gen, want)
        /\ UNCHANGED <<gen, buf, cgen, mounted, stored, synced>>
    BY <1>1 DEF Change
  <1> DEFINE key == Key(msgs[i])
  <1>6. /\ msgs' = Without(msgs, key)
        /\ box' \in Box /\ box'.queue = <<>> /\ box'.latest = msgs' /\ box'.saving = TRUE
    BY <1>3, <1>4, <1>5, ShowRemove
  <1>7. ui' = want /\ want' = want
    BY <1>5 DEF Show
  <1> HIDE DEF key
  <1>8. /\ msgs' \in Seq(Msg)
        /\ \A j \in DOMAIN msgs' : \E k \in DOMAIN msgs : msgs'[j] = msgs[k]
    BY <1>3, <1>6, WithoutSubset
  <1>9. Ended(msgs', reqs, gen)
    BY <1>3, <1>8 DEF Ended
  <1> QED BY <1>2, <1>5, <1>6, <1>7, <1>8, <1>9, IdleStep

LEMMA HandleClearMessagesInv ==
  ASSUME ChatInv, HandleClearMessages
  PROVE  ChatInv'
  <1>1. /\ Idle /\ editing' = <<>> /\ UNCHANGED <<reqs, gen, buf, cgen, mounted, stored, synced>>
        /\ Show(Put(box, Update("set", 0, <<>>), gen, FALSE), gen, want)
    BY DEF HandleClearMessages, Change
  <1>2. <<>> \in Seq(Msg) /\ box \in Box
    BY EmptySeq DEF ChatInv, Shapes
  <1>3. /\ msgs' = <<>>
        /\ box' \in Box /\ box'.queue = <<>> /\ box'.latest = msgs' /\ box'.saving = TRUE
    BY <1>1, <1>2, ShowSet
  <1>4. ui' = want /\ want' = want
    BY <1>1 DEF Show
  <1>5. Ended(msgs', reqs, gen)
    BY <1>3 DEF Ended
  <1> QED BY <1>1, <1>2, <1>3, <1>4, <1>5, IdleStep

LEMMA EditorStep ==
  ASSUME ChatInv, UNCHANGED <<screen, gen, buf, cgen, reqs, mounted, stored, synced>>,
         editing' # <<>> => mounted /\ ~ui.req /\ editing' \in MsgKey /\ editing'[2] <= Len(reqs)
  PROVE  ChatInv'
  <1>1. Coming' = Coming
    BY DEF Coming, screen
  <1>2. Shapes' /\ Coming' \in Seq(Msg) /\ Due' /\ Queued' /\ Away'
    BY <1>1 DEF ChatInv, Shapes, Due, Queued, Away, screen
  <1>3. Talks' /\ Flags' /\ Buffered'
    BY <1>1 DEF ChatInv, Talks, Flags, Buffered, screen
  <1>4. Live'
    <2>1. <<>> # <<"assistant", gen>>
      OBVIOUS
    <2> QED BY <1>1, <2>1 DEF ChatInv, Live, screen
  <1> QED BY <1>2, <1>3, <1>4 DEF ChatInv

LEMMA HandleEditMessageInv ==
  ASSUME ChatInv, HandleEditMessage
  PROVE  ChatInv'
  <1>1. PICK i \in DOMAIN msgs : editing' = Key(msgs[i])
    BY DEF HandleEditMessage, Shown
  <1>2. Idle /\ UNCHANGED <<screen, gen, buf, cgen, reqs, mounted, stored, synced>>
    BY DEF HandleEditMessage, chat
  <1>3. mounted /\ ~ui.req /\ msgs \in Seq(Msg) /\ Ended(msgs, reqs, gen) /\ reqs \in Seq(Req)
    BY <1>2, IdlePage DEF ChatInv, Shapes
  <1>4. msgs[i] \in Msg /\ msgs[i].id \in DOMAIN reqs
    BY <1>3, SeqFacts DEF Ended, Ours
  <1>5. msgs[i].id <= Len(reqs)
    BY <1>3, <1>4, SeqFacts
  <1>6. editing' \in MsgKey /\ editing'[2] <= Len(reqs)
    BY <1>1, <1>4, <1>5 DEF Key, MsgKey, Msg
  <1> QED BY <1>2, <1>3, <1>6, EditorStep

LEMMA HandleEditOpenChangeInv ==
  ASSUME ChatInv, HandleEditOpenChange
  PROVE  ChatInv'
  BY EditorStep DEF HandleEditOpenChange, chat, page

\* The conversation ms with another text in message i.
WithEdit(ms, i) == [ms EXCEPT ![i].text = <<>>, ![i].edited = TRUE]

\* The message in the editor is not the one that is being filled.
LEMMA Edited ==
  ASSUME ChatInv, NEW i \in DOMAIN msgs, Key(msgs[i]) = editing,
         NEW ms, ms = WithEdit(msgs, i)
  PROVE  /\ ms \in Seq(Msg) /\ Len(ms) = Len(msgs) /\ DOMAIN ms = DOMAIN msgs
         /\ msgs \in Seq(Msg) /\ DOMAIN msgs = 1..Len(msgs) /\ Len(msgs) \in Nat
         /\ \A k \in DOMAIN msgs :
              /\ ms[k].status = msgs[k].status /\ ms[k].id = msgs[k].id
              /\ k # i => ms[k] = msgs[k]
              /\ Ours(ms[k], reqs, gen)
         /\ ui.req => i # Len(msgs) /\ Len(msgs) \in DOMAIN msgs
  <1> DEFINE m == [msgs[i] EXCEPT !.text = <<>>, !.edited = TRUE]
  <1>1. msgs \in Seq(Msg) /\ Talk(msgs, reqs, gen)
    BY DEF ChatInv, Shapes, Talks
  <1>2. DOMAIN msgs = 1..Len(msgs) /\ Len(msgs) \in Nat /\ msgs[i] \in Msg
    BY <1>1, SeqFacts
  <1>3. ms = [msgs EXCEPT ![i] = m]
    BY DEF WithEdit
  <1>4. /\ m \in Msg /\ m.from = msgs[i].from /\ m.id = msgs[i].id /\ m.status = msgs[i].status
        /\ m.text = <<>> /\ m.edited = TRUE
    BY <1>2, EmptySeq DEF Msg
  <1> HIDE DEF m
  <1>5. /\ ms \in Seq(Msg) /\ Len(ms) = Len(msgs)
        /\ \A j \in 1..Len(msgs) : ms[j] = IF j = i THEN m ELSE msgs[j]
    <2>1. i \in 1..Len(msgs)
      BY <1>2
    <2>2. /\ [msgs EXCEPT ![i] = m] \in Seq(Msg) /\ Len([msgs EXCEPT ![i] = m]) = Len(msgs)
          /\ \A j \in 1..Len(msgs) : [msgs EXCEPT ![i] = m][j] = IF j = i THEN m ELSE msgs[j]
      BY ONLY <1>1, <1>4, <2>1, ExceptSeq
    <2> QED BY <1>3, <2>2
  <1>6. DOMAIN ms = DOMAIN msgs
    BY <1>2, <1>5, SeqFacts
  <1>7. Ours(msgs[i], reqs, gen)
    BY <1>1 DEF Talk
  <1>8. Ours(m, reqs, gen)
    BY <1>4, <1>7 DEF Ours, Pending, Parts, InOrder
  <1>9. ASSUME NEW k \in DOMAIN msgs
        PROVE  /\ ms[k].status = msgs[k].status /\ ms[k].id = msgs[k].id
               /\ k # i => ms[k] = msgs[k]
               /\ Ours(ms[k], reqs, gen)
    BY <1>1, <1>2, <1>4, <1>5, <1>8 DEF Talk
  <1>10. ASSUME ui.req PROVE i # Len(msgs) /\ Len(msgs) \in DOMAIN msgs
    <2>1. Open(msgs, gen) /\ editing # <<"assistant", gen>>
      BY <1>10 DEF ChatInv, Live
    <2>2. Len(msgs) \in DOMAIN msgs
      BY <1>1, <2>1, SeqFacts DEF Open
    <2> QED BY <2>1, <2>2 DEF Open, Key
  <1> QED BY <1>1, <1>2, <1>5, <1>6, <1>9, <1>10

LEMMA ApplyEditInv ==
  ASSUME ChatInv, ApplyEdit
  PROVE  ChatInv'
  <1>1. mounted /\ editing # <<>> /\ editing' = <<>>
    BY DEF ApplyEdit
  <1>2. PICK i \in DOMAIN msgs :
            LET ms == WithEdit(msgs, i) IN
            /\ Key(msgs[i]) = editing
            /\ \/ /\ Change(Update("set", 0, ms)) /\ UNCHANGED changes
                  /\ reqs' = [r \in DOMAIN reqs |->
                        IF box.queue # <<>> /\ r = Last(msgs).id THEN [reqs[r] EXCEPT !.raced = TRUE]
                        ELSE reqs[r]]
               \/ /\ msgs[i].from = "user"
                  /\ SendChat(SubSeq(ms, 1, i) \o <<Message("assistant", NextId, "loading")>>)
    BY DEF ApplyEdit, WithEdit
  <1>3. PICK ms : ms = WithEdit(msgs, i)
    OBVIOUS
  <1>4. /\ ms \in Seq(Msg) /\ Len(ms) = Len(msgs) /\ DOMAIN ms = DOMAIN msgs
        /\ msgs \in Seq(Msg) /\ DOMAIN msgs = 1..Len(msgs) /\ Len(msgs) \in Nat
        /\ \A k \in DOMAIN msgs :
             /\ ms[k].status = msgs[k].status /\ ms[k].id = msgs[k].id
             /\ k # i => ms[k] = msgs[k]
             /\ Ours(ms[k], reqs, gen)
        /\ ui.req => i # Len(msgs) /\ Len(msgs) \in DOMAIN msgs
    <2>1. Key(msgs[i]) = editing
      BY <1>2
    <2> QED BY ONLY ChatInv, <1>3, <2>1, Edited
  <1>5. \A k \in DOMAIN msgs : k # Len(msgs) \/ ~ui.req => Waits(msgs[k], reqs)
    BY DEF ChatInv, Live, Talks, Talk
  <1>6. \A k \in DOMAIN msgs : k # Len(msgs) \/ ~ui.req => Waits(ms[k], reqs)
    BY <1>4, <1>5 DEF Waits, Pending
  <1>7. ASSUME msgs[i].from = "user",
               SendChat(SubSeq(ms, 1, i) \o <<Message("assistant", NextId, "loading")>>)
        PROVE  ChatInv'
    <2>1. Follows(reqs, gen, reqs', gen')
      BY <1>7, SendFollows
    <2>2. i \in 0..Len(ms) /\ \A k \in 1..i : k \in DOMAIN msgs /\ (ui.req => k # Len(msgs))
      <3>1. /\ i \in 1..Len(msgs) /\ i \in Nat /\ DOMAIN msgs = 1..Len(msgs)
            /\ Len(msgs) \in Nat /\ Len(ms) = Len(msgs) /\ (ui.req => i # Len(msgs))
        BY <1>4
      <3>2. i \in 0..Len(ms)
        BY <3>1
      <3>3. ASSUME NEW k \in 1..i PROVE k \in 1..Len(msgs) /\ (i # Len(msgs) => k # Len(msgs))
        <4>1. \A n \in Nat : \A j \in 1..n : \A h \in 1..j : h \in 1..n /\ (j # n => h # n)
          OBVIOUS
        <4> QED BY <3>1, <4>1
      <3> QED BY <3>1, <3>2, <3>3
    <2>3. \A k \in 1..i : Ours(ms[k], reqs', gen') /\ Waits(ms[k], reqs')
      BY <1>4, <1>6, <2>1, <2>2, OursKept
    <2>4. SubSeq(ms, 1, i) \in Seq(Msg) /\ Ended(SubSeq(ms, 1, i), reqs', gen')
      BY <1>4, <2>2, <2>3, Beginning
    <2> QED BY <1>1, <1>7, <2>4, SendStep
  <1>8. ASSUME Change(Update("set", 0, ms)),
               reqs' = [r \in DOMAIN reqs |->
                    IF box.queue # <<>> /\ r = Last(msgs).id THEN [reqs[r] EXCEPT !.raced = TRUE]
                    ELSE reqs[r]]
        PROVE  ChatInv'
    <2>1. /\ Show(Put(box, Update("set", 0, ms), gen, FALSE), gen, want)
          /\ UNCHANGED <<gen, buf, cgen, mounted, stored, synced>>
      BY <1>8 DEF Change
    <2>2. box \in Box /\ reqs \in Seq(Req) /\ gen \in 0..Len(reqs) /\ ui \in Flag /\ want \in Flag
      BY DEF ChatInv, Shapes
    <2>3. /\ msgs' = ms /\ box' \in Box /\ box'.queue = <<>> /\ box'.latest = ms
          /\ box'.saving = TRUE
      BY <1>4, <2>1, <2>2, ShowSet
    <2>4. ui' = want /\ want' = want
      BY <2>1 DEF Show
    <2>5. /\ Len(reqs) \in Nat /\ DOMAIN reqs = 1..Len(reqs) /\ \A r \in DOMAIN reqs : reqs[r] \in Req
      BY <2>2, SeqFacts
    <2>6. \A r \in DOMAIN reqs :
            /\ reqs'[r] \in Req /\ reqs'[r].phase = reqs[r].phase /\ reqs'[r].got = reqs[r].got
            /\ reqs'[r].whole = reqs[r].whole /\ (reqs[r].raced => reqs'[r].raced)
            /\ box.queue = <<>> => reqs'[r] = reqs[r]
            /\ box.queue # <<>> /\ r = Last(msgs).id => reqs'[r].raced
      BY <1>8, <2>5 DEF Req
    <2>7. reqs' \in Seq(Req) /\ Len(reqs') = Len(reqs) /\ DOMAIN reqs' = DOMAIN reqs
      <3>1. reqs' \in [1..Len(reqs) -> Req]
        BY <1>8, <2>5, <2>6
      <3> QED BY <2>5, <3>1, FunSeq
    <2>8. Follows(reqs, gen, reqs', gen)
      BY <2>6, <2>7 DEF Follows, Plain
    <2>9. \A k \in DOMAIN msgs : Ours(ms[k], reqs', gen) /\ (Waits(ms[k], reqs) => Waits(ms[k], reqs'))
      BY <1>4, <2>8, OursKept
    <2>10. Talk(ms, reqs', gen) /\ Talk(stored, reqs', gen)
      <3>1. Talk(stored, reqs', gen)
        BY <2>8, TalkKept DEF ChatInv, Talks
      <3> QED BY <1>4, <1>6, <2>9, <3>1 DEF Talk
    <2>11. gen # 0 => gen \in DOMAIN reqs
      BY <2>2, <2>5
    <2>12. Shapes'
      BY <1>1, <1>4, <2>1, <2>2, <2>3, <2>4, <2>7 DEF ChatInv, Shapes
    <2>13. Flags'
      BY <2>1, <2>3, <2>4, <2>6, <2>7, <2>11 DEF ChatInv, Flags
    <2>14. ui.req => ms[Len(ms)] = msgs[Len(msgs)] /\ Last(ms) = Last(msgs) /\ Last(msgs).id = gen
      BY <1>4 DEF ChatInv, Live, Open, Last
    <2>15. want.req => ui.req
      BY DEF ChatInv, Flags
    <2>16. IF want.req THEN gen # 0 /\ Open(ms, gen) /\ Pending(Last(ms)) /\ editing' # <<"assistant", gen>>
           ELSE \A k \in DOMAIN ms : Waits(ms[k], reqs')
      <3>1. CASE want.req
        <4>1. /\ gen # 0 /\ Open(msgs, gen) /\ Pending(Last(msgs)) /\ <<>> # <<"assistant", gen>>
          BY <2>15, <3>1 DEF ChatInv, Live
        <4>2. Len(ms) \in DOMAIN ms /\ ms # <<>>
          BY <1>4, <2>15, <3>1, SeqFacts
        <4> QED BY <1>1, <2>14, <2>15, <3>1, <4>1, <4>2 DEF Open
      <3>2. CASE ~want.req /\ ~ui.req
        BY <1>4, <1>6, <2>9, <3>2
      <3>3. CASE ~want.req /\ ui.req
        <4>1. box.queue # <<>>
          <5> SUFFICES ASSUME box.queue = <<>> PROVE FALSE
            OBVIOUS
          <5>1. Coming = msgs
            BY RenderedEmpty DEF Coming
          <5> QED BY <3>3, <5>1 DEF ChatInv, Live
        <4>2. gen \in DOMAIN reqs /\ Last(msgs).id = gen
          BY <2>11, <2>14, <3>3 DEF ChatInv, Live
        <4>3. reqs'[gen].raced
          BY <2>6, <4>1, <4>2
        <4>4. Waits(ms[Len(ms)], reqs')
          BY <2>14, <3>3, <4>2, <4>3 DEF Waits, Last
        <4> QED BY <1>4, <1>6, <2>9, <3>3, <4>4
      <3> QED BY <3>1, <3>2, <3>3
    <2>17. ASSUME want.req
           PROVE  /\ Arrived(Last(ms).text, buf.text, gen, reqs'[gen])
      <3>1. ui.req /\ gen \in DOMAIN reqs /\ Last(msgs).id = gen /\ Last(ms) = Last(msgs)
        BY <2>11, <2>14, <2>15, <2>17 DEF ChatInv, Live
      <3>2. ASSUME ~reqs'[gen].raced PROVE Coming = msgs /\ reqs'[gen] = reqs[gen]
        <4>1. box.queue = <<>>
          BY <2>6, <3>1, <3>2
        <4> QED BY <2>6, <3>1, <4>1, RenderedEmpty DEF Coming
      <3> QED BY <2>17, <3>1, <3>2 DEF ChatInv, Buffered, Arrived, Plain
    <2>18. mounted' = TRUE
      BY <1>1, <2>1 DEF ChatInv, Shapes
    <2>19. Rested'
      BY <2>1, <2>3, <2>4, <2>10, <2>12, <2>13, <2>16, <2>17, <2>18 DEF Rested
    <2> QED BY <2>19, RestedInv
  <1> QED BY <1>2, <1>3, <1>7, <1>8

\* stopGeneration: what the queue has of this generation is dropped, and the
\* message that was being filled is complete.
LEMMA StopGenerationInv ==
  ASSUME ChatInv, StopGeneration
  PROVE  ChatInv'
  <1> DEFINE u == Update("complete", 0, <<>>)
  <1>1. PICK eager \in BOOLEAN : Show(Put(Flush(gen, eager), u, 0, FALSE), 0, Off)
    BY DEF StopGeneration
  <1>2. /\ mounted /\ gen' = 0 /\ cgen' = 0 /\ buf' = [gen |-> 0, text |-> <<>>]
        /\ reqs' = [r \in DOMAIN reqs |-> [Aborted[r] EXCEPT !.whole = @ /\ r # gen]]
        /\ UNCHANGED <<stored, synced, mounted, editing>>
    BY DEF StopGeneration, Discard, Supersede, page
  <1>3. ui.req
    BY DEF StopGeneration, Generating, ChatInv, Flags
  <1>4. gen # 0 /\ gen \in DOMAIN reqs /\ gen \in Nat
    BY <1>3, LastComing
  <1>5. u \in Upd /\ u.op = "complete" /\ u.op \in Filling /\ u.gen = 0 /\ u.val \in Seq(Piece)
    BY EmptySeq DEF Update, Upd, Filling
  <1> HIDE DEF u
  <1> DEFINE b == Flush(gen, eager)
             c == Rendered(b.queue, msgs, gen)
  <1>6. /\ b \in Box /\ Sane(b, msgs, gen) /\ c \in Seq(Msg) /\ b.latest \in {box.latest, c}
        /\ Talk(c, reqs, gen) /\ Open(c, gen)
    BY <1>3, FlushBox
  <1> HIDE DEF b, c
  <1>7. /\ msgs \in Seq(Msg) /\ Talk(msgs, reqs, gen) /\ Open(msgs, gen) /\ box.latest \in Seq(Msg)
        /\ Talk(box.latest, reqs, gen) /\ Open(box.latest, gen)
    BY <1>3 DEF ChatInv, Shapes, Talks, Live, Box
  <1> DEFINE x == Rendered(b.queue, msgs, 0)
             d == [b EXCEPT !.queue = Append(@, u)]
  <1>8. b.queue \in Seq(Upd)
    BY <1>6 DEF Box
  <1>9. x \in {msgs, b.latest}
    <2>1. \A i \in DOMAIN b.queue :
            \/ b.queue[i].op = "computed" /\ b.queue[i].val = b.latest
            \/ b.queue[i].op \in {"append", "complete", "error", "answer"} /\ b.queue[i].gen # 0
      BY <1>4, <1>6 DEF Sane, Filling
    <2> QED BY <1>8, <2>1, RenderedOther
  <1>10. x \in Seq(Msg) /\ Talk(x, reqs, gen) /\ Open(x, gen)
    BY <1>6, <1>7, <1>9
  <1>11. Show(d, 0, Off)
    BY <1>1 DEF Put, b
  <1>12. /\ Append(b.queue, u) \in Seq(Upd)
         /\ Len(b.queue) + 1 \in DOMAIN Append(b.queue, u)
         /\ Append(b.queue, u)[Len(b.queue) + 1] = u
    BY <1>5, <1>8, AppendProperties, LenProperties
  <1>13. d \in Box /\ d.queue = Append(b.queue, u)
    BY <1>6, <1>12 DEF Box
  <1> HIDE DEF d
  <1>14. \E i \in DOMAIN d.queue : d.queue[i].op # "computed"
    BY <1>5, <1>12, <1>13
  <1>15. msgs' = Evaluate(u, x, 0)
    <2>1. msgs' = Rendered(d.queue, msgs, 0)
      BY <1>11, <1>13, ShowBox
    <2>2. Rendered(Append(b.queue, u), msgs, 0) = Evaluate(u, Rendered(b.queue, msgs, 0), 0)
      BY ONLY <1>5, <1>8, RenderedAppend
    <2> QED BY <1>13, <2>1, <2>2
  <1> HIDE DEF x
  <1>16. /\ msgs' \in Seq(Msg) /\ Len(msgs') = Len(x) /\ Open(msgs', gen) /\ Last(x) \in Msg
         /\ Last(msgs') = Changed(u, Last(x))
         /\ \A i \in DOMAIN x : i # Len(x) => msgs'[i] = x[i]
    <2>1. /\ Evaluate(u, x, 0) \in Seq(Msg) /\ Len(Evaluate(u, x, 0)) = Len(x)
          /\ Open(Evaluate(u, x, 0), gen) /\ Last(x) \in Msg
          /\ Last(Evaluate(u, x, 0)) = Changed(u, Last(x))
          /\ \A i \in DOMAIN x : i # Len(x) => Evaluate(u, x, 0)[i] = x[i]
      BY ONLY <1>5, <1>10, Evaluated
    <2> QED BY <1>15, <2>1
  <1>17. box' \in Box /\ box'.queue = <<>> /\ box'.latest = msgs' /\ box'.saving = TRUE
    <2>1. msgs' \in Seq(Msg) => box' \in Box
      BY ONLY <1>11, <1>13, ShowBox
    <2>2. box'.queue = <<>>
      BY ONLY <1>11, <1>13, ShowBox
    <2>3. box'.latest = msgs' /\ box'.saving = TRUE
      BY <1>11, <1>13, <1>14, ShowBox
    <2> QED BY <1>16, <2>1, <2>2, <2>3
  <1>18. ui' = Off /\ want' = Off
    BY <1>11 DEF Show
  <1>19. /\ reqs \in Seq(Req) /\ Len(reqs) \in Nat /\ DOMAIN reqs = 1..Len(reqs)
         /\ \A r \in DOMAIN reqs : reqs[r] \in Req
    BY SeqFacts DEF ChatInv, Shapes
  <1>20. \A r \in DOMAIN reqs :
            /\ reqs'[r] \in Req /\ reqs'[r].phase # "sent"
            /\ reqs'[r].raced = reqs[r].raced /\ reqs'[r].got = reqs[r].got
            /\ reqs'[r].whole => reqs[r].whole /\ r # gen
    <2> TAKE r \in DOMAIN reqs
    <2>1. /\ Aborted[r] \in Req /\ Aborted[r].phase # "sent" /\ Aborted[r].raced = reqs[r].raced
          /\ Aborted[r].got = reqs[r].got /\ Aborted[r].whole = reqs[r].whole
      BY <1>19 DEF Aborted, Req
    <2>2. reqs'[r] = [Aborted[r] EXCEPT !.whole = Aborted[r].whole /\ r # gen]
      BY <1>2
    <2> QED BY <2>1, <2>2 DEF Req
  <1>21. reqs' \in Seq(Req) /\ Len(reqs') = Len(reqs) /\ DOMAIN reqs' = DOMAIN reqs
    <2>1. reqs' \in [1..Len(reqs) -> Req]
      BY <1>2, <1>19, <1>20
    <2> QED BY <1>19, <2>1, FunSeq
  <1>22. Follows(reqs, gen, reqs', 0)
    BY <1>19, <1>20, <1>21 DEF Follows, Plain
  <1>23. Talk(x, reqs', 0) /\ Talk(stored, reqs', 0)
    BY <1>10, <1>22, TalkKept DEF ChatInv, Talks
  <1>24. Ours(Last(x), reqs', 0) /\ Last(x).id = gen /\ Last(x).from = "assistant"
    <2>1. Len(x) \in DOMAIN x /\ Last(x) = x[Len(x)]
      BY <1>10, SeqFacts DEF Open, Last
    <2> QED BY <1>10, <1>23, <2>1 DEF Talk, Open
  <1>25. /\ ~Pending(Last(msgs')) /\ Last(msgs').id = gen /\ Last(msgs').from = "assistant"
         /\ Last(msgs').text = Last(x).text
    BY <1>5, <1>16, <1>24 DEF Changed, Pending, Msg
  <1>26. Ours(Last(msgs'), reqs', 0)
    <2>1. ~reqs'[gen].whole /\ gen # 0
      BY <1>4, <1>20
    <2> QED BY <1>24, <1>25, <2>1 DEF Ours
  <1>27. Talk(msgs', reqs', 0)
    BY <1>10, <1>16, <1>23, <1>26, TalkLast
  <1>28. \A i \in DOMAIN msgs' : Waits(msgs'[i], reqs')
    BY <1>25, <1>27 DEF Talk, Waits, Last
  <1>29. buf' \in [gen : Nat, text : Seq(Piece)] /\ buf'.gen = 0 /\ buf'.text = <<>>
    BY <1>2, EmptySeq
  <1>30. Off \in Flag /\ ~Off.req /\ ~Off.str
    BY DEF Off, Flag
  <1>31. editing' # <<>> => editing' \in MsgKey /\ editing'[2] <= Len(reqs')
    BY <1>2, <1>21 DEF ChatInv, Shapes
  <1>32. 0 \in 0..Len(reqs') /\ stored' \in Seq(Msg) /\ mounted' = TRUE
    BY <1>2, <1>19, <1>21 DEF ChatInv, Shapes
  <1>33. Shapes'
    <2>1. synced' \in BOOLEAN
      BY <1>2 DEF ChatInv, Shapes
    <2> QED BY <1>2, <1>16, <1>17, <1>18, <1>21, <1>29, <1>30, <1>31, <1>32, <2>1 DEF Shapes
  <1>34. Flags'
    BY <1>2, <1>17, <1>18, <1>20, <1>21, <1>29, <1>30 DEF Flags
  <1>35. Rested'
    BY <1>2, <1>17, <1>18, <1>23, <1>27, <1>28, <1>30, <1>32, <1>33, <1>34 DEF Rested
  <1> QED BY <1>35, RestedInv

-----------------------------------------------------------------------------
(* The page.                                                               *)

LEMMA Sanitized ==
  ASSUME NEW ms \in Seq(Msg), NEW rq, NEW g, Talk(ms, rq, g), g = 0,
         0 \notin DOMAIN rq, \A r \in DOMAIN rq : ~rq[r].whole
  PROVE  Sanitize(ms) \in Seq(Msg) /\ Ended(Sanitize(ms), rq, g)
  <1> DEFINE n == Normalized(ms)
             open == {i \in DOMAIN n : Pending(n[i])}
             s == Sanitize(ms)
  <1>1. Len(ms) \in Nat /\ DOMAIN ms = 1..Len(ms) /\ \A i \in DOMAIN ms : ms[i] \in Msg
    BY SeqFacts
  <1>2. DOMAIN n = DOMAIN ms
    BY DEF Normalized
  <1>3. ASSUME NEW i \in DOMAIN ms
        PROVE  /\ n[i] \in Msg /\ n[i].from = ms[i].from /\ n[i].id = ms[i].id
               /\ n[i].text = ms[i].text
               /\ Pending(n[i]) => n[i] = ms[i]
    <2>1. CASE Pending(ms[i]) /\ HasContent(ms[i])
      <3>1. n[i] = [ms[i] EXCEPT !.status = "complete"]
        BY <2>1 DEF Normalized
      <3> QED BY <1>1, <3>1 DEF Msg, Pending
    <2>2. CASE ~(Pending(ms[i]) /\ HasContent(ms[i]))
      <3>1. n[i] = ms[i]
        BY <2>2 DEF Normalized
      <3> QED BY <1>1, <3>1
    <2> QED BY <2>1, <2>2
  <1>4. /\ DOMAIN s = DOMAIN ms
        /\ \A i \in DOMAIN ms : s[i] = IF i \in open /\ \A j \in open : j <= i
                                       THEN Changed([op |-> "error"], n[i]) ELSE n[i]
    BY <1>2 DEF Sanitize
  <1>5. \A i \in open : i \in DOMAIN ms /\ Pending(n[i])
    BY <1>2
  <1>6. \A i \in DOMAIN ms : i \notin open => ~Pending(n[i])
    BY <1>2
  <1>7. ASSUME NEW i \in DOMAIN ms
        PROVE  s[i] \in Msg /\ Ours(s[i], rq, g) /\ Waits(s[i], rq)
    <2>1. Ours(ms[i], rq, g) /\ (i # Len(ms) => Waits(ms[i], rq))
      BY DEF Talk
    <2>2. Ours(n[i], rq, g)
      BY <1>3, <2>1 DEF Ours, Pending
    <2>3. CASE i \in open /\ \A j \in open : j <= i
      <3>1. s[i] = [n[i] EXCEPT !.text = <<>>, !.edited = FALSE, !.status = "error"]
        BY <1>4, <2>3 DEF Changed
      <3>2. n[i] \in Msg /\ <<>> \in Seq(Piece)
        BY <1>3, EmptySeq
      <3> HIDE DEF n, s
      <3>3. /\ s[i] \in Msg /\ s[i].id = n[i].id /\ s[i].from = n[i].from /\ s[i].status = "error"
            /\ s[i].text = <<>>
        BY ONLY <3>1, <3>2 DEF Msg
      <3> QED BY <2>2, <3>3 DEF Ours, Waits, Pending, Parts, InOrder
    <2>4. CASE ~(i \in open /\ \A j \in open : j <= i)
      <3>1. s[i] = n[i]
        BY <1>4, <2>4
      <3>2. ASSUME Pending(n[i]) PROVE Waits(ms[i], rq)
        <4>1. i \in open
          BY <1>6, <3>2
        <4>2. PICK j \in open : ~(j <= i)
          BY <2>4, <4>1
        <4>3. i # Len(ms)
          <5>1. j \in 1..Len(ms) /\ i \in 1..Len(ms)
            BY <1>1, <1>5, <4>2
          <5> QED BY <1>1, <4>2, <5>1
        <4> QED BY <2>1, <4>3
      <3>3. Waits(n[i], rq)
        BY <1>3, <3>2 DEF Waits
      <3> QED BY <1>3, <2>2, <3>1, <3>3
    <2> QED BY <2>3, <2>4
  <1>8. s \in [1..Len(ms) -> Msg]
    <2>1. s = [i \in DOMAIN s |-> s[i]]
      BY DEF Sanitize
    <2> QED BY <1>1, <1>4, <1>7, <2>1
  <1>9. s \in Seq(Msg)
    BY <1>1, <1>8, FunSeq
  <1>10. Ended(s, rq, g)
    BY <1>4, <1>7 DEF Ended
  <1> QED BY <1>9, <1>10

LEMMA MountInv ==
  ASSUME ChatInv, Mount
  PROVE  ChatInv'
  <1> DEFINE ms == Sanitize(Trim(stored))
  <1>1. /\ ~mounted /\ mounted' = TRUE
        /\ \/ msgs' = ms /\ stored' = Trim(msgs') /\ synced' = TRUE
           \/ msgs' = ms /\ stored' = stored /\ synced' = FALSE
           \/ msgs' = <<>> /\ stored' \in {stored, <<>>} /\ synced' = (stored' = <<>>)
        /\ box' = [queue |-> <<>>, latest |-> msgs', saving |-> FALSE]
        /\ UNCHANGED <<ui, want, gen, buf, cgen, reqs, editing>>
    BY DEF Mount, Save, chat
  <1>2. /\ gen = 0 /\ ui = Off /\ want = Off /\ buf.text = <<>>
        /\ \A r \in DOMAIN reqs : reqs[r].phase = "over" /\ ~reqs[r].whole
    BY <1>1 DEF ChatInv, Away
  <1>3. /\ stored \in Seq(Msg) /\ Talk(stored, reqs, gen) /\ 0 \notin DOMAIN reqs
    BY SeqFacts DEF ChatInv, Shapes, Talks
  <1>4. Trim(stored) \in Seq(Msg) /\ Talk(Trim(stored), reqs, gen)
    BY <1>3, Trimmed
  <1>5. ms \in Seq(Msg) /\ Ended(ms, reqs, gen)
    BY <1>2, <1>3, <1>4, Sanitized
  <1> HIDE DEF ms
  <1>6. /\ <<>> \in Seq(Msg) /\ Ended(<<>>, reqs, gen) /\ Talk(<<>>, reqs, gen) /\ Trim(<<>>) = <<>>
    <2>1. <<>> \in Seq(Msg) /\ Len(<<>>) = 0 /\ DOMAIN <<>> = {} /\ ~(0 > MaxStored)
      BY EmptySeq, PlaygroundAssumption
    <2>2. Trim(<<>>) = SubSeq(<<>>, 1, 0)
      BY <2>1 DEF Trim
    <2>3. SubSeq(<<>>, 1, 0) = <<>>
      BY SubSeqEmpty
    <2> QED BY <2>1, <2>2, <2>3 DEF Ended, Talk
  <1>7. msgs' \in Seq(Msg) /\ Ended(msgs', reqs, gen)
    BY <1>1, <1>5, <1>6
  <1>8. Talk(msgs', reqs, gen)
    BY <1>7, EndedTalk
  <1>9. /\ stored' \in Seq(Msg) /\ Talk(stored', reqs, gen) /\ synced' \in BOOLEAN
        /\ ~synced' \/ stored' = Trim(msgs')
    <2>1. Trim(msgs') \in Seq(Msg) /\ Talk(Trim(msgs'), reqs, gen)
      BY <1>7, <1>8, Trimmed
    <2> QED BY <1>1, <1>3, <1>6, <2>1
  <1>10. box' \in Box /\ box'.queue = <<>> /\ box'.latest = msgs'
    BY <1>1, <1>7, EmptySeq DEF Box
  <1>11. Shapes'
    BY <1>1, <1>7, <1>9, <1>10 DEF ChatInv, Shapes
  <1>12. Flags'
    BY <1>1, <1>2, <1>10 DEF ChatInv, Flags
  <1>13. ~ui'.req
    BY <1>1, <1>2 DEF Off
  <1>14. \A i \in DOMAIN msgs' : Waits(msgs'[i], reqs')
    BY <1>1, <1>7 DEF Ended
  <1>15. Rested'
    BY <1>1, <1>2, <1>8, <1>9, <1>10, <1>11, <1>12, <1>13, <1>14 DEF Rested
  <1> QED BY <1>15, RestedInv

\* The state of a page that is not open, with a conversation in the storage.
LEMMA AwayInv ==
  ASSUME mounted' = FALSE, msgs' = <<>>, ui' = Off, want' = Off, editing' = <<>>, gen' = 0, cgen' = 0,
         box' = [queue |-> <<>>, latest |-> <<>>, saving |-> FALSE],
         buf' = [gen |-> 0, text |-> <<>>],
         reqs' \in Seq(Req), \A r \in DOMAIN reqs' : reqs'[r].phase = "over" /\ ~reqs'[r].whole,
         stored' \in Seq(Msg), Talk(stored', reqs', 0), synced' \in BOOLEAN
  PROVE  ChatInv'
  <1>1. Coming' = <<>>
    BY RenderedEmpty DEF Coming
  <1>2. <<>> \in Seq(Msg) /\ <<>> \in Seq(Upd) /\ <<>> \in Seq(Piece) /\ Len(reqs') \in Nat
    BY EmptySeq, SeqFacts
  <1>3. box' \in Box /\ box'.queue = <<>> /\ box'.latest = <<>>
    BY <1>2 DEF Box
  <1>4. Off \in Flag /\ ~Off.req /\ ~Off.str
    BY DEF Off, Flag
  <1>5. buf' \in [gen : Nat, text : Seq(Piece)] /\ buf'.gen = 0 /\ buf'.text = <<>>
    BY <1>2
  <1>6. Shapes' /\ Coming' \in Seq(Msg) /\ Due'
    <2>1. 0 \in 0..Len(reqs')
      BY <1>2
    <2>2. /\ (mounted \in BOOLEAN)' /\ (synced \in BOOLEAN)' /\ (msgs \in Seq(Msg))' /\ (stored \in Seq(Msg))'
          /\ (ui \in Flag)' /\ (want \in Flag)' /\ (reqs \in Seq(Req))'
          /\ (gen \in 0..Len(reqs))' /\ (cgen = gen)'
      BY <1>2, <1>4, <2>1
    <2>3. Shapes'
      BY <1>3, <1>5, <2>2 DEF Shapes
    <2>4. Due'
      BY DEF Due
    <2> QED BY <1>1, <1>2, <2>3, <2>4
  <1>7. Queued'
    BY <1>3 DEF Queued, Sane
  <1>8. Talk(<<>>, reqs', 0)
    BY DEF Talk
  <1>9. Talks'
    BY <1>1, <1>3, <1>8 DEF Talks
  <1>10. Flags' /\ Live' /\ Buffered' /\ Away'
    BY <1>1, <1>3, <1>4, <1>5 DEF Flags, Live, Buffered, Away
  <1> QED BY <1>6, <1>7, <1>9, <1>10 DEF ChatInv

LEMMA UnmountInv ==
  ASSUME ChatInv, Unmount
  PROVE  ChatInv'
  <1>1. /\ mounted' = FALSE /\ synced' = FALSE
        /\ stored' \in {stored, IF box.saving THEN Trim(box.latest) ELSE stored}
        /\ msgs' = <<>> /\ ui' = Off /\ want' = Off /\ editing' = <<>> /\ gen' = 0 /\ cgen' = 0
        /\ box' = [queue |-> <<>>, latest |-> <<>>, saving |-> FALSE]
        /\ buf' = [gen |-> 0, text |-> <<>>]
        /\ reqs' = [r \in DOMAIN reqs |-> [reqs[r] EXCEPT !.phase = "over", !.whole = FALSE]]
    BY DEF Unmount, Discard, Supersede
  <1>2. /\ reqs \in Seq(Req) /\ Len(reqs) \in Nat /\ DOMAIN reqs = 1..Len(reqs)
        /\ \A r \in DOMAIN reqs : reqs[r] \in Req
    BY SeqFacts DEF ChatInv, Shapes
  <1>3. \A r \in DOMAIN reqs : /\ reqs'[r] \in Req /\ reqs'[r].phase = "over" /\ ~reqs'[r].whole
                               /\ reqs'[r].raced = reqs[r].raced /\ reqs'[r].got = reqs[r].got
    BY <1>1, <1>2 DEF Req
  <1>4. reqs' \in Seq(Req) /\ DOMAIN reqs' = DOMAIN reqs
    <2>1. reqs' \in [1..Len(reqs) -> Req]
      BY <1>1, <1>2, <1>3
    <2> QED BY <1>2, <2>1, FunSeq
  <1>5. Follows(reqs, gen, reqs', 0)
    BY <1>2, <1>3, <1>4 DEF Follows, Plain
  <1>6. stored' \in {stored, Trim(box.latest)}
    BY <1>1
  <1>7. stored' \in Seq(Msg) /\ Talk(stored', reqs, gen)
    BY <1>6, Trimmed DEF ChatInv, Shapes, Talks, Box
  <1>8. Talk(stored', reqs', 0)
    BY <1>5, <1>7, TalkKept
  <1> QED BY <1>1, <1>3, <1>4, <1>7, <1>8, AwayInv

-----------------------------------------------------------------------------
(* The theorems.                                                           *)

LEMMA InitInv ==
  ASSUME Init
  PROVE  ChatInv
  <1> DEFINE first == [phase |-> "over", got |-> 1, whole |-> FALSE, raced |-> FALSE]
             asked == Message("user", 1, "none")
             given == [Message("assistant", 1, "complete") EXCEPT !.text = <<<<1, 1>>>>]
  <1>1. /\ mounted = FALSE /\ synced = FALSE /\ msgs = <<>> /\ ui = Off /\ want = Off /\ editing = <<>>
        /\ gen = 0 /\ cgen = 0 /\ buf = [gen |-> 0, text |-> <<>>]
        /\ box = [queue |-> <<>>, latest |-> <<>>, saving |-> FALSE]
        /\ reqs = <<first>> /\ stored = <<asked, given>>
    BY DEF Init
  <1>2. first \in Req /\ first.phase = "over" /\ ~first.whole
    BY DEF Req
  <1> HIDE DEF first
  <1>3. /\ reqs \in Seq(Req) /\ Len(reqs) = 1 /\ DOMAIN reqs = {1} /\ reqs[1] = first
    BY <1>1, <1>2
  <1>4. /\ asked \in Msg /\ asked.from = "user" /\ asked.id = 1 /\ asked.status = "none"
    BY EmptySeq DEF Message, Msg
  <1>5. <<<<1, 1>>>> \in Seq(Piece)
    BY DEF Piece
  <1>6. /\ given \in Msg /\ given.from = "assistant" /\ given.id = 1 /\ given.status = "complete"
        /\ given.text = <<<<1, 1>>>>
    BY <1>5 DEF Message, Msg
  <1> HIDE DEF asked, given
  <1>7. \A k \in DOMAIN <<<<1, 1>>>> : <<<<1, 1>>>>[k][1] = 1 /\ <<<<1, 1>>>>[k][2] = k
    OBVIOUS
  <1>0. InOrder(<<<<1, 1>>>>)
    BY DEF InOrder
  <1>8. Ours(asked, reqs, gen) /\ Waits(asked, reqs) /\ Ours(given, reqs, gen)
    BY <1>0, <1>1, <1>2, <1>3, <1>4, <1>6, <1>7 DEF Ours, Waits, Pending, Parts
  <1>9. /\ stored \in Seq(Msg) /\ Len(stored) = 2 /\ DOMAIN stored = {1, 2}
        /\ stored[1] = asked /\ stored[2] = given
    BY <1>1, <1>4, <1>6
  <1>10. Talk(stored, reqs, gen)
    BY <1>8, <1>9 DEF Talk
  <1>11. Coming = <<>>
    BY <1>1, RenderedEmpty DEF Coming
  <1>12. <<>> \in Seq(Msg) /\ <<>> \in Seq(Upd) /\ <<>> \in Seq(Piece)
    BY EmptySeq
  <1>13. box \in Box /\ box.queue = <<>> /\ box.latest = <<>>
    BY <1>1, <1>12 DEF Box
  <1>14. Off \in Flag /\ ~Off.req /\ ~Off.str
    BY DEF Off, Flag
  <1>15. buf \in [gen : Nat, text : Seq(Piece)] /\ buf.gen = 0 /\ buf.text = <<>>
    BY <1>1, <1>12
  <1>16. Shapes
    <2>1. mounted \in BOOLEAN /\ synced \in BOOLEAN /\ msgs \in Seq(Msg) /\ ui \in Flag /\ want \in Flag /\ cgen = gen
      BY <1>1, <1>12, <1>14
    <2>2. 0 \in 0..1
      OBVIOUS
    <2>3. gen \in 0..Len(reqs)
      BY <1>1, <1>3, <2>2
    <2>4. editing = <<>>
      BY <1>1
    <2>5. reqs \in Seq(Req) /\ stored \in Seq(Msg) /\ box \in Box /\ buf.gen = gen
      BY <1>1, <1>3, <1>9, <1>13, <1>15
    <2> QED BY <1>15, <2>1, <2>3, <2>4, <2>5 DEF Shapes
  <1>17. Due /\ Queued
    BY <1>1, <1>13 DEF Due, Queued, Sane
  <1>18. Talks
    <2>1. Talk(<<>>, reqs, gen)
      BY DEF Talk
    <2> QED BY <1>1, <1>10, <1>11, <1>13, <2>1 DEF Talks
  <1>19. Flags
    BY <1>1, <1>2, <1>3, <1>13, <1>14, <1>15 DEF Flags
  <1>20. Live /\ Buffered /\ Away
    BY <1>1, <1>2, <1>3, <1>11, <1>13, <1>14, <1>15 DEF Live, Buffered, Away
  <1> QED BY <1>11, <1>12, <1>16, <1>17, <1>18, <1>19, <1>20 DEF ChatInv

LEMMA StutterInv ==
  ASSUME ChatInv, UNCHANGED vars
  PROVE  ChatInv'
  <1>1. UNCHANGED <<mounted, msgs, ui, want, box, stored, synced, gen, buf, cgen, reqs, editing>>
    BY DEF vars, screen, chat, page
  <1>2. Coming' = Coming
    BY <1>1 DEF Coming
  <1>3. Shapes' /\ Due' /\ Queued' /\ Away'
    BY <1>1 DEF ChatInv, Shapes, Due, Queued, Away
  <1>4. Talks' /\ Flags' /\ Live' /\ Buffered'
    BY <1>1, <1>2 DEF ChatInv, Talks, Flags, Live, Buffered
  <1> QED BY <1>2, <1>3, <1>4 DEF ChatInv

LEMMA NextInv ==
  ASSUME ChatInv, Next
  PROVE  ChatInv'
  <1>1. CASE Render \/ FlushTimer \/ SaveTimer \/ Mount \/ Unmount \/ OtherTab
    BY <1>1, RenderInv, FlushTimerInv, SaveTimerInv, MountInv, UnmountInv, OtherTabInv
  <1>2. CASE HandleSendMessage \/ HandleRegenerateMessage \/ HandleDeleteMessage \/ HandleClearMessages
    BY <1>2, HandleSendMessageInv, HandleRegenerateMessageInv, HandleDeleteMessageInv,
       HandleClearMessagesInv
  <1>3. CASE HandleEditMessage \/ HandleEditOpenChange \/ ApplyEdit \/ StopGeneration
    BY <1>3, HandleEditMessageInv, HandleEditOpenChangeInv, ApplyEditInv, StopGenerationInv
  <1>4. CASE \E r \in DOMAIN reqs : \/ Headers(r) \/ StreamPiece(r) \/ StreamDone(r)
                                    \/ StreamError(r) \/ StreamEnds(r) \/ Response(r)
    BY <1>4, HeadersInv, StreamPieceInv, StreamDoneInv, StreamErrorInv, StreamEndsInv, ResponseInv
  <1> QED BY <1>1, <1>2, <1>3, <1>4 DEF Next

\* The invariant holds however clicks, timers, renders, answers and reloads interleave.
THEOREM ChatInvariant == Spec => []ChatInv
  <1>1. Init => ChatInv
    BY InitInv
  <1>2. ChatInv /\ [Next]_vars => ChatInv'
    BY NextInv, StutterInv
  <1> QED BY <1>1, <1>2, PTL DEF Spec

\* A message on the screen, waiting to be saved or saved holds pieces of the one
\* answer it was created for, whatever their text.  Unless an edit was saved while
\* updates waited it has them in order and none twice, also where
\* mergePendingStreamChunk or getAppendableChunk took some for a newer copy of the
\* others; and of an answer that never repeats itself it has them without gaps, and
\* all of them once the answer has ended normally.  The generation that a queued
\* update compares when React evaluates it keeps what an older answer left behind
\* out of a newer message.
THEOREM OwnAnswerCorrect == Spec => []OwnAnswer
  <1>1. ChatInv => OwnAnswer
    BY DEF ChatInv, Talks, Talk, Ours, Parts, Plain, InOrder, OwnAnswer
  <1> QED BY <1>1, ChatInvariant, PTL

\* A page that neither generates nor has anything to render shows no message that
\* waits for an answer: whatever ends an answer also ends its message, except where
\* applyEdit has replaced updates that waited to be rendered (`raced').
THEOREM SettledCorrect == Spec => []Settled
  <1>1. ChatInv => Settled
    BY DEF ChatInv, Live, Waits, Settled, Generating
  <1> QED BY <1>1, ChatInvariant, PTL

\* When nothing is queued and no save is due, localStorage has the end of what is
\* shown, although renders, eager evaluations and the debounced save write
\* separately; unless the last save or load failed, which saveMessages and
\* loadMessages only log, or another tab has written since.
THEOREM SavedCorrect == Spec => []Saved
  <1>1. ChatInv => Saved
    BY DEF ChatInv, Queued, Sane, Due, Saved
  <1> QED BY <1>1, ChatInvariant, PTL

=============================================================================
