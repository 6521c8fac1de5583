------------------------ MODULE KnowledgeBase_proofs ------------------------
(* Theorems about Chunking and KnowledgeBase, for every corpus, chunk size  *)
(* and number of sessions.                                                 *)
EXTENDS KnowledgeBase, Recursion, SequenceTheorems

----------------------------------------------------------------------------
(* chunk_document loses nothing and comes to an end, for every text, every *)
(* chunk size and every overlap its checks accept.  The loop has done with *)
(* all positions before start, so that the chunk that reaches the end of   *)
(* the text completes the cover; and start only moves forward.             *)

\* What is not blank before position n is shown.
CoversUpTo(n, t) ==
    \A p \in Positions(t) : p < n /\ p \notin t.blank => \E c \in chunks : p \in c.shown

\* The inductive invariant of the loop on text t.
CutInv(t) ==
    /\ text = t /\ start \in Nat /\ cutting \in BOOLEAN
    /\ cutting => start < t.len /\ CoversUpTo(start, t)
    /\ ~cutting => CoversUpTo(t.len, t)

\* A chunk ends after its start, within the text, and after the overlap the
\* next one begins with.
LEMMA EndIsAhead ==
    ASSUME NEW t \in Text, NEW s \in Nat, s < t.len
    PROVE  /\ EndOf(t, s) \in Nat /\ s < EndOf(t, s) /\ EndOf(t, s) <= t.len
           /\ EndOf(t, s) # t.len => EndOf(t, s) = s + MaxChars
  BY ChunkSizes DEF EndOf, Text

\* The chunk that starts where the cover ends carries it to its own end.
LEMMA ChunkExtends ==
    ASSUME NEW t \in Text, NEW s \in Nat, s < t.len, CoversUpTo(s, t)
    PROVE  \A p \in Positions(t) : p < EndOf(t, s) /\ p \notin t.blank =>
              \E c \in chunks \cup {ChunkAt(t, s)} : p \in c.shown
  <1> TAKE p \in Positions(t)
  <1> HAVE p < EndOf(t, s) /\ p \notin t.blank
  <1>1. CASE p < s
    BY <1>1 DEF CoversUpTo
  <1>2. CASE s <= p
    <2>1. p \in Shown(t, s, EndOf(t, s))
      BY <1>2 DEF Shown
    <2>2. ChunkAt(t, s).shown = Shown(t, s, EndOf(t, s))
      BY DEF ChunkAt
    <2> QED
      BY <2>1, <2>2
  <1> QED
    BY <1>1, <1>2 DEF Positions, Text

LEMMA CutInvInit ==
    ASSUME NEW t \in Text
    PROVE  ChunkInit(t) => CutInv(t)
  <1> SUFFICES ASSUME ChunkInit(t) PROVE CutInv(t)
    OBVIOUS
  <1>1. /\ text = t /\ start = 0 /\ cutting = (t.len > 0)
        /\ t.len \in Nat
    BY DEF ChunkInit, Text
  <1>2. CASE t.len > 0
    <2>1. CoversUpTo(0, t)
      BY DEF CoversUpTo, Positions
    <2> QED
      BY <1>1, <1>2, <2>1 DEF CutInv
  <1>3. CASE ~(t.len > 0)
    <2>1. CoversUpTo(t.len, t)
      BY <1>1, <1>3 DEF CoversUpTo, Positions
    <2>2. cutting = FALSE
      <3>1. (t.len > 0) = FALSE
        BY <1>3
      <3> QED
        BY <1>1, <3>1
    <2>3. text = t /\ start \in Nat
      BY <1>1
    <2> QED
      BY <2>1, <2>2, <2>3 DEF CutInv
  <1> QED
    BY <1>2, <1>3

\* One turn of the loop keeps the invariant and, unless it is the last, moves
\* on.
LEMMA CutKeeps ==
    ASSUME NEW t \in Text, CutInv(t), Cut
    PROVE  CutInv(t)' /\ (cutting' => start' > start)
  <1> DEFINE end == EndOf(t, start)
  <1>1. text = t /\ start \in Nat /\ start < t.len /\ CoversUpTo(start, t)
    BY DEF CutInv, Cut
  <1>2. /\ end \in Nat /\ start < end /\ end <= t.len
        /\ end # t.len => end = start + MaxChars
    BY <1>1, EndIsAhead
  <1>3. \A p \in Positions(t) : p < end /\ p \notin t.blank => \E c \in chunks' : p \in c.shown
    BY <1>1, ChunkExtends DEF Cut
  <1>4. CASE end = t.len
    <2>1. text' = t /\ start' = start /\ cutting' = FALSE
      BY <1>1, <1>4 DEF Cut, EndsText, CutInv
    <2>2. CoversUpTo(t.len, t)'
      BY <1>3, <1>4 DEF CoversUpTo
    <2> QED
      BY <1>1, <2>1, <2>2 DEF CutInv
  <1>5. CASE end # t.len
    <2>1. text' = t /\ start' = end - Overlap /\ cutting' = TRUE
      BY <1>1, <1>5 DEF Cut, EndsText, CutInv
    <2>2. start' \in Nat /\ start' > start /\ start' < t.len /\ start' <= end
      BY <1>1, <1>2, <1>5, <2>1, ChunkSizes DEF Text
    <2>3. CoversUpTo(start, t)'
      BY <1>2, <1>3, <2>2 DEF CoversUpTo, Positions, Text
    <2> QED
      BY <2>1, <2>2, <2>3 DEF CutInv
  <1> QED
    BY <1>4, <1>5

LEMMA CutStuttersKeep ==
    ASSUME NEW t \in Text, CutInv(t), UNCHANGED chunkVars
    PROVE  CutInv(t)'
  BY DEF CutInv, CoversUpTo, chunkVars

\* When the loop of chunk_document has ended, every character of the text that
\* is not blank is in some chunk.
THEOREM ChunksCoverText ==
    ASSUME NEW t \in Text
    PROVE  ChunkSpec(t) => [](~cutting => Covers(chunks, t))
  <1>1. ChunkInit(t) => CutInv(t)
    BY CutInvInit
  <1>2. CutInv(t) /\ [Cut]_chunkVars => CutInv(t)'
    BY CutKeeps, CutStuttersKeep
  <1>3. CutInv(t) => (~cutting => Covers(chunks, t))
    BY DEF CutInv, CoversUpTo, Covers, Positions, Text
  <1> QED
    BY <1>1, <1>2, <1>3, PTL DEF ChunkSpec

\* The loop of chunk_document cannot go on for ever: it runs only while start
\* is before the end of the text, and each turn but the last moves start
\* forward, whatever the overlap.
THEOREM ChunkingAdvances ==
    ASSUME NEW t \in Text
    PROVE  ChunkSpec(t) => /\ [](cutting => start \in 0 .. t.len - 1)
                           /\ [][cutting' => start' > start]_chunkVars
  <1>1. ChunkInit(t) => CutInv(t)
    BY CutInvInit
  <1>2. CutInv(t) /\ [Cut]_chunkVars => CutInv(t)'
    BY CutKeeps, CutStuttersKeep
  <1>3. CutInv(t) => (cutting => start \in 0 .. t.len - 1)
    BY DEF CutInv, Text
  <1>4. CutInv(t) /\ [Cut]_chunkVars => [cutting' => start' > start]_chunkVars
    BY CutKeeps
  <1> QED
    BY <1>1, <1>2, <1>3, <1>4, PTL DEF ChunkSpec

----------------------------------------------------------------------------
(* The corpus.  The documents that have left the queue are in the list that *)
(* will be upserted; the one at its head is being cut.                     *)

Shows(vs, d) ==
    Covers({v \in vs : v.source = d.source /\ v.says = d.text.says}, d.text)

\* The documents of the corpus that have left the queue.
Through == Len(corpus) - Len(queue)

QueueInv ==
    /\ corpus \in Seq(Document) /\ queue \in Seq(Document) /\ Len(queue) <= Len(corpus)
    /\ \A i \in 1 .. Len(queue) : queue[i] = corpus[Through + i]

LoadInv ==
    /\ QueueInv
    /\ load \in {"next", "chunk"} => \A n \in 1 .. Through : Shows(vectors, corpus[n])
    /\ load = "chunk" => queue # <<>> /\ \E t \in Text : t = Head(queue).text /\ CutInv(t)
    /\ load = "loaded" => \A n \in DOMAIN corpus : Shows(store, corpus[n])

LEMMA ShowsMore ==
    ASSUME NEW vs, NEW ws, vs \subseteq ws, NEW d, Shows(vs, d)
    PROVE  Shows(ws, d)
BY DEF Shows, Covers

\* The vectors of the chunks of a document show the document.
LEMMA ChunksShow ==
    ASSUME NEW d \in Document, NEW cs, NEW vs, Covers(cs, d.text),
           { Vector(d.source, d.text, c) : c \in cs } \subseteq vs
    PROVE  Shows(vs, d)
<1> SUFFICES ASSUME NEW p \in Positions(d.text), p \notin d.text.blank
             PROVE  \E v \in vs : /\ v.source = d.source /\ v.says = d.text.says
                                  /\ p \in v.shown
  BY DEF Shows, Covers
<1>1. PICK c \in cs : p \in c.shown
  BY DEF Covers
<1> DEFINE v == Vector(d.source, d.text, c)
<1>2. v \in vs
  BY <1>1
<1>3. v.source = d.source /\ v.says = d.text.says /\ v.shown = c.shown
  BY DEF Vector
<1> QED BY <1>1, <1>2, <1>3

LEMMA LoadInit == Init => LoadInv
BY DEF Init, LoadInv, QueueInv

LEMMA LoadStep == LoadInv /\ [Next]_vars => LoadInv'
<1> SUFFICES ASSUME LoadInv, [Next]_vars PROVE LoadInv'
  OBVIOUS
<1>1. CASE LoadCorpus
  <2>1. PICK docsRead \in Corpora : corpus' = docsRead /\ queue' = docsRead
    BY <1>1 DEF LoadCorpus
  <2>2. load' \in {"next", "failed"}
    BY <1>1 DEF LoadCorpus
  <2>3. docsRead \in Seq(Document)
    BY InputsTyped
  <2>4. QueueInv' /\ Through' = 0
    BY <2>1, <2>3 DEF QueueInv, Through
  <2> QED BY <2>2, <2>4 DEF LoadInv
<1>2. CASE ChunkDocument
  <2>1. /\ queue # <<>> /\ Begin(Head(queue).text) /\ load = "next" /\ load' = "chunk"
        /\ UNCHANGED <<corpus, queue, vectors, store>>
    BY <1>2 DEF ChunkDocument
  <2>2. Head(queue) \in Document
    BY <2>1 DEF LoadInv, QueueInv
  <2>3. PICK t \in Text : t = Head(queue).text
    BY <2>2 DEF Document
  <2>4. CutInv(t)'
    <3>1. text' = t /\ start' = 0 /\ chunks' = {} /\ cutting' = (t.len > 0) /\ t.len \in Nat
      BY <2>1, <2>3 DEF Begin, Text
    <3>2. CoversUpTo(0, t)' /\ (t.len = 0 => CoversUpTo(t.len, t)')
      BY <3>1 DEF CoversUpTo, Positions
    <3>3. CASE t.len > 0
      <4>1. cutting' = TRUE
        BY <3>1, <3>3
      <4> QED BY <3>1, <3>2, <3>3, <4>1 DEF CutInv
    <3>4. CASE ~(t.len > 0)
      <4>1. (t.len > 0) = FALSE
        BY <3>4
      <4>2. cutting' = FALSE
        BY <3>1, <4>1
      <4>3. t.len = 0
        BY <3>1, <3>4
      <4> QED BY <3>1, <3>2, <4>2, <4>3 DEF CutInv
    <3> QED BY <3>3, <3>4
  <2> QED BY <2>1, <2>3, <2>4 DEF LoadInv, QueueInv, Through
<1>3. CASE CutChunk
  <2>1. Cut /\ load = "chunk" /\ UNCHANGED loadVars
    BY <1>3 DEF CutChunk
  <2>2. PICK t \in Text : t = Head(queue).text /\ CutInv(t)
    BY <2>1 DEF LoadInv
  <2>3. CutInv(t)'
    BY <2>1, <2>2, CutKeeps
  <2> QED BY <2>1, <2>2, <2>3 DEF LoadInv, QueueInv, Through, loadVars
<1>4. CASE Embed
  <2>1. load = "chunk" /\ ~cutting /\ UNCHANGED <<chunkVars, corpus, store>>
    BY <1>4 DEF Embed
  <2>2. CASE UNCHANGED <<vectors, queue>> /\ load' = "failed"
    BY <2>1, <2>2 DEF LoadInv, QueueInv, Through
  <2>3. CASE /\ vectors' = Extend(vectors, { Vector(Head(queue).source, text, c) : c \in chunks })
             /\ queue' = Tail(queue) /\ load' = "next"
    <3> DEFINE d == Head(queue)
               k == Through
    <3>1. PICK t \in Text : t = d.text /\ CutInv(t)
      BY <2>1 DEF LoadInv
    <3>2. text = d.text /\ Covers(chunks, d.text)
      BY <2>1, <3>1 DEF CutInv, CoversUpTo, Covers, Positions, Text
    <3>3. /\ queue # <<>> /\ queue \in Seq(Document) /\ corpus \in Seq(Document)
          /\ Len(queue) <= Len(corpus) /\ d \in Document
          /\ \A i \in 1 .. Len(queue) : queue[i] = corpus[k + i]
          /\ \A n \in 1 .. k : Shows(vectors, corpus[n])
      BY <2>1 DEF LoadInv, QueueInv
    <3>4. d = corpus[k + 1] /\ k \in Nat
      BY <3>3 DEF Through
    <3>5. /\ Tail(queue) \in Seq(Document) /\ Len(Tail(queue)) = Len(queue) - 1
          /\ \A i \in 1 .. Len(Tail(queue)) : Tail(queue)[i] = queue[i + 1]
      BY <3>3
    <3>6. Through' = k + 1
      BY <2>1, <2>3, <3>3, <3>5 DEF Through
    <3>7. QueueInv'
      <4>1. \A i \in 1 .. Len(queue') : queue'[i] = corpus'[Through' + i]
        <5> TAKE i \in 1 .. Len(queue')
        <5>1. queue'[i] = queue[i + 1] /\ i + 1 \in 1 .. Len(queue)
          BY <2>3, <3>3, <3>5
        <5>2. k + (i + 1) = Through' + i
          BY <3>4, <3>6
        <5>3. queue[i + 1] = corpus[k + (i + 1)]
          BY <3>3, <5>1
        <5> QED BY <2>1, <5>1, <5>2, <5>3
      <4> QED BY <2>1, <2>3, <3>3, <3>5, <4>1 DEF QueueInv
    <3>8. vectors \subseteq vectors' /\ { Vector(d.source, d.text, c) : c \in chunks } \subseteq vectors'
      BY <2>3, <3>2 DEF Extend
    <3>9. \A n \in 1 .. Through' : Shows(vectors, corpus[n])'
      <4> TAKE n \in 1 .. Through'
      <4>1. CASE n \in 1 .. k
        <5>1. Shows(vectors', corpus[n])
          BY <3>3, <3>8, <4>1, ShowsMore
        <5> QED BY <2>1, <5>1
      <4>2. CASE n = k + 1
        <5>1. Shows(vectors', d)
          BY <3>2, <3>3, <3>8, ChunksShow
        <5> QED BY <2>1, <3>4, <4>2, <5>1
      <4> QED BY <3>4, <3>6, <4>1, <4>2
    <3> QED BY <2>3, <3>7, <3>9 DEF LoadInv
  <2> QED BY <1>4, <2>2, <2>3 DEF Embed
<1>5. CASE UpsertVectors
  <2>1. load = "next" /\ queue = <<>> /\ UNCHANGED <<corpus, queue, vectors>>
    BY <1>5 DEF UpsertVectors
  <2>2. QueueInv'
    BY <2>1 DEF LoadInv, QueueInv, Through
  <2>3. CASE load' = "failed"
    BY <2>2, <2>3 DEF LoadInv
  <2>4. CASE store' = store \cup vectors /\ load' = "loaded"
    <3>1. \A n \in DOMAIN corpus : Shows(vectors, corpus[n])
      BY <2>1 DEF LoadInv, QueueInv, Through
    <3>2. \A n \in DOMAIN corpus : Shows(store', corpus[n])
      BY <2>4, <3>1, ShowsMore
    <3> QED BY <2>1, <2>2, <2>4, <3>2 DEF LoadInv
  <2> QED BY <1>5, <2>3, <2>4 DEF UpsertVectors
<1>6. CASE UNCHANGED <<chunkVars, loadVars>>
  <2>1. \A t \in Text : CutInv(t) => CutInv(t)'
    BY <1>6, CutStuttersKeep
  <2> QED BY <1>6, <2>1 DEF LoadInv, QueueInv, Through, loadVars
<1>7. ASSUME ~LoadCorpus, ~Load PROVE UNCHANGED <<chunkVars, loadVars>>
  BY <1>7 DEF Next, Search, Answer, Rerank, Ground, CompleteOnce, FindDocument, UpsertDocument,
     GetDocument, IndexDocument, UpsertChunks, Forget, vars
<1> QED BY <1>1, <1>2, <1>3, <1>4, <1>5, <1>6, <1>7 DEF Load

----------------------------------------------------------------------------
(* The documents.  What a session is about to write to is there, and it     *)
(* holds a copy of it.                                                     *)

Held == [at : {"closed", "idle", "found", "chunked", "embedded"}, doc : Writer \cup {None}]

Copies == [Writer -> Row \cup {None}]

DocInv ==
    /\ docs \in Copies
    /\ known \in [Writer -> Copies]
    /\ writer \in [Writer -> Held]
    /\ \A w, d \in Writer : known[w][d] # None => docs[d] # None
    /\ \A w \in Writer :
          /\ writer[w].doc # None => known[w][writer[w].doc] # None
          /\ writer[w].at \in {"chunked", "embedded"} => writer[w].doc # None

LEMMA DocInit == Init => DocInv
<1> SUFFICES ASSUME Init PROVE DocInv
  OBVIOUS
<1>1. Idle \in Held /\ Closed \in Held
  BY DEF Idle, Closed, Held
<1>2. \A w \in Writer : writer[w] \in {Idle, Closed}
  BY DEF Init
<1>3. writer \in [Writer -> Held]
  BY <1>1 DEF Init
<1>4. \A h \in {Idle, Closed} : h.doc = None /\ h.at \notin {"chunked", "embedded"}
  BY DEF Idle, Closed
<1>5. docs \in Copies /\ known \in [Writer -> Copies] /\ \A w, d \in Writer : known[w][d] = None
  BY DEF Init, Copies
<1> QED BY <1>2, <1>3, <1>4, <1>5 DEF DocInv

\* A session takes up a document that is there, with its copy or the row.
LEMMA HoldKeeps ==
    ASSUME DocInv, NEW w \in Writer, NEW d \in Kept,
           NEW at \in {"found", "chunked", "embedded"}, Hold(w, d, at)
    PROVE  DocInv'
<1> DEFINE h == [at |-> at, doc |-> d]
           copy == CopyOf(w, d)
<1>1. /\ docs \in Copies /\ known \in [Writer -> Copies] /\ writer \in [Writer -> Held]
      /\ d \in Writer /\ docs[d] # None /\ docs' = docs
  BY DEF DocInv, Kept, Hold
<1>2. h \in Held /\ h.doc = d
  BY <1>1 DEF Held
<1>3. copy \in Row \cup {None} /\ copy # None
  BY <1>1 DEF CopyOf, Copies
<1>4. writer' = [writer EXCEPT ![w] = h] /\ known' = [known EXCEPT ![w][d] = copy]
  BY DEF Hold
<1> HIDE DEF copy
<1>5. known' \in [Writer -> Copies] /\ writer' \in [Writer -> Held]
  BY <1>1, <1>2, <1>3, <1>4 DEF Copies
<1>6. \A v, e \in Writer : known'[v][e] = IF v = w /\ e = d THEN copy ELSE known[v][e]
  BY <1>1, <1>4 DEF Copies
<1>7. \A v \in Writer : writer'[v] = IF v = w THEN h ELSE writer[v]
  BY <1>1, <1>4
<1>8. \A v \in Writer : writer[v].doc \in Writer \cup {None}
  BY <1>1 DEF Held
<1> HIDE DEF h
<1>9. /\ \A v, e \in Writer : known'[v][e] # None => docs'[e] # None
      /\ known'[w][d] # None /\ \A v, e \in Writer : known[v][e] # None => known'[v][e] # None
  BY <1>1, <1>3, <1>6 DEF DocInv
<1>10. ASSUME NEW v \in Writer
       PROVE  /\ writer'[v].doc # None => known'[v][writer'[v].doc] # None
              /\ writer'[v].at \in {"chunked", "embedded"} => writer'[v].doc # None
  <2>1. CASE v = w
    <3>1. writer'[v].doc = d /\ d # None
      BY <1>1, <1>2, <1>7, <2>1, NoneIsNone
    <3> QED BY <1>9, <2>1, <3>1
  <2>2. CASE v # w
    <3>1. writer'[v] = writer[v]
      BY <1>7, <2>2
    <3>2. writer[v].doc # None => known'[v][writer[v].doc] # None
      BY <1>8, <1>9 DEF DocInv
    <3> QED BY <3>1, <3>2 DEF DocInv
  <2> QED BY <2>1, <2>2
<1> QED BY <1>1, <1>5, <1>9, <1>10 DEF DocInv

\* A session writes a document, remembers what it wrote, and is done.
LEMMA WriteKeeps ==
    ASSUME DocInv, NEW w \in Writer, NEW d \in Writer, NEW row \in Row, NEW copy \in Row,
           docs' = [docs EXCEPT ![d] = row], known' = [known EXCEPT ![w][d] = copy],
           writer' = [writer EXCEPT ![w] = Idle]
    PROVE  DocInv'
<1>1. /\ docs \in Copies /\ known \in [Writer -> Copies] /\ writer \in [Writer -> Held]
      /\ row # None /\ copy # None
  BY NoneIsNone DEF DocInv
<1>2. Idle \in Held /\ Idle.doc = None /\ Idle.at \notin {"chunked", "embedded"}
  BY DEF Idle, Held
<1>3. docs' \in Copies /\ known' \in [Writer -> Copies] /\ writer' \in [Writer -> Held]
  BY <1>1, <1>2 DEF Copies
<1>4. /\ \A e \in Writer : docs'[e] = IF e = d THEN row ELSE docs[e]
      /\ \A v, e \in Writer : known'[v][e] = IF v = w /\ e = d THEN copy ELSE known[v][e]
      /\ \A v \in Writer : writer'[v] = IF v = w THEN Idle ELSE writer[v]
  BY <1>1 DEF Copies
<1>5. \A v \in Writer : writer[v].doc \in Writer \cup {None}
  BY <1>1 DEF Held
<1> QED BY <1>1, <1>2, <1>3, <1>4, <1>5 DEF DocInv

LEMMA RollbackKeeps ==
    ASSUME DocInv, NEW w \in Writer, Rollback(w)
    PROVE  DocInv'
<1>1. /\ docs \in Copies /\ known \in [Writer -> Copies] /\ writer \in [Writer -> Held]
      /\ docs' = docs
  BY DEF DocInv, Rollback
<1>2. Idle \in Held /\ Idle.doc = None /\ Idle.at \notin {"chunked", "embedded"}
  BY DEF Idle, Held
<1>3. known' \in [Writer -> Copies] /\ writer' \in [Writer -> Held]
  BY <1>1, <1>2 DEF Rollback, Copies
<1>4. /\ \A v, e \in Writer : known'[v][e] = IF v = w THEN None ELSE known[v][e]
      /\ \A v \in Writer : writer'[v] = IF v = w THEN Idle ELSE writer[v]
  BY <1>1 DEF Rollback, Copies
<1>5. \A v, e \in Writer : known'[v][e] # None => docs'[e] # None
  BY <1>1, <1>4 DEF DocInv
<1>6. ASSUME NEW v \in Writer
      PROVE  /\ writer'[v].doc # None => known'[v][writer'[v].doc] # None
             /\ writer'[v].at \in {"chunked", "embedded"} => writer'[v].doc # None
  <2>1. CASE v = w
    BY <1>2, <1>4, <2>1
  <2>2. CASE v # w
    <3>1. writer'[v] = writer[v] /\ writer[v].doc \in Writer \cup {None}
      BY <1>1, <1>4, <2>2 DEF Held
    <3>2. \A e \in Writer : known'[v][e] = known[v][e]
      BY <1>4, <2>2
    <3> QED BY <3>1, <3>2 DEF DocInv
  <2> QED BY <2>1, <2>2
<1> QED BY <1>1, <1>3, <1>5, <1>6 DEF DocInv

\* What a session saves differs from its copy; the row it becomes is a row.
LEMMA SaveKeeps ==
    ASSUME DocInv, NEW w \in Writer, NEW d \in Writer, known[w][d] # None, NEW new \in Row,
           Save(w, d, new)
    PROVE  DocInv'
<1> DEFINE row == Update(docs[d], known[w][d], new)
<1>1. docs[d] \in Row
  BY DEF DocInv, Copies
<1>2. row \in Row
  BY <1>1 DEF Update, Row
<1> HIDE DEF row
<1>3. /\ docs' = [docs EXCEPT ![d] = row] /\ known' = [known EXCEPT ![w][d] = new]
      /\ writer' = [writer EXCEPT ![w] = Idle]
  BY DEF Save, row
<1> QED BY <1>2, <1>3, WriteKeeps

\* Where a session is about to write to a document, it holds a copy of it.
LEMMA HeldIsKept ==
    ASSUME DocInv, NEW w \in Writer, writer[w].doc # None
    PROVE  /\ writer[w].doc \in Kept /\ known[w][writer[w].doc] \in Row
           /\ known[w][writer[w].doc] # None
BY DEF DocInv, Held, Kept, Copies

LEMMA DocStep == DocInv /\ [Next]_vars => DocInv'
<1> SUFFICES ASSUME DocInv, [Next]_vars PROVE DocInv'
  OBVIOUS
<1>1. ASSUME NEW w \in Writer, FindDocument(w) PROVE DocInv'
  <2>1. CASE Rollback(w)
    BY <2>1, RollbackKeeps
  <2>2. CASE \E d \in Kept : Hold(w, d, "found")
    BY <2>2, HoldKeeps
  <2>3. CASE /\ writer' = [writer EXCEPT ![w] = [at |-> "found", doc |-> None]]
             /\ UNCHANGED <<docs, known>>
    <3> DEFINE h == [at |-> "found", doc |-> None]
    <3>1. h \in Held /\ h.doc = None /\ h.at \notin {"chunked", "embedded"}
      BY DEF Held
    <3>2. writer' = [writer EXCEPT ![w] = h] /\ UNCHANGED <<docs, known>>
      BY <2>3
    <3> HIDE DEF h
    <3> QED BY <3>1, <3>2 DEF DocInv
  <2> QED BY <1>1, <2>1, <2>2, <2>3 DEF FindDocument
<1>2. ASSUME NEW w \in Writer, UpsertDocument(w) PROVE DocInv'
  <2>1. PICK body \in Bodies :
          IF writer[w].doc = None
            THEN LET row == [body |-> body, indexed |-> FALSE]
                 IN  /\ docs' = [docs EXCEPT ![w] = row]
                     /\ known' = [known EXCEPT ![w][w] = row]
                     /\ writer' = [writer EXCEPT ![w] = Idle]
            ELSE Save(w, writer[w].doc, Edited(known[w][writer[w].doc], body))
    BY <1>2 DEF UpsertDocument
  <2>2. [body |-> body, indexed |-> FALSE] \in Row
    BY DEF Row
  <2>3. CASE writer[w].doc = None
    <3> DEFINE row == [body |-> body, indexed |-> FALSE]
    <3>1. /\ docs' = [docs EXCEPT ![w] = row] /\ known' = [known EXCEPT ![w][w] = row]
          /\ writer' = [writer EXCEPT ![w] = Idle]
      BY <2>1, <2>3
    <3> HIDE DEF row
    <3> QED BY <2>2, <3>1, WriteKeeps DEF row
  <2>4. CASE writer[w].doc # None
    <3> DEFINE d == writer[w].doc
               new == Edited(known[w][d], body)
    <3>1. d \in Writer /\ known[w][d] # None
      BY <2>4, HeldIsKept DEF Kept
    <3>2. Save(w, d, new)
      BY <2>1, <2>4
    <3>3. new \in Row
      BY <2>2 DEF Edited
    <3> HIDE DEF d, new
    <3> QED BY <3>1, <3>2, <3>3, SaveKeeps
  <2> QED BY <2>3, <2>4
<1>3. ASSUME NEW w \in Writer, GetDocument(w) PROVE DocInv'
  BY <1>3, HoldKeeps DEF GetDocument
<1>4. ASSUME NEW w \in Writer, IndexDocument(w) PROVE DocInv'
  <2> DEFINE d == writer[w].doc
             new == [known[w][d] EXCEPT !.indexed = TRUE]
  <2>1. d \in Kept /\ d \in Writer /\ known[w][d] \in Row /\ known[w][d] # None
    <3>1. writer[w].doc # None
      BY <1>4 DEF IndexDocument, DocInv
    <3> QED BY <3>1, HeldIsKept DEF Kept
  <2>2. Save(w, d, new) \/ Hold(w, d, "embedded")
    BY <1>4 DEF IndexDocument
  <2>3. new \in Row
    BY <2>1 DEF Row
  <2> HIDE DEF d, new
  <2> QED BY <2>1, <2>2, <2>3, SaveKeeps, HoldKeeps
<1>5. ASSUME NEW w \in Writer, UpsertChunks(w) \/ Forget(w) PROVE DocInv'
  BY <1>5, RollbackKeeps DEF UpsertChunks, Forget
<1>6. CASE UNCHANGED docVars
  BY <1>6 DEF docVars, DocInv
<1>7. UNCHANGED docVars \/ \E w \in Writer :
         \/ FindDocument(w) \/ UpsertDocument(w)
         \/ GetDocument(w) \/ IndexDocument(w) \/ UpsertChunks(w) \/ Forget(w)
  BY DEF Next, LoadCorpus, Load, ChunkDocument, CutChunk, Embed, UpsertVectors, Search, Answer,
     Rerank, Ground, CompleteOnce, vars
<1> QED BY <1>1, <1>2, <1>3, <1>4, <1>5, <1>6, <1>7

LEMMA UpdatesIndexed ==
    ASSUME NEW row \in Row, NEW copy \in Row, NEW new \in Row
    PROVE  Update(row, copy, new).indexed =
             IF new.indexed = copy.indexed THEN row.indexed ELSE new.indexed
BY DEF Update

\* For any number of sessions: an edit never leaves the mark of an older text
\* on a document, unless the session that edits read it before it was marked.
THEOREM EditsUnmark == Spec => EditUnmarks
<1> DEFINE A == \A d \in Kept :
          docs'[d].body # docs[d].body /\ docs'[d].indexed =>
             \E w \in Writer : /\ writer[w] = [at |-> "found", doc |-> d]
                               /\ docs[d].indexed /\ ~known[w][d].indexed
<1>1. DocInv /\ [Next]_vars => [A]_docs
  <2> SUFFICES ASSUME DocInv, [Next]_vars, docs' # docs,
                      NEW d \in Kept, docs'[d].body # docs[d].body, docs'[d].indexed
               PROVE  \E w \in Writer : /\ writer[w] = [at |-> "found", doc |-> d]
                                        /\ docs[d].indexed /\ ~known[w][d].indexed
    OBVIOUS
  <2>0. /\ docs \in Copies /\ d \in Writer /\ docs[d] # None /\ docs[d] \in Row
        /\ writer \in [Writer -> Held]
    BY DEF DocInv, Kept, Copies
  <2>1. ASSUME NEW w \in Writer, NEW e \in Writer, NEW new, docs' = [docs EXCEPT ![e] = new]
        PROVE  e = d /\ docs'[d] = new
    BY <2>0, <2>1 DEF Copies
  <2>2. ASSUME NEW w \in Writer, UpsertDocument(w)
        PROVE  writer[w] = [at |-> "found", doc |-> d] /\ docs[d].indexed /\ ~known[w][d].indexed
    <3>1. PICK body \in Bodies :
            IF writer[w].doc = None
              THEN docs' = [docs EXCEPT ![w] = [body |-> body, indexed |-> FALSE]]
              ELSE docs' = [docs EXCEPT ![writer[w].doc] =
                              Update(docs[writer[w].doc], known[w][writer[w].doc],
                                     [body |-> body, indexed |-> FALSE])]
      BY <2>2 DEF UpsertDocument, Save, Edited
    <3>2. writer[w].doc # None
      <4> SUFFICES ASSUME writer[w].doc = None PROVE FALSE
        OBVIOUS
      <4>1. docs'[d] = [body |-> body, indexed |-> FALSE]
        BY <2>1, <3>1
      <4> QED BY <4>1
    <3>3. writer[w].doc \in Writer /\ known[w][writer[w].doc] \in Row
      BY <3>2, HeldIsKept DEF Kept
    <3> DEFINE new == Update(docs[writer[w].doc], known[w][writer[w].doc],
                             [body |-> body, indexed |-> FALSE])
    <3>4. docs' = [docs EXCEPT ![writer[w].doc] = new]
      BY <3>1, <3>2
    <3>5. writer[w].doc = d /\ docs'[d] = new
      <4> HIDE DEF new
      <4> QED BY <2>1, <3>3, <3>4
    <3> DEFINE given == [body |-> body, indexed |-> FALSE]
    <3>6. docs'[d] = Update(docs[d], known[w][d], given) /\ given \in Row
      BY <3>5 DEF Row
    <3>7. docs[d].indexed /\ ~known[w][d].indexed
      <4>1. given.indexed = FALSE
        OBVIOUS
      <4> HIDE DEF given, new
      <4>2. docs'[d].indexed = IF given.indexed = known[w][d].indexed
                                 THEN docs[d].indexed ELSE given.indexed
        <5>1. docs[d] \in Row /\ known[w][d] \in Row
          BY <2>0, <3>3, <3>5
        <5>2. Update(docs[d], known[w][d], given).indexed =
                IF given.indexed = known[w][d].indexed THEN docs[d].indexed ELSE given.indexed
          BY <3>6, <5>1, UpdatesIndexed
        <5> QED BY <3>6, <5>2
      <4>3. known[w][d].indexed \in BOOLEAN
        BY <3>3, <3>5 DEF Row
      <4>4. CASE known[w][d].indexed = TRUE
        BY <4>1, <4>2, <4>4
      <4>5. CASE known[w][d].indexed = FALSE
        BY <4>1, <4>2, <4>5
      <4> QED BY <4>3, <4>4, <4>5
    <3>8. writer[w] = [at |-> "found", doc |-> d]
      BY <2>0, <2>2, <3>5 DEF UpsertDocument, Held
    <3> QED BY <3>7, <3>8
  <2>3. ASSUME NEW w \in Writer, IndexDocument(w) PROVE FALSE
    <3> DEFINE e == writer[w].doc
               copy == known[w][e]
               new == Update(docs[e], copy, [copy EXCEPT !.indexed = TRUE])
    <3>1. writer[w].doc # None
      BY <2>3 DEF IndexDocument, DocInv
    <3>2. e \in Writer /\ copy \in Row
      BY <3>1, HeldIsKept DEF Kept
    <3>3. docs' = [docs EXCEPT ![e] = new]
      BY <2>3 DEF IndexDocument, Save, Hold
    <3>4. new.body = docs[e].body
      BY <3>2 DEF Update, Row
    <3>5. e = d /\ docs'[d] = new
      <4> HIDE DEF new, e
      <4> QED BY <2>1, <3>2, <3>3
    <3> QED BY <3>4, <3>5
  <2>4. \E w \in Writer : UpsertDocument(w) \/ IndexDocument(w)
    BY DEF Next, LoadCorpus, Load, ChunkDocument, CutChunk, Embed, UpsertVectors, Search, Answer,
       Rerank, Ground, CompleteOnce, FindDocument, GetDocument, UpsertChunks, Forget, Rollback,
       Hold, vars, docVars
  <2> QED BY <2>2, <2>3, <2>4
<1> QED BY <1>1, DocInit, DocStep, PTL DEF Spec, EditUnmarks

\* Whatever the corpus and the sizes, a load that ends well leaves no character
\* of the corpus without a chunk that shows it.
THEOREM KnowledgeFindable == Spec => []Findable
<1>1. LoadInv => Findable
  BY DEF LoadInv, Shows, Findable
<1> QED BY <1>1, LoadInit, LoadStep, PTL DEF Spec

----------------------------------------------------------------------------
(* Types.                                                                  *)

\* The text that is being cut, and its chunks: within the text, none too long.
ChunksTyped ==
    /\ text \in Text /\ Normalized(text) /\ start \in Nat /\ cutting \in BOOLEAN
    /\ cutting => start < text.len
    /\ \A c \in chunks : c.start < c.end /\ c.end <= text.len /\ c.end - c.start <= MaxChars

CorpusTyped ==
    /\ QueueInv /\ \A n \in DOMAIN corpus : Normalized(corpus[n].text)
    /\ load \in {"idle", "next", "chunk", "loaded", "failed"} /\ loads \in 0 .. MaxLoads
    /\ \A v \in vectors \cup store : v.shown # {}

AskAt == {"idle", "rerank", "ground", "complete", "no evidence", "answered", "all failed",
          "raised", "failed"}

\* Whatever an answer holds, it is a record, and somewhere.
AskTyped == "at" \in DOMAIN ask /\ ask.at \in AskAt

TypesInv == ChunksTyped /\ CorpusTyped /\ AskTyped

LEMMA CutTyped == ChunksTyped /\ Cut => ChunksTyped'
<1> SUFFICES ASSUME ChunksTyped, Cut PROVE ChunksTyped'
  OBVIOUS
<1>1. text \in Text /\ start \in Nat /\ start < text.len /\ text' = text
  BY DEF ChunksTyped, Cut
<1> DEFINE c == ChunkAt(text, start)
           end == EndOf(text, start)
<1>2. /\ end \in Nat /\ start < end /\ end <= text.len /\ end <= start + MaxChars
      /\ end # text.len => end = start + MaxChars /\ end < text.len
  BY <1>1, ChunkSizes DEF EndOf, Text
<1>3. c.start = start /\ c.end = end
  BY DEF ChunkAt
<1>4. \A d \in chunks' : d.start < d.end /\ d.end <= text'.len /\ d.end - d.start <= MaxChars
  <2>1. c.start < c.end /\ c.end <= text.len /\ c.end - c.start <= MaxChars
    BY <1>1, <1>2, <1>3, ChunkSizes
  <2>2. chunks' = chunks \cup {c}
    BY DEF Cut
  <2> HIDE DEF c
  <2> QED BY <1>1, <2>1, <2>2 DEF ChunksTyped
<1>5. start' \in Nat /\ cutting' \in BOOLEAN /\ (cutting' => start' < text.len)
  <2>1. CASE end = text.len
    <3>1. cutting' = FALSE /\ start' = start
      BY <2>1 DEF Cut, EndsText
    <3> QED BY <1>1, <3>1
  <2>2. CASE end # text.len
    <3>1. cutting' = cutting /\ start' = end - Overlap
      BY <2>2 DEF Cut, EndsText
    <3>2. start' \in Nat /\ start' < text.len
      BY <1>1, <1>2, <2>2, <3>1, ChunkSizes DEF Text
    <3> QED BY <3>1, <3>2 DEF ChunksTyped
  <2> QED BY <2>1, <2>2
<1> QED BY <1>1, <1>4, <1>5 DEF ChunksTyped

LEMMA TypesInit == Init => TypesInv
<1> SUFFICES ASSUME Init PROVE TypesInv
  OBVIOUS
<1>1. NoText \in Text /\ NoText.len = 0 /\ Normalized(NoText)
  BY InputsTyped DEF Normalized
<1>2. text = NoText /\ start = 0 /\ chunks = {} /\ cutting = (NoText.len > 0)
  BY DEF Init, ChunkInit
<1>3. cutting = FALSE
  <2>1. (NoText.len > 0) = FALSE
    BY <1>1
  <2> QED BY <1>2, <2>1
<1>4. ChunksTyped
  BY <1>1, <1>2, <1>3 DEF ChunksTyped
<1>5. CorpusTyped
  BY InputsTyped DEF Init, CorpusTyped, QueueInv
<1>6. AskTyped
  BY DEF Init, Unasked, AskTyped, AskAt
<1> QED BY <1>4, <1>5, <1>6 DEF TypesInv

LEMMA ChunksStep == TypesInv /\ [Next]_vars => ChunksTyped'
<1> SUFFICES ASSUME TypesInv, [Next]_vars PROVE ChunksTyped'
  OBVIOUS
<1>1. CASE ChunkDocument
  <2>1. queue # <<>> /\ Begin(Head(queue).text)
    BY <1>1 DEF ChunkDocument
  <2>2. Head(queue).text \in Text /\ Normalized(Head(queue).text)
    <3>1. /\ queue \in Seq(Document) /\ corpus \in Seq(Document) /\ Len(queue) <= Len(corpus)
          /\ \A i \in 1 .. Len(queue) : queue[i] = corpus[Through + i]
          /\ \A n \in DOMAIN corpus : Normalized(corpus[n].text)
      BY DEF TypesInv, CorpusTyped, QueueInv
    <3>2. Head(queue) = queue[1] /\ 1 \in 1 .. Len(queue) /\ Head(queue) \in Document
      BY <2>1, <3>1
    <3>3. Through + 1 \in DOMAIN corpus
      BY <3>1, <3>2 DEF Through
    <3> QED BY <3>1, <3>2, <3>3 DEF Document
  <2> DEFINE t == Head(queue).text
  <2>3. text' = t /\ start' = 0 /\ chunks' = {} /\ cutting' = (t.len > 0)
    BY <2>1 DEF Begin
  <2>4. t \in Text /\ Normalized(t) /\ t.len \in Nat
    BY <2>2 DEF Text
  <2> HIDE DEF t
  <2>5. cutting' \in BOOLEAN /\ (cutting' => t.len > 0)
    <3>1. CASE t.len > 0
      <4>1. cutting' = TRUE
        BY <2>3, <3>1
      <4> QED BY <3>1, <4>1
    <3>2. CASE ~(t.len > 0)
      <4>1. (t.len > 0) = FALSE
        BY <3>2
      <4>2. cutting' = FALSE
        BY <2>3, <4>1
      <4> QED BY <4>2
    <3> QED BY <3>1, <3>2
  <2>6. Normalized(text)'
    BY <2>3, <2>4 DEF Normalized
  <2> QED BY <2>3, <2>4, <2>5, <2>6 DEF ChunksTyped
<1>2. CASE Cut
  BY <1>2, CutTyped DEF TypesInv
<1>3. CASE UNCHANGED chunkVars
  BY <1>3 DEF TypesInv, ChunksTyped, chunkVars, Normalized
<1> QED BY <1>1, <1>2, <1>3 DEF Next, LoadCorpus, Load, CutChunk, Embed, UpsertVectors, Search,
           Answer, Rerank, Ground, CompleteOnce, FindDocument, UpsertDocument, GetDocument,
           IndexDocument, UpsertChunks, Forget, vars

LEMMA CorpusStep == TypesInv /\ LoadInv /\ [Next]_vars => CorpusTyped'
<1> SUFFICES ASSUME TypesInv, LoadInv, [Next]_vars PROVE CorpusTyped'
  OBVIOUS
<1>0. QueueInv' /\ CorpusTyped
  BY LoadStep DEF LoadInv, TypesInv
<1>1. \A n \in DOMAIN corpus' : Normalized(corpus'[n].text)
  <2>1. corpus' \in Corpora \/ corpus' = corpus
    BY DEF Next, LoadCorpus, Load, ChunkDocument, CutChunk, Embed, UpsertVectors, Search, Answer,
       Rerank, Ground, CompleteOnce, FindDocument, UpsertDocument, GetDocument,
         IndexDocument, UpsertChunks, Forget,
       vars, loadVars
  <2> QED BY <1>0, <2>1, InputsTyped DEF CorpusTyped
<1>2. loads' \in 0 .. MaxLoads
  <2>1. CASE LoadCorpus
    BY <1>0, <2>1, InputsTyped DEF CorpusTyped, LoadCorpus
  <2>2. CASE ~LoadCorpus
    <3>1. loads' = loads
      BY <2>2 DEF Next, Load, ChunkDocument, CutChunk, Embed, UpsertVectors, Search, Answer,
         Rerank, Ground, CompleteOnce, FindDocument, UpsertDocument, GetDocument,
         IndexDocument, UpsertChunks, Forget,
         vars, loadVars
    <3> QED BY <1>0, <3>1 DEF CorpusTyped
  <2> QED BY <2>1, <2>2
<1>4. load' \in {"idle", "next", "chunk", "loaded", "failed"}
  <2>1. load' = load \/ load' \in {"next", "chunk", "loaded", "failed"}
    BY DEF Next, LoadCorpus, Load, ChunkDocument, CutChunk, Embed, UpsertVectors, Search, Answer,
       Rerank, Ground, CompleteOnce, FindDocument, UpsertDocument, GetDocument,
         IndexDocument, UpsertChunks, Forget,
       vars, loadVars
  <2> QED BY <1>0, <2>1 DEF CorpusTyped
<1>3. \A v \in vectors' \cup store' : v.shown # {}
  <2>1. CASE Embed /\ vectors' # vectors
    <3>1. /\ \A c \in chunks : c.shown # {}
          /\ vectors' = vectors \cup { Vector(Head(queue).source, text, c) : c \in chunks }
          /\ store' = store
      BY <2>1 DEF Embed, Extend
    <3> QED BY <1>0, <3>1 DEF CorpusTyped, Vector
  <2>2. CASE vectors' \cup store' \subseteq vectors \cup store
    BY <1>0, <2>2 DEF CorpusTyped
  <2>3. CASE ~(Embed /\ vectors' # vectors)
    BY <2>2, <2>3
       DEF Next, LoadCorpus, Load, ChunkDocument, CutChunk, Embed, UpsertVectors,
           Search, Answer, Rerank, Ground, CompleteOnce, FindDocument, UpsertDocument, GetDocument,
           IndexDocument, UpsertChunks, Forget, vars, loadVars
  <2> QED BY <2>1, <2>3
<1> QED BY <1>0, <1>1, <1>2, <1>3, <1>4 DEF CorpusTyped

LEMMA AskStep == TypesInv /\ [Next]_vars => AskTyped'
<1> SUFFICES ASSUME TypesInv, [Next]_vars PROVE AskTyped'
  OBVIOUS
<1>0. AskTyped
  BY DEF TypesInv
<1>1. CASE Search
  BY <1>0, <1>1 DEF Search, AskTyped, AskAt
<1>2. CASE Rerank
  BY <1>0, <1>2 DEF Rerank, AskTyped, AskAt
<1>3. CASE Ground
  BY <1>0, <1>3 DEF Ground, AskTyped, AskAt
<1>4. CASE CompleteOnce
  BY <1>0, <1>4 DEF CompleteOnce, AskTyped, AskAt
<1>5. CASE UNCHANGED ask
  BY <1>0, <1>5 DEF AskTyped
<1> QED BY <1>1, <1>2, <1>3, <1>4, <1>5
        DEF Next, LoadCorpus, Load, ChunkDocument, CutChunk, Embed, UpsertVectors, Answer,
            FindDocument, UpsertDocument, GetDocument, IndexDocument, UpsertChunks, Forget, vars

\* Every variable of the knowledge base keeps its type: no chunk is longer than
\* it may be or leaves its text, and nothing blank is ever stored.
THEOREM KnowledgeTypes == Spec => []TypeOK
<1>1. TypesInv /\ DocInv => TypeOK
  <2> SUFFICES ASSUME TypesInv, DocInv PROVE TypeOK
    OBVIOUS
  <2>1. ASSUME NEW w \in Writer
        PROVE  /\ docs[w] # None => docs[w] \in Row
               /\ \A d \in Writer : known[w][d] # None => known[w][d] \in Row /\ docs[d] # None
               /\ writer[w].at \in {"closed", "idle", "found", "chunked", "embedded"}
    BY DEF DocInv, Copies, Held
  <2> QED BY <2>1 DEF TypesInv, ChunksTyped, CorpusTyped, AskTyped, AskAt, TypeOK
<1>2. TypesInv /\ LoadInv /\ [Next]_vars => TypesInv'
  BY ChunksStep, CorpusStep, AskStep DEF TypesInv
<1> QED BY <1>1, <1>2, TypesInit, LoadInit, LoadStep, DocInit, DocStep, PTL DEF Spec
----------------------------------------------------------------------------
(* Answers.                                                                *)

\* Names of models, and the name of none.
Name == STRING
Blank == ""

LEMMA ModelsNamed ==
    /\ DefaultModel \in Name /\ FallbackModels \in Seq(Name)
    /\ Requests \subseteq Name \cup {None}
BY ModelsTyped DEF Name

Distinct(s) == \A i, j \in DOMAIN s : s[i] = s[j] => i = j

\* One turn of the loop of _candidate_models.
Keep(kept, model) ==
    IF model = Blank \/ model \in ToSet(kept) THEN kept ELSE Append(kept, model)

LEMMA Members ==
    ASSUME NEW S, NEW s \in Seq(S)
    PROVE  \A x : x \in ToSet(s) <=> \E i \in 1 .. Len(s) : s[i] = x
<1>1. DOMAIN s = 1 .. Len(s)
  OBVIOUS
<1> QED BY <1>1 DEF ToSet

LEMMA KeepKeeps ==
    ASSUME NEW S, NEW kept \in Seq(S), Distinct(kept), NEW model \in S
    PROVE  /\ Keep(kept, model) \in Seq(S) /\ Distinct(Keep(kept, model))
           /\ (ToSet(kept) \cup {model}) \ {Blank} \subseteq ToSet(Keep(kept, model))
<1>1. CASE model = Blank \/ model \in ToSet(kept)
  BY <1>1 DEF Keep
<1>2. CASE ~(model = Blank \/ model \in ToSet(kept))
  <2> DEFINE more == Append(kept, model)
  <2>1. Keep(kept, model) = more
    BY <1>2 DEF Keep
  <2>2. /\ more \in Seq(S) /\ Len(more) = Len(kept) + 1 /\ more[Len(kept) + 1] = model
        /\ \A i \in 1 .. Len(kept) : more[i] = kept[i]
    OBVIOUS
  <2>3. \A i \in 1 .. Len(kept) : kept[i] # model
    BY <1>2, Members
  <2> HIDE DEF more
  <2>4. Distinct(more)
    <3>1. DOMAIN more = 1 .. Len(kept) + 1 /\ DOMAIN kept = 1 .. Len(kept) /\ Len(kept) \in Nat
      BY <2>2
    <3> SUFFICES ASSUME NEW i \in 1 .. Len(kept) + 1, NEW j \in 1 .. Len(kept) + 1, more[i] = more[j]
                 PROVE  i = j
      BY <3>1 DEF Distinct
    <3>2. CASE i \in 1 .. Len(kept) /\ j \in 1 .. Len(kept)
      BY <2>2, <3>1, <3>2 DEF Distinct
    <3>3. CASE ~(i \in 1 .. Len(kept) /\ j \in 1 .. Len(kept))
      BY <2>2, <2>3, <3>1, <3>3
    <3> QED BY <3>2, <3>3
  <2>5. ASSUME NEW x \in ToSet(kept) \cup {model} PROVE x \in ToSet(more)
    <3>1. \E i \in 1 .. Len(more) : more[i] = x
      <4>1. CASE x = model
        BY <2>2, <4>1
      <4>2. CASE x \in ToSet(kept)
        <5>1. PICK i \in 1 .. Len(kept) : kept[i] = x
          BY <4>2, Members
        <5> QED BY <2>2, <5>1
      <4> QED BY <4>1, <4>2
    <3> QED BY <2>2, <3>1, Members
  <2> QED BY <2>1, <2>2, <2>4, <2>5
<1> QED BY <1>1, <1>2

\* The models of list c are named, and each only after those named before it.
InOrder(c, named, n) ==
    \A p \in DOMAIN c :
       /\ c[p] # Blank
       /\ \E a \in 1 .. n :
             /\ named[a] = c[p]
             /\ \A b \in 1 .. a - 1 : named[b] # Blank => \E q \in 1 .. p - 1 : c[q] = named[b]

LEMMA KeepKeepsOrder ==
    ASSUME NEW S, NEW kept \in Seq(S), NEW named, NEW i \in Nat \ {0}, named[i] \in S,
           InOrder(kept, named, i - 1),
           \A j \in 1 .. i - 1 : named[j] # Blank => named[j] \in ToSet(kept)
    PROVE  InOrder(Keep(kept, named[i]), named, i)
<1>1. ASSUME NEW p \in DOMAIN kept
      PROVE  /\ kept[p] # Blank
             /\ \E a \in 1 .. i :
                   /\ named[a] = kept[p]
                   /\ \A b \in 1 .. a - 1 : named[b] # Blank => \E q \in 1 .. p - 1 : kept[q] = named[b]
  <2>1. kept[p] # Blank
    BY DEF InOrder
  <2>2. PICK a \in 1 .. i - 1 :
          /\ named[a] = kept[p]
          /\ \A b \in 1 .. a - 1 : named[b] # Blank => \E q \in 1 .. p - 1 : kept[q] = named[b]
    BY DEF InOrder
  <2>3. a \in 1 .. i
    OBVIOUS
  <2> QED BY <2>1, <2>2, <2>3
<1>2. CASE named[i] = Blank \/ named[i] \in ToSet(kept)
  <2>1. Keep(kept, named[i]) = kept
    BY <1>2 DEF Keep
  <2> QED BY <1>1, <2>1 DEF InOrder
<1>3. CASE ~(named[i] = Blank \/ named[i] \in ToSet(kept))
  <2> DEFINE more == Append(kept, named[i])
             k == Len(kept)
  <2>1. Keep(kept, named[i]) = more
    BY <1>3 DEF Keep
  <2>2. /\ k \in Nat /\ DOMAIN kept = 1 .. k /\ DOMAIN more = 1 .. k + 1
        /\ more[k + 1] = named[i] /\ \A q \in 1 .. k : more[q] = kept[q]
    OBVIOUS
  <2>3. \A j \in 1 .. i - 1 : named[j] # Blank => \E q \in 1 .. k : kept[q] = named[j]
    BY Members
  <2> HIDE DEF more, k
  <2>0. SUFFICES InOrder(more, named, i)
    BY <2>1
  <2>4. SUFFICES ASSUME NEW p \in DOMAIN more
                 PROVE  /\ more[p] # Blank
                        /\ \E a \in 1 .. i :
                              /\ named[a] = more[p]
                              /\ \A b \in 1 .. a - 1 : named[b] # Blank =>
                                    \E q \in 1 .. p - 1 : more[q] = named[b]
    BY DEF InOrder
  <2>p. p \in 1 .. k + 1
    BY <2>2
  <2>5. CASE p \in 1 .. k
    <3>1. more[p] = kept[p] /\ more[p] # Blank
      BY <1>1, <2>2, <2>5
    <3>2. PICK a \in 1 .. i :
            /\ named[a] = kept[p]
            /\ \A b \in 1 .. a - 1 : named[b] # Blank => \E q \in 1 .. p - 1 : kept[q] = named[b]
      BY <1>1, <2>2, <2>5
    <3>3. \A q \in 1 .. p - 1 : more[q] = kept[q]
      BY <2>2, <2>5
    <3> QED BY <3>1, <3>2, <3>3
  <2>6. CASE p = k + 1
    <3>1. more[p] = named[i] /\ more[p] # Blank
      BY <1>3, <2>2, <2>6
    <3>2. p - 1 = k /\ i \in 1 .. i
      BY <2>2, <2>6
    <3>3. \A b \in 1 .. i - 1 : named[b] # Blank => \E q \in 1 .. p - 1 : more[q] = named[b]
      BY <2>2, <2>3, <3>2
    <3> QED BY <3>1, <3>2, <3>3
  <2> QED BY <2>2, <2>p, <2>5, <2>6
<1> QED BY <1>2, <1>3

\* What _candidate_models returns: every model that is named, once, in the
\* order in which they are named first.
LEMMA CandidatesOnce ==
    ASSUME NEW requested \in Requests
    PROVE  /\ CandidateModels(requested) \in Seq(Name)
           /\ Distinct(CandidateModels(requested))
           /\ Named(requested) \in Seq(Name)
           /\ \A a \in DOMAIN Named(requested) :
                 Named(requested)[a] # Blank => Named(requested)[a] \in ToSet(CandidateModels(requested))
           /\ InOrder(CandidateModels(requested), Named(requested), Len(Named(requested)))
<1> DEFINE S == Name
           named == Named(requested)
           n == Len(named)
           Step(g) == [i \in 0 .. n |->
                          IF i = 0 THEN <<>>
                          ELSE IF named[i] = Blank \/ named[i] \in ToSet(g[i - 1]) THEN g[i - 1]
                          ELSE Append(g[i - 1], named[i])]
           kept == CHOOSE g : g = Step(g)
<1>1. CandidateModels(requested) = kept[n]
  BY DEF CandidateModels, Blank
<1>2. named \in Seq(S)
  <2> DEFINE first == IF requested \notin {None, Blank} THEN requested ELSE DefaultModel
  <2>1. first \in S /\ FallbackModels \in Seq(S)
    BY ModelsNamed
  <2>2. Named(requested) = <<first>> \o FallbackModels
    BY DEF Named, Blank
  <2> HIDE DEF S, first
  <2> QED BY <2>1, <2>2
<1> HIDE DEF S, named
<1>3. n \in Nat /\ \A i \in 1 .. n : named[i] \in S
  BY <1>2
<1> HIDE DEF n
<1> DEFINE Q == Seq(S)
           keep == [x \in (1 .. n) \X Q |-> Keep(x[2], named[x[1]])]
<1>4. ASSUME NEW i \in 1 .. n, NEW q \in Q PROVE Keep(q, named[i]) \in Q
  <2>1. named[i] \in S
    BY <1>3
  <2>2. Append(q, named[i]) \in Q
    BY <2>1
  <2> QED BY <2>2 DEF Keep
<1>5. <<>> \in Q
  OBVIOUS
<1> HIDE DEF Q
<1>6. PICK g \in [0 .. n -> Q] : Runs(g, <<>>, keep, n)
  <2>1. Loop(<<>>, keep, n, Q)
    BY <1>3, <1>4, <1>5 DEF Loop
  <2> HIDE DEF keep
  <2> QED BY <2>1, LoopExists
<1>7. g = Step(g)
  <2>1. ASSUME NEW i \in 1 .. n PROVE g[i] = Keep(g[i - 1], named[i])
    <3>1. i - 1 \in 0 .. n /\ g[i - 1] \in Q
      BY <1>3, <1>6
    <3>2. g[i] = keep[<<i, g[i - 1]>>]
      BY <1>6 DEF Runs
    <3> QED BY <3>1, <3>2
  <2>2. g[0] = <<>>
    BY <1>6 DEF Runs
  <2>3. \A i \in 0 .. n : g[i] = IF i = 0 THEN <<>> ELSE Keep(g[i - 1], named[i])
    BY <1>3, <2>1, <2>2
  <2> HIDE DEF n
  <2> QED BY <2>3 DEF Keep
<1>8. kept = Step(kept)
  BY <1>7
<1> HIDE DEF kept, keep
<1>9. kept[0] = <<>> /\ \A i \in 1 .. n : kept[i] = Keep(kept[i - 1], named[i])
  <2>1. \A i \in 0 .. n : kept[i] = IF i = 0 THEN <<>> ELSE Keep(kept[i - 1], named[i])
    BY <1>8 DEF Keep
  <2> QED BY <1>3, <2>1
<1> HIDE DEF Step
<1> DEFINE OK(i) == /\ kept[i] \in Seq(S) /\ Distinct(kept[i])
                    /\ \A j \in 1 .. i : named[j] # Blank => named[j] \in ToSet(kept[i])
                    /\ InOrder(kept[i], named, i)
           T == {i \in 0 .. n : OK(i)}
<1>10. 0 \in T
  <2>1. <<>> \in Seq(S) /\ Distinct(<<>>)
    <3>1. \A i \in DOMAIN <<>> : FALSE
      OBVIOUS
    <3> QED BY <3>1 DEF Distinct
  <2>2. 0 \in 0 .. n /\ \A j \in 1 .. 0 : FALSE
    BY <1>3
  <2>3. InOrder(<<>>, named, 0)
    <3>1. \A i \in DOMAIN <<>> : FALSE
      OBVIOUS
    <3> QED BY <3>1 DEF InOrder
  <2>4. OK(0)
    BY <1>9, <2>1, <2>2, <2>3
  <2> HIDE DEF OK
  <2> QED BY <2>2, <2>4
<1>11. ASSUME NEW i \in 1 .. n, i - 1 \in T PROVE i \in T
  <2> DEFINE was == kept[i - 1]
             now == kept[i]
  <2>1. was \in Seq(S) /\ Distinct(was) /\ now = Keep(was, named[i]) /\ named[i] \in S
    BY <1>3, <1>9, <1>11
  <2>2. \A j \in 1 .. i - 1 : named[j] # Blank => named[j] \in ToSet(was)
    BY <1>11
  <2> HIDE DEF was
  <2>3. /\ now \in Seq(S) /\ Distinct(now)
        /\ (ToSet(was) \cup {named[i]}) \ {Blank} \subseteq ToSet(now)
    BY <2>1, KeepKeeps
  <2>4. \A j \in 1 .. i : named[j] # Blank => named[j] \in ToSet(now)
    <3> HIDE DEF now
    <3> SUFFICES ASSUME NEW j \in 1 .. i, named[j] # Blank PROVE named[j] \in ToSet(now)
      OBVIOUS
    <3>1. i \in Nat
      BY <1>3
    <3>2. j = i \/ j \in 1 .. i - 1
      BY <3>1
    <3> QED BY <2>2, <2>3, <3>2
  <2>5. InOrder(now, named, i)
    <3>1. InOrder(was, named, i - 1) /\ i \in Nat \ {0}
      BY <1>3, <1>11 DEF was
    <3> HIDE DEF now
    <3> QED BY <2>1, <2>2, <3>1, KeepKeepsOrder
  <2> QED BY <2>3, <2>4, <2>5
<1>12. n \in T
  <2> HIDE DEF T
  <2>1. \A i \in 0 .. n : i \in T
    BY <1>3, <1>10, <1>11, RangeInduction
  <2> QED BY <1>3, <2>1
<1>13. DOMAIN named = 1 .. n
  BY <1>2 DEF n
<1> QED BY <1>1, <1>2, <1>12, <1>13 DEF S, n, named

\* A question: what it is about, who has been asked and who has failed.
Question ==
    [at : AskAt, requested : Requests \cup {None}, reranked : BOOLEAN, evidence : Seq(Passages),
     models : Seq(Name), failures : Seq(Name), model : Name \cup {None}]

Waiting == {"idle", "rerank", "ground", "no evidence", "failed"}

\* The models that have failed are the first ones of the list, and the one that
\* has answered is the next.
AskInv ==
    /\ ask \in Question
    /\ ask.at = "idle" => ~ask.reranked
    /\ ask.reranked => Len(ask.evidence) <= TopK
    /\ ask.at \in Waiting => ask.failures = <<>> /\ ask.model = None
    /\ ask.at \notin Waiting =>
         /\ ask.evidence # <<>>
         /\ ask.requested \in Requests /\ ask.models = CandidateModels(ask.requested)
         /\ \A i \in 1 .. Len(ask.failures) : ask.failures[i] = ask.models[i]
    /\ ask.at \in {"complete", "all failed"} => ask.model = None
    /\ ask.at \in {"answered", "raised"} => ask.model = ask.models[Len(ask.failures) + 1]
    /\ ask.at \in {"complete", "answered", "raised"} => Len(ask.failures) < Len(ask.models)
    /\ ask.at = "all failed" => Len(ask.failures) = Len(ask.models)

LEMMA AskInit == Init => AskInv
<1> SUFFICES ASSUME Init PROVE AskInv
  OBVIOUS
<1>1. PICK a \in {"idle", "failed"} :
        ask = [at |-> a, requested |-> None, reranked |-> FALSE, evidence |-> <<>>,
               models |-> <<>>, failures |-> <<>>, model |-> None]
  <2>1. ask = Unasked \/ ask = [Unasked EXCEPT !.at = "failed"]
    BY DEF Init
  <2>2. CASE ask = Unasked
    BY <2>2 DEF Unasked
  <2>3. CASE ask = [Unasked EXCEPT !.at = "failed"]
    BY <2>3 DEF Unasked
  <2> QED BY <2>1, <2>2, <2>3
<1>2. /\ ask.at = a /\ ask.requested = None /\ ask.reranked = FALSE /\ ask.evidence = <<>>
      /\ ask.models = <<>> /\ ask.failures = <<>> /\ ask.model = None
  BY <1>1
<1>3. ask \in Question
  <2>1. a \in AskAt /\ None \in Requests \cup {None} /\ None \in Name \cup {None}
    BY DEF AskAt
  <2>2. <<>> \in Seq(Passages) /\ <<>> \in Seq(Name) /\ FALSE \in BOOLEAN
    OBVIOUS
  <2> QED BY <1>1, <2>1, <2>2 DEF Question
<1> QED BY <1>2, <1>3 DEF AskInv, Waiting

LEMMA Appended ==
    ASSUME NEW S, NEW s \in Seq(S), NEW x \in S
    PROVE  /\ Append(s, x) \in Seq(S) /\ Len(Append(s, x)) = Len(s) + 1
           /\ \A i \in 1 .. Len(s) : Append(s, x)[i] = s[i]
           /\ Append(s, x)[Len(s) + 1] = x
OBVIOUS

LEMMA AskGoesOn == AskInv /\ [Next]_vars => AskInv'
<1> SUFFICES ASSUME AskInv, [Next]_vars PROVE AskInv'
  OBVIOUS
<1>0. /\ ask \in Question /\ ask.evidence \in Seq(Passages) /\ ask.models \in Seq(Name)
      /\ ask.failures \in Seq(Name) /\ ask.reranked \in BOOLEAN
  BY DEF AskInv, Question
<1>1. CASE Search
  <2>1. ask.at = "idle" /\ ask.failures = <<>> /\ ask.model = None /\ ask.reranked = FALSE
    BY <1>0, <1>1 DEF Search, AskInv, Waiting
  <2>2. CASE ask' = [ask EXCEPT !.at = "failed"]
    BY <1>0, <2>1, <2>2 DEF AskInv, Question, AskAt, Waiting
  <2>3. CASE ask' # [ask EXCEPT !.at = "failed"]
    <3>1. PICK found \in KnowledgeHits \cup ExternalHits : \E reranker \in BOOLEAN :
            ask' = [ask EXCEPT !.at = IF reranker /\ found # <<>> THEN "rerank" ELSE "ground",
                               !.evidence = found]
      BY <1>1, <2>3 DEF Search
    <3>2. PICK a \in {"rerank", "ground"} : ask' = [ask EXCEPT !.at = a, !.evidence = found]
      BY <3>1
    <3>3. found \in Seq(Passages)
      <4>1. CASE found \in KnowledgeHits
        BY <4>1 DEF KnowledgeHits
      <4>2. CASE found \in ExternalHits
        <5>1. PICK n \in 0 .. MaxEvidence : found \in [1 .. n -> Passages]
          BY <4>2 DEF ExternalHits
        <5>2. n \in Nat
          BY ModelsTyped
        <5> QED BY <5>1, <5>2
      <4> QED BY <4>1, <4>2
    <3> QED BY <1>0, <2>1, <3>2, <3>3 DEF AskInv, Question, AskAt, Waiting
  <2> QED BY <2>2, <2>3
<1>2. CASE Rerank
  <2>1. ask.at = "rerank" /\ ask.failures = <<>> /\ ask.model = None
    BY <1>2 DEF Rerank, AskInv, Waiting
  <2>2. CASE ask' = [ask EXCEPT !.at = "failed"]
    BY <1>0, <2>1, <2>2 DEF AskInv, Question, AskAt, Waiting
  <2>3. CASE ask' # [ask EXCEPT !.at = "failed"]
    <3> DEFINE size == Len(ask.evidence)
               kept == IF size < TopK THEN size ELSE TopK
    <3>1. PICK order \in [1 .. kept -> 1 .. size] :
            ask' = [ask EXCEPT !.at = "ground", !.reranked = TRUE,
                               !.evidence = [i \in 1 .. kept |-> @[order[i]]]]
      BY <1>2, <2>3 DEF Rerank
    <3> DEFINE first == [i \in 1 .. kept |-> ask.evidence[order[i]]]
    <3>2. ask' = [ask EXCEPT !.at = "ground", !.reranked = TRUE, !.evidence = first]
      BY <1>0, <3>1 DEF Question
    <3>3. kept \in Nat /\ kept <= TopK
      BY <1>0, ModelsTyped
    <3>4. ASSUME NEW i \in 1 .. kept PROVE ask.evidence[order[i]] \in Passages
      <4>1. order[i] \in 1 .. Len(ask.evidence)
        BY <3>1
      <4> QED BY <1>0, <4>1
    <3> HIDE DEF kept
    <3>5. first \in Seq(Passages) /\ Len(first) = kept
      BY <3>3, <3>4
    <3> HIDE DEF first
    <3> QED BY <1>0, <2>1, <3>2, <3>3, <3>5 DEF AskInv, Question, AskAt, Waiting
  <2> QED BY <2>2, <2>3
<1>3. CASE Ground
  <2>1. ask.at = "ground" /\ ask.failures = <<>> /\ ask.model = None
    BY <1>3 DEF Ground, AskInv, Waiting
  <2>2. CASE ask' = [ask EXCEPT !.at = "no evidence"]
    BY <1>0, <2>1, <2>2 DEF AskInv, Question, AskAt, Waiting
  <2>3. CASE ask' # [ask EXCEPT !.at = "no evidence"]
    <3>1. PICK requested \in Requests :
            LET models == CandidateModels(requested)
            IN  ask' = [ask EXCEPT !.at = IF models = <<>> THEN "all failed" ELSE "complete",
                                   !.requested = requested, !.models = models]
      BY <1>3, <2>3 DEF Ground
    <3> DEFINE models == CandidateModels(requested)
               a == IF models = <<>> THEN "all failed" ELSE "complete"
    <3>2. ask' = [ask EXCEPT !.at = a, !.requested = requested, !.models = models]
      BY <3>1
    <3>3. models \in Seq(Name)
      BY CandidatesOnce
    <3>4. ask.evidence # <<>>
      BY <1>3, <2>3 DEF Ground
    <3>5. models = CandidateModels(requested)
      OBVIOUS
    <3> HIDE DEF models
    <3>6. /\ a \in {"all failed", "complete"} /\ (a = "all failed" => Len(models) = 0)
          /\ (a = "complete" => 0 < Len(models))
      BY <3>3
    <3> HIDE DEF a
    <3>7. /\ ask' \in Question /\ ask'.at = a /\ ask'.requested = requested
          /\ ask'.models = models /\ ask'.evidence = ask.evidence /\ ask'.failures = <<>>
          /\ ask'.model = None /\ ask'.reranked = ask.reranked
      BY <1>0, <2>1, <3>2, <3>3, <3>6 DEF Question, AskAt
    <3>8. Len(ask'.failures) = 0 /\ \A i \in 1 .. 0 : FALSE
      BY <3>7, EmptySeq
    <3>9. ask.reranked => Len(ask.evidence) <= TopK
      BY DEF AskInv
    <3> QED BY <3>4, <3>5, <3>6, <3>7, <3>8, <3>9 DEF AskInv, Waiting
  <2> QED BY <2>2, <2>3
<1>4. CASE CompleteOnce
  <2> DEFINE k == Len(ask.failures)
             n == Len(ask.models)
             model == ask.models[k + 1]
             more == Append(ask.failures, model)
  <2>1. /\ ask.at = "complete" /\ k < n /\ ask.model = None /\ ask.evidence # <<>>
        /\ ask.requested \in Requests /\ ask.models = CandidateModels(ask.requested)
        /\ \A i \in 1 .. k : ask.failures[i] = ask.models[i]
        /\ ask.reranked => Len(ask.evidence) <= TopK
    BY <1>4 DEF CompleteOnce, AskInv, Waiting
  <2>2. k \in Nat /\ n \in Nat
    BY <1>0, LenProperties
  <2>3. k + 1 \in 1 .. n /\ model \in Name
    <3>1. k + 1 \in 1 .. n
      BY <2>1, <2>2
    <3> QED BY <1>0, <3>1, ElementOfSeq
  <2>4. \/ \E a \in {"answered", "raised"} : ask' = [ask EXCEPT !.at = a, !.model = model]
        \/ ask' = [ask EXCEPT !.failures = more,
                              !.at = IF k + 1 = n THEN "all failed" ELSE "complete"]
    BY <1>0, <1>4 DEF CompleteOnce, Question
  <2> HIDE DEF model
  <2>5. CASE \E a \in {"answered", "raised"} : ask' = [ask EXCEPT !.at = a, !.model = model]
    <3>1. PICK a \in {"answered", "raised"} : ask' = [ask EXCEPT !.at = a, !.model = model]
      BY <2>5
    <3>2. /\ ask' \in Question /\ ask'.at = a /\ ask'.model = model
          /\ ask'.requested = ask.requested /\ ask'.models = ask.models
          /\ ask'.evidence = ask.evidence /\ ask'.failures = ask.failures
          /\ ask'.reranked = ask.reranked
      BY <1>0, <2>3, <3>1 DEF Question, AskAt
    <3> QED BY <2>1, <3>2 DEF AskInv, Waiting, model
  <2>6. CASE ask' = [ask EXCEPT !.failures = more,
                                !.at = IF k + 1 = n THEN "all failed" ELSE "complete"]
    <3>1. /\ more \in Seq(Name) /\ Len(more) = k + 1
          /\ \A i \in 1 .. k : more[i] = ask.failures[i]
          /\ more[k + 1] = model
      BY <1>0, <2>3, Appended
    <3> HIDE DEF more
    <3> DEFINE a == IF k + 1 = n THEN "all failed" ELSE "complete"
    <3>2. /\ a \in {"all failed", "complete"} /\ (a = "all failed" => k + 1 = n)
          /\ (a = "complete" => k + 1 < n)
      BY <2>1, <2>2
    <3>3. ask' = [ask EXCEPT !.failures = more, !.at = a]
      BY <2>6
    <3> HIDE DEF a
    <3>4. /\ ask' \in Question /\ ask'.at = a /\ ask'.model = None
          /\ ask'.requested = ask.requested /\ ask'.models = ask.models
          /\ ask'.evidence = ask.evidence /\ ask'.failures = more
          /\ ask'.reranked = ask.reranked
      BY <1>0, <2>1, <3>1, <3>2, <3>3 DEF Question, AskAt
    <3>5. \A i \in 1 .. k + 1 : more[i] = ask.models[i]
      <4>1. \A i \in 1 .. k + 1 : i \in 1 .. k \/ i = k + 1
        BY <2>2
      <4> QED BY <2>1, <3>1, <4>1 DEF model
    <3> HIDE DEF k, n
    <3>6. /\ Len(ask'.failures) = k + 1 /\ Len(ask'.models) = n
          /\ \A i \in 1 .. Len(ask'.failures) : ask'.failures[i] = ask'.models[i]
      BY <3>1, <3>4, <3>5 DEF n
    <3> QED BY <2>1, <3>2, <3>4, <3>6 DEF AskInv, Waiting
  <2> QED BY <2>4, <2>5, <2>6
<1>5. CASE UNCHANGED ask
  BY <1>5 DEF AskInv
<1> QED BY <1>1, <1>2, <1>3, <1>4, <1>5
        DEF Next, LoadCorpus, Load, ChunkDocument, CutChunk, Embed, UpsertVectors, Answer,
            FindDocument, UpsertDocument, GetDocument, IndexDocument, UpsertChunks, Forget, vars

\* Whatever the evidence, the reranker and the models that are configured: a
\* model is asked only with evidence, once, and after every model named before
\* it, the default one included, has failed; and it is said that all have
\* failed only when each of them has.
THEOREM AnswersAreBacked == Spec => []AnswerBacked
<1>1. AskInv => AnswerBacked
  <2> SUFFICES ASSUME AskInv PROVE AnswerBacked
    OBVIOUS
  <2>0. /\ ask \in Question /\ ask.at \in AskAt /\ ask.failures \in Seq(Name)
        /\ ask.models \in Seq(Name)
        /\ ask.reranked => Len(ask.evidence) <= TopK
    BY DEF AskInv, Question
  <2> DEFINE named == Named(ask.requested)
  <2>1. CASE ask.at \in Waiting
    <3>1. Tried = <<>> /\ DOMAIN Tried = {} /\ ask.model = None
      <4>1. ask.failures = <<>> /\ ask.model = None
        BY <2>1 DEF AskInv
      <4>2. Tried = <<>>
        BY <4>1 DEF Tried
      <4> QED BY <4>1, <4>2
    <3>2. ask.at \notin {"all failed", "answered", "raised"}
      BY <2>1 DEF Waiting
    <3> HIDE DEF named
    <3> QED BY <2>0, <3>1, <3>2 DEF AnswerBacked, named
  <2>2. CASE ask.at \notin Waiting
    <3> DEFINE k == Len(ask.failures)
               n == Len(ask.models)
               c == ask.models
    <3>1. /\ ask.evidence # <<>> /\ ask.requested \in Requests
          /\ c = CandidateModels(ask.requested)
          /\ \A i \in 1 .. k : ask.failures[i] = c[i]
      BY <2>2 DEF AskInv
    <3>2. /\ Distinct(c) /\ named \in Seq(Name) /\ InOrder(c, named, Len(named))
          /\ \A a \in DOMAIN named : named[a] # Blank => named[a] \in ToSet(c)
      BY <3>1, CandidatesOnce
    <3> HIDE DEF named
    <3>3. k \in Nat /\ n \in Nat /\ DOMAIN c = 1 .. n /\ DOMAIN ask.failures = 1 .. k
      BY <2>0, LenProperties
    <3>4. ask.at \in {"complete", "answered", "raised", "all failed"}
      BY <2>0, <2>2 DEF AskAt, Waiting
    <3>5. /\ Tried \in Seq(Name) /\ Len(Tried) <= n
          /\ \A i \in 1 .. Len(Tried) : Tried[i] = c[i]
          /\ ask.at \in {"answered", "raised"} <=> ask.model # None
      <4>1. CASE ask.at \in {"complete", "all failed"}
        <5>0. /\ ask.model = None
              /\ ask.at = "complete" => k < n
              /\ ask.at = "all failed" => k = n
          BY <4>1 DEF AskInv
        <5>1. k < n \/ k = n
          BY <4>1, <5>0
        <5>2. k <= n
          BY <3>3, <5>1
        <5> QED BY <2>0, <3>1, <3>3, <4>1, <5>0, <5>2 DEF Tried
      <4>2. CASE ask.at \in {"answered", "raised"}
        <5>1. ask.model = c[k + 1] /\ k < n
          BY <4>2 DEF AskInv
        <5>2. k + 1 \in 1 .. n
          BY <3>3, <5>1
        <5>3. ask.model \in Name /\ ask.model # None
          <6>1. ask.model \in Name
            BY <2>0, <5>1, <5>2, ElementOfSeq
          <6> QED BY <6>1, NoneIsNone DEF Name
        <5>4. Tried = Append(ask.failures, ask.model)
          BY <5>3 DEF Tried
        <5>5. /\ Append(ask.failures, ask.model) \in Seq(Name)
              /\ Len(Append(ask.failures, ask.model)) = k + 1
              /\ \A i \in 1 .. k : Append(ask.failures, ask.model)[i] = ask.failures[i]
              /\ Append(ask.failures, ask.model)[k + 1] = ask.model
          BY <2>0, <5>3, Appended
        <5>8. \A i \in 1 .. k + 1 : i \in 1 .. k \/ i = k + 1
          BY <3>3
        <5>9. \A i \in 1 .. k + 1 : Tried[i] = c[i]
          BY <3>1, <5>1, <5>4, <5>5, <5>8
        <5>10. Len(Tried) = k + 1 /\ k + 1 <= n
          BY <3>3, <5>1, <5>4, <5>5
        <5> QED BY <4>2, <5>3, <5>4, <5>5, <5>9, <5>10
      <4> QED BY <3>4, <4>1, <4>2
    <3>6. DOMAIN Tried = 1 .. Len(Tried) /\ Len(Tried) \in Nat
      BY <3>5, LenProperties
    <3>7. \A p, q \in DOMAIN Tried : Tried[p] = Tried[q] => p = q
      <4>1. \A p \in DOMAIN Tried : p \in DOMAIN c /\ Tried[p] = c[p]
        BY <3>3, <3>5, <3>6
      <4> QED BY <3>2, <4>1 DEF Distinct
    <3>8. ASSUME NEW p \in DOMAIN Tried
          PROVE  \E a \in DOMAIN named :
                    /\ named[a] = Tried[p]
                    /\ \A b \in 1 .. a - 1 : named[b] # Blank => \E q \in 1 .. p - 1 : Tried[q] = named[b]
      <4>1. p \in DOMAIN c /\ Tried[p] = c[p] /\ \A q \in 1 .. p - 1 : Tried[q] = c[q]
        BY <3>3, <3>5, <3>6
      <4>2. PICK a \in 1 .. Len(named) :
              /\ named[a] = c[p]
              /\ \A b \in 1 .. a - 1 : named[b] # Blank => \E q \in 1 .. p - 1 : c[q] = named[b]
        BY <3>2, <4>1 DEF InOrder
      <4>3. a \in DOMAIN named
        BY <3>2, LenProperties
      <4> QED BY <4>1, <4>2, <4>3
    <3>9. ask.at = "all failed" => ToSet(named) \ {Blank} = ToSet(ask.failures)
      <4> SUFFICES ASSUME ask.at = "all failed" PROVE ToSet(named) \ {Blank} = ToSet(ask.failures)
        OBVIOUS
      <4>1. k = n
        BY DEF AskInv
      <4>2. ToSet(ask.failures) = ToSet(c)
        BY <3>1, <3>3, <4>1 DEF ToSet
      <4>3. ToSet(c) \subseteq ToSet(named) \ {Blank}
        <5>1. DOMAIN named = 1 .. Len(named)
          BY <3>2, LenProperties
        <5> SUFFICES ASSUME NEW x \in ToSet(c) PROVE x \in ToSet(named) /\ x # Blank
          OBVIOUS
        <5>2. PICK p \in DOMAIN c : x = c[p]
          BY DEF ToSet
        <5>3. c[p] # Blank /\ \E a \in 1 .. Len(named) : named[a] = c[p]
          BY <3>2 DEF InOrder
        <5> QED BY <5>1, <5>2, <5>3 DEF ToSet
      <4>4. ToSet(named) \ {Blank} \subseteq ToSet(c)
        BY <3>2 DEF ToSet
      <4> QED BY <4>2, <4>3, <4>4
    <3>10. ask.at \notin {"no evidence", "failed"}
      BY <3>4
    <3> QED BY <2>0, <3>1, <3>5, <3>7, <3>8, <3>9, <3>10 DEF AnswerBacked, Blank, named
  <2> QED BY <2>1, <2>2
<1> QED BY <1>1, AskInit, AskGoesOn, PTL DEF Spec
=============================================================================
